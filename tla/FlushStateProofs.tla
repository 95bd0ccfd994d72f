-------------------------- MODULE FlushStateProofs ---------------------------
(***************************************************************************)
(* The files, the index and the chainstate agree, in memory and after      *)
(* every crash, for every tree of blocks, every size and number of files   *)
(* and any number of crashes and flushes: the inductive invariant, what    *)
(* the operators on entries, files and positions do, and the actions.      *)
(***************************************************************************)
EXTENDS FlushState, TLAPS

-----------------------------------------------------------------------------
(* The inductive invariant. *)

Info == [nSize : Nat, nUndoSize : Nat, nHeightLast : Nat]
Entries == [Blocks -> Entry \cup {Absent}]
Infos == [Files -> Info]
Contents == [Files -> Seq(Blocks \cup {Garbage})]

Typed ==
    /\ index \in Entries /\ dbIndex \in Entries
    /\ vinfo \in Infos /\ dbVinfo \in Infos
    /\ \A f \in Files : vinfo[f].nSize < MaxBlockfileSize /\ dbVinfo[f].nSize < MaxBlockfileSize
    /\ nLastBlockFile \in Files /\ dbLastBlockFile \in Files
    /\ setDirtyBlockIndex \subseteq Blocks /\ setDirtyFileInfo \subseteq Files
    /\ blk \in Contents /\ blkSync \in Contents /\ rev \in Contents /\ revSync \in Contents
    /\ tip \in Blocks /\ best \in Blocks /\ dbBest \in bests /\ bests \subseteq Blocks
    /\ nTipMax \in Nat
    /\ pc \in {"idle", "enter", "commit", "index", "unlink", "coins", "aborted", "stopped", "broken"}

\* Undo data is that of a stored block.
UndoHasData(ix) == \A b \in Blocks : HasUndo(ix[b]) => HasData(ix[b])

\* What is not marked dirty is on disk as it is in memory; so is everything,
\* from the write of the index to the end of the flush.
Clean ==
    /\ \A b \in Blocks \ setDirtyBlockIndex : dbIndex[b] = index[b]
    /\ \A f \in Files \ setDirtyFileInfo : dbVinfo[f] = vinfo[f]
    /\ pc \in {"unlink", "coins"} => setDirtyBlockIndex = {} /\ setDirtyFileInfo = {}

\* No stored block is in a file that is about to be removed, and the file
\* that is written to is not removed.
PrunedUnused ==
    /\ \A f \in setFilesToPrune : f < nLastBlockFile
    /\ \A b \in Blocks : HasData(index[b]) => index[b].nFile \notin setFilesToPrune
    /\ setFilesToPrune # {} => pc \in {"commit", "index", "unlink"}

\* Sizes only grow while a file is in use.
InUse(f) == f >= nLastBlockFile \/ \E b \in Blocks : HasData(index[b]) /\ index[b].nFile = f
SizesGrow ==
    \A f \in Files : InUse(f) => /\ dbVinfo[f].nSize <= vinfo[f].nSize
                                 /\ dbVinfo[f].nUndoSize <= vinfo[f].nUndoSize

\* The entries ix find their blocks in the contents, below the sizes vi.
Finds(ix, vi, contents) ==
    \A b \in Blocks : HasData(ix[b]) =>
        /\ ix[b].nDataPos <= vi[ix[b].nFile].nSize
        /\ At(contents[ix[b].nFile], ix[b].nDataPos) = b

\* Stored blocks are committed, but in the file that is being written.
Committed ==
    \A b \in Blocks : HasData(index[b]) /\ (index[b].nFile # nLastBlockFile \/ pc = "index") =>
        At(blkSync[index[b].nFile], index[b].nDataPos) = b

BlocksFound ==
    /\ Finds(index, vinfo, blk)
    /\ Finds(dbIndex, dbVinfo, blk) /\ Finds(dbIndex, dbVinfo, blkSync)
    /\ Committed

\* Entries come with those of their ancestors, and the chainstates with entries.
KnownBelow(ix) == \A b \in Blocks : ix[b] # Absent => \A a \in Ancestry[b] : ix[a] # Absent
ChainKnown ==
    /\ KnownBelow(index) /\ KnownBelow(dbIndex)
    /\ \A b \in Blocks : dbIndex[b] # Absent => index[b] # Absent
    /\ Known(tip) /\ Known(best)
    /\ \A x \in bests : dbIndex[x] # Absent
    /\ pc # "broken"

DiskInv ==
    /\ Typed /\ UndoHasData(index) /\ UndoHasData(dbIndex)
    /\ Clean /\ PrunedUnused /\ SizesGrow /\ BlocksFound /\ ChainKnown

-----------------------------------------------------------------------------
(* Numbers and sizes. *)

\* Max and Min of two numbers.
LEMMA OfTwo ==
  ASSUME NEW a \in Int, NEW b \in Int
  PROVE  /\ Max({a, b}) = IF a >= b THEN a ELSE b
         /\ Min({a, b}) = IF a <= b THEN a ELSE b
  <1>1. \E x \in {a, b} : \A y \in {a, b} : x >= y
    BY SMT
  <1>2. \E x \in {a, b} : \A y \in {a, b} : x <= y
    BY SMT
  <1> QED
    BY <1>1, <1>2, SMT DEF Max, Min

\* AddBlock makes the file one block longer and as high as its highest block.
LEMMA AddBlockFacts ==
  ASSUME NEW info \in Info, NEW b \in Blocks
  PROVE  /\ AddBlock(info, b) \in Info
         /\ AddBlock(info, b).nSize = info.nSize + 1
         /\ AddBlock(info, b).nUndoSize = info.nUndoSize
         /\ AddBlock(info, b).nHeightLast >= info.nHeightLast
         /\ AddBlock(info, b).nHeightLast >= Height[b]
  <1> DEFINE h == Max({info.nHeightLast, Height[b]})
  <1>1. info.nHeightLast \in Nat /\ Height[b] \in Nat
    BY Zenon, FlushAssumption DEF Info
  <1>2. h \in Nat /\ h >= info.nHeightLast /\ h >= Height[b]
    BY <1>1, OfTwo
  <1> DEFINE n == info.nSize + 1
  <1>3. n \in Nat
    BY DEF Info
  <1>4. AddBlock(info, b) = [info EXCEPT !.nSize = n, !.nHeightLast = h]
    BY Zenon DEF AddBlock
  <1> HIDE DEF h, n
  <1>5. [info EXCEPT !.nSize = n] \in Info
    BY Zenon, <1>3 DEF Info
  <1>6. AddBlock(info, b) \in Info
    BY Zenon, <1>2, <1>4, <1>5 DEF Info
  <1>7. /\ AddBlock(info, b).nSize = n /\ AddBlock(info, b).nUndoSize = info.nUndoSize
        /\ AddBlock(info, b).nHeightLast = h
    BY Zenon, <1>4 DEF Info
  <1> QED
    BY Zenon, <1>2, <1>6, <1>7 DEF n

-----------------------------------------------------------------------------
(* Entries and contents of files. *)

\* What the fields of an entry tell.
LEMMA EntryFacts ==
  /\ \A e \in Entry \cup {Absent} :
       /\ e.nFile \in Files \cup {Garbage} /\ e.nTx \in BOOLEAN
       /\ e # Absent => e \in Entry /\ e.nFile \in Files
       /\ HasData(e) => e # Absent /\ e.nDataPos \in 1..MaxBlockfileSize
       /\ HasUndo(e) => e # Absent /\ e.nUndoPos \in Nat \ {0}
  /\ ~HasData(Absent) /\ ~HasUndo(Absent)
  /\ HeaderOnly \in Entry /\ HeaderOnly # Absent
  /\ ~HasData(HeaderOnly) /\ ~HasUndo(HeaderOnly)
  /\ Absent \notin Entry
  <1>1. /\ Absent.nTx = FALSE /\ Absent.nFile = Garbage /\ Absent.nDataPos = Null /\ Absent.nUndoPos = Null
        /\ HeaderOnly.nDataPos = Null /\ HeaderOnly.nUndoPos = Null /\ HeaderOnly.nFile = 0
    BY Zenon DEF Absent, HeaderOnly
  <1>2. HeaderOnly \in Entry
    BY FlushAssumption DEF HeaderOnly, Entry, Files
  <1>3. Garbage \notin Files /\ 0 # Garbage
    BY FlushAssumption DEF Garbage, Files
  <1>4. \A e \in Entry : /\ e.nTx \in BOOLEAN /\ e.nFile \in Files
                         /\ e.nDataPos \in {Null} \cup 1..MaxBlockfileSize
                         /\ e.nUndoPos \in {Null} \cup (Nat \ {0})
    BY Zenon DEF Entry
  <1>5. Absent \notin Entry
    BY <1>1, <1>3, <1>4, Zenon
  <1> QED
    BY <1>1, <1>2, <1>3, <1>4, <1>5, Zenon DEF HasData, HasUndo

\* Cutting a file off at its size keeps what is below.
LEMMA FinalizedFacts ==
  ASSUME NEW c \in Seq(Blocks \cup {Garbage}), NEW n \in Nat
  PROVE  /\ Finalized(c, n) \in Seq(Blocks \cup {Garbage})
         /\ \A i \in Nat : i <= n => At(Finalized(c, n), i) = At(c, i)
  <1> DEFINE m == Min({Len(c), n})
  <1>0. Len(c) \in Int /\ n \in Int
    OBVIOUS
  <1>1. m = IF Len(c) <= n THEN Len(c) ELSE n
    BY <1>0, OfTwo, Zenon
  <1>2. m \in Nat /\ m <= Len(c) /\ Finalized(c, n) = SubSeq(c, 1, m)
    BY <1>1 DEF Finalized
  <1> HIDE DEF m
  <1>3. /\ SubSeq(c, 1, m) \in Seq(Blocks \cup {Garbage}) /\ Len(SubSeq(c, 1, m)) = m
        /\ \A i \in 1..m : SubSeq(c, 1, m)[i] = c[i]
    BY <1>2
  <1>4. DOMAIN SubSeq(c, 1, m) = 1..m /\ DOMAIN c = 1..Len(c)
    BY <1>3
  <1>5. ASSUME NEW i \in Nat, i <= n PROVE At(SubSeq(c, 1, m), i) = At(c, i)
    <2>1. i \in 1..m <=> i \in 1..Len(c)
      BY <1>0, <1>1, <1>5
    <2> QED
      BY <1>3, <1>4, <2>1, Zenon DEF At
  <1> QED
    BY <1>2, <1>3, <1>5, Zenon

\* Writing at a position changes what is there and nothing else.
LEMMA WriteAtShape ==
  ASSUME NEW c \in Seq(Blocks \cup {Garbage}), NEW pos \in Nat \ {0}, NEW b \in Blocks
  PROVE  \E m \in Nat : /\ m >= Len(c) /\ m >= pos
                        /\ WriteAt(c, pos, b) = [i \in 1..m |-> IF i = pos THEN b ELSE At(c, i)]
  <1> DEFINE m == Max({Len(c), pos})
  <1>1. m \in Nat /\ m >= Len(c) /\ m >= pos
    BY OfTwo
  <1>2. WriteAt(c, pos, b) = [i \in 1..m |-> IF i = pos THEN b ELSE At(c, i)]
    BY Zenon DEF WriteAt
  <1> HIDE DEF m
  <1> QED
    BY <1>1, <1>2, Zenon

\* A write puts the block at its position and keeps the contents typed.
LEMMA WriteAtFacts ==
  ASSUME NEW c \in Seq(Blocks \cup {Garbage}), NEW pos \in Nat \ {0}, NEW b \in Blocks
  PROVE  /\ WriteAt(c, pos, b) \in Seq(Blocks \cup {Garbage})
         /\ At(WriteAt(c, pos, b), pos) = b
  <1>1. PICK m \in Nat : /\ m >= Len(c) /\ m >= pos
                         /\ WriteAt(c, pos, b) = [i \in 1..m |-> IF i = pos THEN b ELSE At(c, i)]
    BY Zenon, WriteAtShape
  <1>2. \A i \in Nat : At(c, i) \in Blocks \cup {Garbage}
    BY DEF At
  <1>3. WriteAt(c, pos, b) \in Seq(Blocks \cup {Garbage})
    BY <1>1, <1>2
  <1>4. pos \in DOMAIN WriteAt(c, pos, b) /\ WriteAt(c, pos, b)[pos] = b
    BY <1>1
  <1> QED
    BY <1>3, <1>4, Zenon DEF At

\* A write leaves what is before its position alone.
LEMMA WriteAtElsewhere ==
  ASSUME NEW c \in Seq(Blocks \cup {Garbage}), NEW pos \in Nat \ {0}, NEW b \in Blocks,
         NEW i \in Nat, i # pos
  PROVE  At(WriteAt(c, pos, b), i) = At(c, i)
  <1>1. PICK m \in Nat : /\ m >= Len(c) /\ m >= pos
                         /\ WriteAt(c, pos, b) = [j \in 1..m |-> IF j = pos THEN b ELSE At(c, j)]
    BY ZenonT(30), WriteAtShape
  <1>2. DOMAIN c = 1..Len(c)
    OBVIOUS
  <1> QED
    BY <1>1, <1>2 DEF At

\* A block is found only in a file that has something in it.
LEMMA FoundInFile ==
  ASSUME NEW c, NEW pos, At(c, pos) \in Blocks
  PROVE  c # <<>>
  <1>1. DOMAIN <<>> = {}
    OBVIOUS
  <1> QED
    BY Zenon, <1>1, FlushAssumption DEF At

-----------------------------------------------------------------------------
(* Every action keeps the invariant. *)

\* The first start has written genesis.
LEMMA InitDisk == Init => DiskInv
  <1> SUFFICES ASSUME Init PROVE DiskInv
    OBVIOUS
  <1> DEFINE first == [nTx |-> TRUE, nFile |-> 0, nDataPos |-> 1, nUndoPos |-> Null]
  <1>1. first \in Entry /\ first # Absent /\ HasData(first) /\ ~HasUndo(first)
        /\ first.nFile = 0 /\ first.nDataPos = 1
    BY FlushAssumption DEF Entry, Absent, HeaderOnly, HasData, HasUndo, Files, Null, Garbage
  <1>2. Genesis \in Blocks /\ 0 \in Files
    BY FlushAssumption DEF Blocks, Files
  <1>3. index = [b \in Blocks |-> IF b = Genesis THEN first ELSE Absent] /\ dbIndex = index
    BY Zenon DEF Init
  <1> HIDE DEF first
  <1>4. index \in Entries /\ \A b \in Blocks : HasData(index[b]) => b = Genesis
    BY Zenon, <1>1, <1>2, <1>3, EntryFacts DEF Entries
  <1>5. NullInfo \in Info /\ [NullInfo EXCEPT !.nSize = 1] \in Info
        /\ NullInfo.nSize = 0 /\ [NullInfo EXCEPT !.nSize = 1].nSize = 1
    BY Zenon DEF NullInfo, Info
  <1>6. vinfo \in Infos /\ dbVinfo = vinfo /\ vinfo[0].nSize = 1
        /\ \A f \in Files : vinfo[f].nSize < MaxBlockfileSize
    <2>1. vinfo = [f \in Files |-> IF f = 0 THEN [NullInfo EXCEPT !.nSize = 1] ELSE NullInfo]
          /\ dbVinfo = vinfo
      BY Zenon DEF Init
    <2>2. 0 < MaxBlockfileSize /\ 1 < MaxBlockfileSize
      BY FlushAssumption
    <2> QED
      BY <1>2, <1>5, <2>1, <2>2, Zenon DEF Infos
  <1>7. blk \in Contents /\ rev \in Contents /\ blkSync = blk /\ revSync = rev
        /\ blk[0] = <<Genesis>>
    <2>1. blk = [f \in Files |-> IF f = 0 THEN <<Genesis>> ELSE <<>>] /\ rev = [f \in Files |-> <<>>]
          /\ blkSync = blk /\ revSync = rev
      BY Zenon DEF Init
    <2>2. <<>> \in Seq(Blocks \cup {Garbage}) /\ <<Genesis>> \in Seq(Blocks \cup {Garbage})
      BY <1>2
    <2> QED
      BY <1>2, <2>1, <2>2, Zenon DEF Contents
  <1>8. At(blk[0], 1) = Genesis
    BY <1>7 DEF At
  <1>9. Typed
    BY Zenon, <1>2, <1>3, <1>4, <1>6, <1>7 DEF Typed, Init
  <1>10. UndoHasData(index) /\ UndoHasData(dbIndex)
    BY <1>1, <1>2, <1>3, EntryFacts, Zenon DEF UndoHasData
  <1>11. Clean /\ PrunedUnused
    BY Zenon, <1>3, <1>6 DEF Clean, PrunedUnused, Init
  <1>12. SizesGrow
    BY <1>6 DEF SizesGrow, Infos, Info
  <1>13. Finds(index, vinfo, blk)
    BY <1>1, <1>2, <1>3, <1>4, <1>6, <1>8 DEF Finds
  <1>14. BlocksFound
    BY Zenon, <1>3, <1>6, <1>7, <1>13 DEF BlocksFound, Committed, Finds
  <1>15. ChainKnown
    <2>1. \A b \in Blocks : index[b] # Absent => b = Genesis
      BY Zenon, <1>3
    <2>2. index[Genesis] # Absent
      BY Zenon, <1>1, <1>2, <1>3
    <2> QED
      BY Zenon, <1>2, <1>3, <2>1, <2>2, FlushAssumption DEF ChainKnown, KnownBelow, Known, Init
  <1> QED
    BY Zenon, <1>9, <1>10, <1>11, <1>12, <1>14, <1>15 DEF DiskInv

\* A step that leaves the index, the files and the database alone.
LEMMA QuietKeepsDisk ==
  ASSUME DiskInv,
         index' = index, dbIndex' = dbIndex, vinfo' = vinfo, dbVinfo' = dbVinfo,
         nLastBlockFile' = nLastBlockFile, dbLastBlockFile' = dbLastBlockFile,
         setDirtyBlockIndex' = setDirtyBlockIndex, setDirtyFileInfo' = setDirtyFileInfo,
         blk' = blk, blkSync' = blkSync, rev' = rev, revSync' = revSync,
         tip' \in Blocks, Known(tip'), best' \in Blocks, Known(best'),
         dbBest' \in bests', bests' \subseteq Blocks, \A x \in bests' : dbIndex[x] # Absent,
         nTipMax' \in Nat,
         pc' \in {"idle", "enter", "aborted", "stopped"} \/ pc' = pc,
         setFilesToPrune' = {} \/ (setFilesToPrune' = setFilesToPrune /\ pc' = pc)
  PROVE  DiskInv'
  <1>1. Typed'
    BY Zenon DEF DiskInv, Typed
  <1>2. UndoHasData(index)' /\ UndoHasData(dbIndex)'
    BY Zenon DEF DiskInv, UndoHasData
  <1>3. Clean'
    BY Zenon DEF DiskInv, Clean
  <1>4. PrunedUnused'
    BY Zenon DEF DiskInv, PrunedUnused
  <1>5. SizesGrow'
    BY Zenon DEF DiskInv, SizesGrow, InUse
  <1>6. BlocksFound'
    BY Zenon DEF DiskInv, BlocksFound, Finds, Committed
  <1>7. ChainKnown'
    BY Zenon DEF DiskInv, ChainKnown, KnownBelow, Known
  <1> QED
    BY Zenon, <1>1, <1>2, <1>3, <1>4, <1>5, <1>6, <1>7 DEF DiskInv

\* Disconnecting a block, calling a flush and a full disk leave files and entries alone.
LEMMA CallKeepsDisk ==
  ASSUME DiskInv, DisconnectTip \/ PeriodicFlush \/ Shutdown \/ OutOfSpace \/ UNCHANGED vars
  PROVE  DiskInv'
  <1>1. tip \in Blocks /\ Known(tip) /\ best \in Blocks /\ Known(best) /\ dbBest \in bests
        /\ bests \subseteq Blocks /\ nTipMax \in Nat /\ \A x \in bests : dbIndex[x] # Absent
    BY Zenon DEF DiskInv, Typed, ChainKnown
  <1>2. setFilesToPrune = {} \/ pc \in {"commit", "index", "unlink"}
    BY Zenon DEF DiskInv, PrunedUnused
  <1>3. CASE DisconnectTip
    <2>1. Parent[tip] \in Blocks /\ Known(Parent[tip])
      <3>1. tip \in DOMAIN Parent
        BY Zenon, <1>1, <1>3 DEF DisconnectTip, Blocks
      <3>2. Parent[tip] \in Blocks /\ Parent[tip] \in Ancestry[tip]
        BY Zenon, <3>1, FlushAssumption
      <3> QED
        BY Zenon, <1>1, <3>2 DEF DiskInv, ChainKnown, KnownBelow, Known
    <2> QED
      BY Zenon, <1>1, <1>2, <1>3, <2>1, QuietKeepsDisk
      DEF DisconnectTip, CallFlush, entries, prune, files, database
  <1>4. CASE PeriodicFlush
    BY Zenon, <1>1, <1>2, <1>4, QuietKeepsDisk
    DEF PeriodicFlush, CallFlush, entries, chainState, prune, files, database, history
  <1>5. CASE Shutdown
    BY Zenon, <1>1, <1>2, <1>5, QuietKeepsDisk
    DEF Shutdown, CallFlush, entries, chainState, prune, files, database
  <1>6. CASE OutOfSpace
    BY Zenon, <1>1, <1>2, <1>6, QuietKeepsDisk
    DEF OutOfSpace, entries, chainState, prune, files, database, history
  <1>7. CASE UNCHANGED vars
    BY Zenon, <1>1, <1>2, <1>7, QuietKeepsDisk
    DEF vars, entries, chainState, prune, files, database, flush, history
  <1> QED
    BY Zenon, <1>3, <1>4, <1>5, <1>6, <1>7

\* The write of the chainstate: its block is in the index on disk by then.
LEMMA FlushCoinsKeepsDisk ==
  ASSUME DiskInv, FlushCoins
  PROVE  DiskInv'
  <1>1. /\ Known(best) /\ best \in Blocks /\ bests \subseteq Blocks /\ nTipMax \in Nat
        /\ \A x \in bests : dbIndex[x] # Absent
        /\ setFilesToPrune = {}
        /\ index[best] = dbIndex[best]
    BY Zenon DEF DiskInv, Typed, ChainKnown, PrunedUnused, Clean, FlushCoins
  <1>2. dbIndex[best] # Absent
    BY Zenon, <1>1 DEF Known
  <1>3. /\ tip' = best /\ best' = best /\ dbBest' = best /\ bests' = bests \cup {best}
        /\ pc' \in {"idle", "stopped"}
    BY Zenon DEF FlushCoins, Return
  <1>4. /\ index' = index /\ dbIndex' = dbIndex /\ vinfo' = vinfo /\ dbVinfo' = dbVinfo
        /\ nLastBlockFile' = nLastBlockFile /\ dbLastBlockFile' = dbLastBlockFile
        /\ setDirtyBlockIndex' = setDirtyBlockIndex /\ setDirtyFileInfo' = setDirtyFileInfo
        /\ blk' = blk /\ blkSync' = blkSync /\ rev' = rev /\ revSync' = revSync
        /\ nTipMax' = nTipMax /\ setFilesToPrune' = setFilesToPrune
    BY Zenon DEF FlushCoins, entries, files, history
  <1> QED
    BY Zenon, <1>1, <1>2, <1>3, <1>4, QuietKeepsDisk

\* New entries are added for a whole branch at once.
LEMMA HeadersKeepDisk ==
  ASSUME DiskInv, NEW h \in Tips, ProcessNewBlockHeaders(h)
  PROVE  DiskInv'
  <1> DEFINE new == NewHeaders(h)
  <1>1. /\ index' = [a \in Blocks |-> IF a \in new THEN HeaderOnly ELSE index[a]]
        /\ setDirtyBlockIndex' = setDirtyBlockIndex \cup new
        /\ pc = "idle" /\ pc' = pc /\ setFilesToPrune' = setFilesToPrune
        /\ vinfo' = vinfo /\ nLastBlockFile' = nLastBlockFile /\ setDirtyFileInfo' = setDirtyFileInfo
        /\ tip' = tip /\ best' = best /\ nTipMax' = nTipMax
    BY Zenon DEF ProcessNewBlockHeaders, chainState, flush, history
  <1>2. /\ dbIndex' = dbIndex /\ dbVinfo' = dbVinfo /\ dbLastBlockFile' = dbLastBlockFile
        /\ dbBest' = dbBest /\ bests' = bests
        /\ blk' = blk /\ blkSync' = blkSync /\ rev' = rev /\ revSync' = revSync
    BY Zenon DEF ProcessNewBlockHeaders, files, database
  <1>3. h \in Blocks /\ new \subseteq Blocks /\ Ancestry[h] \subseteq Blocks
    BY Zenon, FlushAssumption DEF NewHeaders
  <1>4. \A a \in Blocks : /\ a \in new => index[a] = Absent /\ index'[a] = HeaderOnly
                          /\ a \notin new => index'[a] = index[a]
    BY Zenon, <1>1 DEF NewHeaders, Known
  <1>5. \A a \in Ancestry[h] : index[a] # Absent \/ a \in new
    BY Zenon DEF NewHeaders, Known
  <1> HIDE DEF new
  <1>6. Typed'
    <2>1. index' \in Entries
      BY Zenon, <1>1, EntryFacts DEF DiskInv, Typed, Entries
    <2> QED
      BY Zenon, <1>1, <1>2, <1>3, <2>1 DEF DiskInv, Typed
  <1>7. \A a \in Blocks : (HasData(index'[a]) \/ HasUndo(index'[a])) => index'[a] = index[a]
    BY <1>4, EntryFacts, Zenon
  <1>8. UndoHasData(index)' /\ UndoHasData(dbIndex)'
    BY <1>2, <1>7, Zenon DEF DiskInv, UndoHasData
  <1>9. Clean'
    BY Zenon, <1>1, <1>2, <1>4 DEF DiskInv, Clean
  <1>10. PrunedUnused'
    BY <1>1, <1>7, Zenon DEF DiskInv, PrunedUnused
  <1>11. SizesGrow'
    BY <1>1, <1>2, <1>7, Zenon DEF DiskInv, SizesGrow, InUse
  <1>12. BlocksFound'
    <2>1. Finds(index, vinfo, blk)'
      BY <1>1, <1>2, <1>7, Zenon DEF DiskInv, BlocksFound, Finds
    <2>2. Committed'
      BY <1>1, <1>2, <1>7, Zenon DEF DiskInv, BlocksFound, Committed
    <2> QED
      BY <1>2, <2>1, <2>2, Zenon DEF DiskInv, BlocksFound, Finds
  <1>13. ChainKnown'
    <2>1. \A a \in Blocks : index[a] # Absent => index'[a] # Absent
      BY <1>4, EntryFacts, Zenon
    <2>2. \A a \in Ancestry[h] : index'[a] # Absent
      BY <1>3, <1>4, <1>5, EntryFacts, Zenon
    <2>3. KnownBelow(index)'
      <3>1. SUFFICES ASSUME NEW b \in Blocks, index'[b] # Absent, NEW a \in Ancestry[b]
                     PROVE  index'[a] # Absent
        BY Zenon DEF KnownBelow
      <3>2. a \in Blocks
        BY Zenon, FlushAssumption
      <3>3. CASE b \in new
        <4>1. b \in Ancestry[h]
          BY Zenon, <3>3 DEF new, NewHeaders
        <4> QED
          BY Zenon, <2>2, <4>1, <1>3, FlushAssumption
      <3>4. CASE b \notin new
        BY <1>4, <2>1, <3>1, <3>2, <3>4, Zenon DEF DiskInv, ChainKnown, KnownBelow
      <3> QED
        BY Zenon, <3>3, <3>4
    <2> QED
      BY <1>1, <1>2, <2>1, <2>3, Zenon DEF DiskInv, Typed, ChainKnown, KnownBelow, Known
  <1> QED
    BY <1>6, <1>8, <1>9, <1>10, <1>11, <1>12, <1>13, Zenon DEF DiskInv

\* A block is written behind the last one of the file that FindBlockPos gives.
LEMMA AcceptKeepsDisk ==
  ASSUME DiskInv, NEW b \in DOMAIN Parent, AcceptBlock(b)
  PROVE  DiskInv'
  <1> DEFINE last == nLastBlockFile
  <1>0. PICK f \in last..MaxFile :
          /\ pc = "idle" /\ Known(b) /\ ~HasData(index[b]) /\ FindBlockPos(f)
          /\ IF f = last THEN UNCHANGED <<blkSync, rev, revSync>> ELSE LeaveBlockFile(last)
          /\ nLastBlockFile' = f
          /\ vinfo' = [vinfo EXCEPT ![f] = AddBlock(@, b)]
          /\ blk' = [blk EXCEPT ![last] = IF f = last THEN @ ELSE Finalized(@, vinfo[last].nSize),
                                ![f] = WriteAt(@, vinfo[f].nSize + 1, b)]
          /\ index' = [index EXCEPT ![b] =
                 [nTx |-> TRUE, nFile |-> f, nDataPos |-> vinfo[f].nSize + 1, nUndoPos |-> Null]]
          /\ setDirtyBlockIndex' = setDirtyBlockIndex \cup {b}
          /\ setDirtyFileInfo' = setDirtyFileInfo \cup {f}
          /\ CallFlush("NONE")
          /\ UNCHANGED <<chainState, fHavePruned, database, fDoFullFlush, setFilesToPrune,
                         fRequestShutdown, history>>
    BY Zenon DEF AcceptBlock
  <1> DEFINE pos == vinfo[f].nSize + 1
             e == [nTx |-> TRUE, nFile |-> f, nDataPos |-> pos, nUndoPos |-> Null]
  <1>1. /\ pc = "idle" /\ pc' = "enter" /\ setFilesToPrune' = setFilesToPrune
        /\ Known(b) /\ ~HasData(index[b]) /\ HasRoom(f)
        /\ index' = [index EXCEPT ![b] = e]
        /\ nLastBlockFile' = f
        /\ vinfo' = [vinfo EXCEPT ![f] = AddBlock(vinfo[f], b)]
        /\ setDirtyBlockIndex' = setDirtyBlockIndex \cup {b}
        /\ setDirtyFileInfo' = setDirtyFileInfo \cup {f}
        /\ tip' = tip /\ best' = best /\ nTipMax' = nTipMax
    BY Zenon, <1>0 DEF CallFlush, FindBlockPos, chainState, history
  <1>2. /\ dbIndex' = dbIndex /\ dbVinfo' = dbVinfo /\ dbLastBlockFile' = dbLastBlockFile
        /\ dbBest' = dbBest /\ bests' = bests
    BY Zenon, <1>0 DEF database
  <1>3. /\ b \in Blocks /\ vinfo \in Infos /\ dbVinfo \in Infos /\ last \in Files
        /\ blk \in Contents /\ blkSync \in Contents /\ rev \in Contents /\ revSync \in Contents
        /\ index \in Entries /\ dbIndex \in Entries
    BY Zenon DEF DiskInv, Typed, Blocks
  <1>4. /\ f \in Files /\ f >= last /\ last \in Nat /\ f \in Nat
        /\ pos \in Nat /\ pos < MaxBlockfileSize /\ pos # 0 /\ vinfo[f].nSize \in Nat
    <2>1. f \in Nat /\ f >= last /\ f \in Files /\ vinfo[f].nSize + 1 < MaxBlockfileSize
      BY <1>1, <1>3, FlushAssumption DEF Files, HasRoom
    <2>2. vinfo[f].nSize \in Nat
      BY Zenon, <1>3, <2>1 DEF Infos, Info
    <2> QED
      BY <1>3, <2>1, <2>2 DEF Files
  <1>5. /\ AddBlock(vinfo[f], b) \in Info
        /\ AddBlock(vinfo[f], b).nSize = pos
        /\ AddBlock(vinfo[f], b).nUndoSize = vinfo[f].nUndoSize
    <2>1. vinfo[f] \in Info
      BY <1>3, <1>4, Zenon DEF Infos
    <2> QED
      BY <1>3, <2>1, AddBlockFacts, Zenon
  <1>6. e \in Entry /\ e # Absent /\ HasData(e) /\ ~HasUndo(e) /\ e.nFile = f /\ e.nDataPos = pos
    <2>1. pos \in 1..MaxBlockfileSize /\ pos # Null /\ f # Garbage
      BY <1>4, FlushAssumption DEF Null, Garbage
    <2> HIDE DEF pos
    <2> QED
      BY Zenon, <1>4, <2>1 DEF Entry, Absent, HeaderOnly, HasData, HasUndo
  \* the files
  <1>7. /\ blk' \in Contents /\ blkSync' \in Contents /\ rev' \in Contents /\ revSync' \in Contents
        /\ At(blk'[f], pos) = b
        /\ \A g \in Files, i \in Nat : i <= vinfo[g].nSize => At(blk'[g], i) = At(blk[g], i)
        /\ \A g \in Files : g # last => blkSync'[g] = blkSync[g]
        /\ f # last => \A i \in Nat : i <= vinfo[last].nSize => At(blkSync'[last], i) = At(blk[last], i)
        /\ f = last => blkSync' = blkSync
    <2>1. \A g \in Files : vinfo[g].nSize \in Nat /\ vinfo[g].nUndoSize \in Nat
                           /\ blk[g] \in Seq(Blocks \cup {Garbage}) /\ rev[g] \in Seq(Blocks \cup {Garbage})
      BY Zenon, <1>3 DEF Infos, Info, Contents
    <2> DEFINE cut == Finalized(blk[last], vinfo[last].nSize)
               rcut == Finalized(rev[last], vinfo[last].nUndoSize)
    <2>2. cut \in Seq(Blocks \cup {Garbage}) /\ rcut \in Seq(Blocks \cup {Garbage})
          /\ \A i \in Nat : i <= vinfo[last].nSize => At(cut, i) = At(blk[last], i)
      BY <1>3, <2>1, FinalizedFacts, Zenon
    <2>3. /\ WriteAt(blk[f], pos, b) \in Seq(Blocks \cup {Garbage})
          /\ At(WriteAt(blk[f], pos, b), pos) = b
          /\ \A i \in Nat : i # pos => At(WriteAt(blk[f], pos, b), i) = At(blk[f], i)
      <3>1. pos \in Nat \ {0}
        BY <1>4, Zenon
      <3>2. blk[f] \in Seq(Blocks \cup {Garbage}) /\ b \in Blocks
        BY <1>3, <1>4, <2>1, Zenon
      <3> DEFINE c == blk[f]
      <3>3. c \in Seq(Blocks \cup {Garbage})
        BY <3>2, Zenon
      <3> HIDE DEF pos, c
      <3>4. /\ WriteAt(c, pos, b) \in Seq(Blocks \cup {Garbage})
            /\ At(WriteAt(c, pos, b), pos) = b
            /\ \A i \in Nat : i # pos => At(WriteAt(c, pos, b), i) = At(c, i)
        <4>1. WriteAt(c, pos, b) \in Seq(Blocks \cup {Garbage})
          BY <3>1, <3>2, <3>3, WriteAtFacts, Zenon
        <4>2. At(WriteAt(c, pos, b), pos) = b
          BY <3>1, <3>2, <3>3, WriteAtFacts, Zenon
        <4>3. \A i \in Nat : i # pos => At(WriteAt(c, pos, b), i) = At(c, i)
          BY <3>1, <3>2, <3>3, WriteAtElsewhere, Zenon
        <4> QED
          BY <4>1, <4>2, <4>3, Zenon
      <3> QED
        BY <3>4, Zenon DEF c
    <2>4. \A i \in Nat : i <= vinfo[f].nSize => i # pos
      BY <1>4
    <2> HIDE DEF pos
    <2>5. CASE f = last
      <3>1. blk' = [blk EXCEPT ![f] = WriteAt(blk[f], pos, b)]
            /\ blkSync' = blkSync /\ rev' = rev /\ revSync' = revSync
        BY <1>0, <1>3, <1>4, <2>5, Zenon DEF pos, Contents
      <3> QED
        BY <1>3, <1>4, <2>3, <2>4, <2>5, <3>1, Zenon DEF Contents
    <2>6. CASE f # last
      <3>1. blk' = [blk EXCEPT ![last] = cut, ![f] = WriteAt(blk[f], pos, b)]
            /\ blkSync' = [blkSync EXCEPT ![last] = cut]
            /\ rev' = [rev EXCEPT ![last] = rcut] /\ revSync' = [revSync EXCEPT ![last] = rcut]
        BY Zenon, <1>0, <1>3, <1>4, <2>6 DEF LeaveBlockFile, pos, Contents
      <3> HIDE DEF cut, rcut
      <3>2. blk'[f] = WriteAt(blk[f], pos, b) /\ blk'[last] = cut
            /\ \A g \in Files : g # f /\ g # last => blk'[g] = blk[g]
        BY <1>3, <1>4, <2>6, <3>1, Zenon DEF Contents
      <3>3. blkSync'[last] = cut /\ \A g \in Files : g # last => blkSync'[g] = blkSync[g]
        BY <1>3, <3>1, Zenon DEF Contents
      <3>4. blk' \in Contents
        BY <1>3, <2>2, <2>3, <3>1, Zenon DEF Contents
      <3>5. blkSync' \in Contents /\ rev' \in Contents /\ revSync' \in Contents
        BY <1>3, <2>2, <3>1, Zenon DEF Contents
      <3>6. \A g \in Files, i \in Nat : i <= vinfo[g].nSize => At(blk'[g], i) = At(blk[g], i)
        BY <2>2, <2>3, <2>4, <3>2, Zenon
      <3> QED
        BY <2>2, <2>3, <2>6, <3>2, <3>3, <3>4, <3>5, <3>6, Zenon
    <2> QED
      BY Zenon, <2>5, <2>6
  <1> HIDE DEF pos, e
  <1>8. /\ index'[b] = e /\ \A a \in Blocks : a # b => index'[a] = index[a]
        /\ vinfo'[f] = AddBlock(vinfo[f], b) /\ \A g \in Files : g # f => vinfo'[g] = vinfo[g]
    BY <1>1, <1>3, <1>4, Zenon DEF Entries, Infos
  <1>9. \A g \in Files : /\ vinfo[g].nSize \in Nat /\ vinfo[g].nUndoSize \in Nat
                         /\ dbVinfo[g].nSize \in Nat /\ dbVinfo[g].nUndoSize \in Nat
                         /\ vinfo'[g].nSize \in Nat
                         /\ vinfo[g].nSize <= vinfo'[g].nSize /\ vinfo'[g].nUndoSize = vinfo[g].nUndoSize
    <2>1. \A g \in Files : vinfo[g] \in Info /\ dbVinfo[g] \in Info
      BY <1>3, Zenon DEF Infos
    <2>2. /\ vinfo[f].nSize <= vinfo'[f].nSize /\ vinfo'[f].nSize \in Nat
          /\ vinfo'[f].nUndoSize = vinfo[f].nUndoSize
      BY <1>4, <1>5, <1>8 DEF pos
    <2>3. \A g \in Files : vinfo[g].nSize \in Nat /\ vinfo[g].nSize <= vinfo[g].nSize
      BY <2>1 DEF Info
    <2>4. \A g \in Files : /\ vinfo[g].nUndoSize \in Nat /\ dbVinfo[g].nSize \in Nat
                           /\ dbVinfo[g].nUndoSize \in Nat
      BY Zenon, <2>1 DEF Info
    <2> QED
      BY <1>8, <2>2, <2>3, <2>4, Zenon
  <1>10. Typed'
    <2>1. index' \in Entries
      BY <1>1, <1>3, <1>6, Zenon DEF Entries
    <2>2. vinfo' \in Infos /\ \A g \in Files : vinfo'[g].nSize < MaxBlockfileSize
      BY <1>1, <1>3, <1>4, <1>5, <1>8, Zenon DEF Infos, DiskInv, Typed
    <2> QED
      BY Zenon, <1>1, <1>2, <1>3, <1>4, <1>7, <2>1, <2>2 DEF DiskInv, Typed
  <1>11. UndoHasData(index)' /\ UndoHasData(dbIndex)'
    BY <1>2, <1>6, <1>8, Zenon DEF DiskInv, UndoHasData
  <1>12. Clean'
    BY Zenon, <1>1, <1>2, <1>8 DEF DiskInv, Clean
  <1>13. setFilesToPrune = {} /\ PrunedUnused'
    BY <1>1, Zenon DEF DiskInv, PrunedUnused
  <1>14. \A g \in Files : g >= last => dbVinfo[g].nSize <= vinfo[g].nSize
                                        /\ dbVinfo[g].nUndoSize <= vinfo[g].nUndoSize
    BY Zenon DEF DiskInv, SizesGrow, InUse
  <1>15. SizesGrow'
    <2>1. SUFFICES ASSUME NEW g \in Files, InUse(g)'
                   PROVE  /\ dbVinfo[g].nSize <= vinfo'[g].nSize
                          /\ dbVinfo[g].nUndoSize <= vinfo'[g].nUndoSize
      BY <1>2, Zenon DEF SizesGrow
    <2>2. InUse(g)
      <3>1. g >= f => g >= last
        BY <1>4, FlushAssumption DEF Files
      <3>2. CASE g >= f
        BY <3>1, <3>2, Zenon DEF InUse
      <3>3. CASE \E a \in Blocks : HasData(index'[a]) /\ index'[a].nFile = g
        BY <1>4, <1>6, <1>8, <3>3, Zenon DEF InUse
      <3> QED
        BY <1>1, <2>1, <3>2, <3>3, Zenon DEF InUse
    <2>3. dbVinfo[g].nSize <= vinfo[g].nSize /\ dbVinfo[g].nUndoSize <= vinfo[g].nUndoSize
      BY <2>2, Zenon DEF DiskInv, SizesGrow
    <2> QED
      BY <1>9, <2>3
  <1>16. \A a \in Blocks : /\ HasData(index[a]) => index[a].nFile \in Files /\ index[a].nDataPos \in Nat
                           /\ HasData(dbIndex[a]) => dbIndex[a].nFile \in Files /\ dbIndex[a].nDataPos \in Nat
    BY <1>3, EntryFacts DEF Entries
  <1>17. Finds(index, vinfo, blk)'
    <2>1. SUFFICES ASSUME NEW a \in Blocks, HasData(index'[a])
                   PROVE  /\ index'[a].nDataPos <= vinfo'[index'[a].nFile].nSize
                          /\ At(blk'[index'[a].nFile], index'[a].nDataPos) = a
      BY Zenon DEF Finds
    <2>2. CASE a = b
      BY <1>4, <1>5, <1>6, <1>7, <1>8, <2>2
    <2>3. CASE a # b
      <3>1. index'[a] = index[a] /\ HasData(index[a]) /\ index[a].nFile \in Files /\ index[a].nDataPos \in Nat
        BY <1>8, <1>16, <2>1, <2>3, Zenon
      <3>2. index[a].nDataPos <= vinfo[index[a].nFile].nSize /\ At(blk[index[a].nFile], index[a].nDataPos) = a
        BY <3>1, Zenon DEF DiskInv, BlocksFound, Finds
      <3>3. At(blk'[index[a].nFile], index[a].nDataPos) = a
        BY <1>7, <3>1, <3>2, Zenon
      <3> QED
        BY <1>9, <3>1, <3>2, <3>3
    <2> QED
      BY Zenon, <2>2, <2>3
  <1>18. ASSUME NEW a \in Blocks, HasData(dbIndex[a])
         PROVE  /\ dbIndex[a].nDataPos <= dbVinfo[dbIndex[a].nFile].nSize
                /\ At(blk'[dbIndex[a].nFile], dbIndex[a].nDataPos) = a
                /\ At(blkSync'[dbIndex[a].nFile], dbIndex[a].nDataPos) = a
    <2> DEFINE g == dbIndex[a].nFile
               i == dbIndex[a].nDataPos
    <2>1. g \in Files /\ i \in Nat
      BY Zenon, <1>16, <1>18
    <2>2. i <= dbVinfo[g].nSize /\ At(blk[g], i) = a /\ At(blkSync[g], i) = a
      BY Zenon, <1>18 DEF DiskInv, BlocksFound, Finds
    <2> HIDE DEF g, i
    <2>3. g >= last => i <= vinfo[g].nSize
      BY <1>9, <1>14, <2>1, <2>2
    <2>4. At(blk'[g], i) = a
      <3>1. CASE g >= last
        BY <1>7, <2>1, <2>2, <2>3, <3>1, Zenon
      <3>2. CASE ~(g >= last)
        <4>1. g # last /\ g # f
          BY <1>4, <2>1, <3>2, FlushAssumption DEF Files
        <4>2. blk'[g] = blk[g]
          BY Zenon, <1>0, <1>3, <1>4, <2>1, <4>1 DEF Contents
        <4> QED
          BY <2>2, <4>2, Zenon
      <3> QED
        BY Zenon, <3>1, <3>2
    <2>5. At(blkSync'[g], i) = a
      <3>1. last >= last
        BY <1>4
      <3> QED
        BY <1>7, <2>1, <2>2, <2>3, <3>1, Zenon
    <2> QED
      BY Zenon, <2>2, <2>4, <2>5 DEF g, i
  <1>19. Committed'
    <2>1. SUFFICES ASSUME NEW a \in Blocks, HasData(index'[a]), index'[a].nFile # f
                   PROVE  At(blkSync'[index'[a].nFile], index'[a].nDataPos) = a
      BY Zenon, <1>1 DEF Committed
    <2>2. index'[a] = index[a] /\ HasData(index[a]) /\ index[a].nFile \in Files /\ index[a].nDataPos \in Nat
      BY <1>6, <1>8, <1>16, <2>1, Zenon
    <2>3. CASE index[a].nFile = last
      <3>1. index[a].nDataPos <= vinfo[last].nSize /\ At(blk[last], index[a].nDataPos) = a
        BY <2>2, <2>3, Zenon DEF DiskInv, BlocksFound, Finds
      <3> QED
        BY <1>7, <2>1, <2>2, <2>3, <3>1, Zenon
    <2>4. CASE index[a].nFile # last
      BY <1>7, <2>2, <2>4, Zenon DEF DiskInv, BlocksFound, Committed
    <2> QED
      BY Zenon, <2>3, <2>4
  <1>20. BlocksFound'
    BY <1>2, <1>17, <1>18, <1>19, Zenon DEF BlocksFound, Finds
  <1>21. ChainKnown'
    <2>1. \A a \in Blocks : index'[a] # Absent <=> index[a] # Absent
      BY <1>1, <1>6, <1>8, Zenon DEF Known
    <2>2. \A a \in Blocks : Ancestry[a] \subseteq Blocks
      BY Zenon, FlushAssumption
    <2> QED
      BY Zenon, <1>1, <1>2, <2>1, <2>2 DEF DiskInv, Typed, ChainKnown, KnownBelow, Known
  <1> QED
    BY <1>10, <1>11, <1>12, <1>13, <1>15, <1>20, <1>21, Zenon DEF DiskInv

\* Connecting a block writes undo data, and nothing in the block files.
LEMMA ConnectKeepsDisk ==
  ASSUME DiskInv, NEW b \in DOMAIN Parent, ConnectTip(b)
  PROVE  DiskInv'
  <1>1. /\ pc = "idle" /\ pc' = "enter" /\ setFilesToPrune' = setFilesToPrune
        /\ HasData(index[b]) /\ best' = b /\ tip' = tip
        /\ nLastBlockFile' = nLastBlockFile
        /\ blk' = blk /\ blkSync' = blkSync /\ revSync' = revSync
    BY Zenon DEF ConnectTip, CallFlush
  <1>2. /\ dbIndex' = dbIndex /\ dbVinfo' = dbVinfo /\ dbLastBlockFile' = dbLastBlockFile
        /\ dbBest' = dbBest /\ bests' = bests
    BY Zenon DEF ConnectTip, database
  <1>3. b \in Blocks /\ index[b] # Absent /\ index[b] \in Entry /\ index[b].nFile \in Files
    BY Zenon, <1>1, EntryFacts DEF DiskInv, Typed, Entries, Blocks
  <1>4. nTipMax' \in Nat
    <2>1. nTipMax' = Max({nTipMax, Height[b]}) /\ nTipMax \in Nat /\ Height[b] \in Nat
      BY Zenon, <1>3, FlushAssumption DEF ConnectTip, DiskInv, Typed
    <2> QED
      BY <2>1, OfTwo
  <1>5. CASE HasUndo(index[b])
    <2>1. /\ vinfo' = vinfo /\ rev' = rev /\ index' = index
          /\ setDirtyBlockIndex' = setDirtyBlockIndex /\ setDirtyFileInfo' = setDirtyFileInfo
      BY Zenon, <1>5 DEF ConnectTip
    <2>2. setFilesToPrune = {} /\ tip \in Blocks /\ Known(tip) /\ dbBest \in bests /\ bests \subseteq Blocks
          /\ \A x \in bests : dbIndex[x] # Absent
      BY Zenon, <1>1 DEF DiskInv, PrunedUnused, Typed, ChainKnown
    <2> QED
      BY Zenon, <1>1, <1>2, <1>3, <1>4, <2>1, <2>2, QuietKeepsDisk DEF Known
  <1>6. CASE ~HasUndo(index[b])
    <2> DEFINE f == index[b].nFile
               pos == vinfo[f].nUndoSize + 1
    <2>1. /\ vinfo' = [vinfo EXCEPT ![f].nUndoSize = pos]
          /\ rev' = [rev EXCEPT ![f] = WriteAt(rev[f], pos, b)]
          /\ index' = [index EXCEPT ![b].nUndoPos = pos]
          /\ setDirtyBlockIndex' = setDirtyBlockIndex \cup {b}
          /\ setDirtyFileInfo' = setDirtyFileInfo \cup {f}
      BY Zenon, <1>6 DEF ConnectTip
    <2>2. /\ vinfo \in Infos /\ index \in Entries /\ rev \in Contents
          /\ vinfo[f] \in Info /\ rev[f] \in Seq(Blocks \cup {Garbage})
      BY Zenon, <1>3 DEF DiskInv, Typed, Infos, Contents
    <2>3. pos \in Nat \ {0} /\ vinfo[f].nUndoSize \in Nat /\ vinfo[f].nUndoSize <= pos
      BY <2>2 DEF Info
    <2> HIDE DEF f, pos
    <2> DEFINE info == [vinfo[f] EXCEPT !.nUndoSize = pos]
               e == [index[b] EXCEPT !.nUndoPos = pos]
    <2>4. /\ info \in Info /\ info.nUndoSize = pos /\ info.nSize = vinfo[f].nSize
      BY Zenon, <2>2, <2>3 DEF Info
    <2>5. /\ e \in Entry /\ e.nFile = f /\ e.nDataPos = index[b].nDataPos
      BY Zenon, <1>3, <2>3 DEF Entry, f
    <2>6. e # Absent /\ HasData(e)
      BY Zenon, <1>1, <2>5, EntryFacts DEF HasData
    <2>7. /\ vinfo' = [vinfo EXCEPT ![f] = info] /\ index' = [index EXCEPT ![b] = e]
      BY Zenon, <2>1
    <2> HIDE DEF info, e
    <2>8. /\ vinfo'[f] = info /\ \A g \in Files : g # f => vinfo'[g] = vinfo[g]
          /\ index'[b] = e /\ \A a \in Blocks : a # b => index'[a] = index[a]
      BY <1>3, <2>2, <2>7, Zenon DEF Infos, Entries, f
    <2>9. /\ vinfo' \in Infos /\ index' \in Entries /\ rev' \in Contents
      <3>1. WriteAt(rev[f], pos, b) \in Seq(Blocks \cup {Garbage})
        BY Zenon, <1>3, <2>2, <2>3, WriteAtFacts
      <3> QED
        BY <2>1, <2>2, <2>4, <2>5, <2>7, <3>1, ZenonT(30) DEF Infos, Entries, Contents
    <2>10. /\ \A a \in Blocks : /\ index'[a] # Absent <=> index[a] # Absent
                                /\ HasData(index'[a]) <=> HasData(index[a])
                                /\ index'[a].nFile = index[a].nFile
                                /\ index'[a].nDataPos = index[a].nDataPos
           /\ \A g \in Files : /\ vinfo'[g].nSize = vinfo[g].nSize
                               /\ vinfo[g].nUndoSize <= vinfo'[g].nUndoSize
      <3>1. \A g \in Files : vinfo[g].nUndoSize <= vinfo[g].nUndoSize
        BY <2>2 DEF Infos, Info
      <3> QED
        BY <1>1, <1>3, <2>3, <2>4, <2>5, <2>6, <2>8, <3>1, Zenon DEF f
    <2>11. Typed'
      BY Zenon, <1>1, <1>2, <1>3, <1>4, <2>1, <2>9, <2>10 DEF DiskInv, Typed, f
    <2>12. UndoHasData(index)' /\ UndoHasData(dbIndex)'
      BY <1>2, <2>6, <2>8, Zenon DEF DiskInv, UndoHasData
    <2>13. Clean'
      BY Zenon, <1>1, <1>2, <2>1, <2>8 DEF DiskInv, Clean
    <2>14. PrunedUnused'
      BY Zenon, <1>1, <2>10 DEF DiskInv, PrunedUnused
    <2>15. SizesGrow'
      <3>1. SUFFICES ASSUME NEW g \in Files, InUse(g)'
                     PROVE  /\ dbVinfo[g].nSize <= vinfo'[g].nSize
                            /\ dbVinfo[g].nUndoSize <= vinfo'[g].nUndoSize
        BY <1>2, Zenon DEF SizesGrow
      <3>2. InUse(g)
        BY <1>1, <2>10, <3>1, Zenon DEF InUse
      <3>3. dbVinfo[g].nSize <= vinfo[g].nSize /\ dbVinfo[g].nUndoSize <= vinfo[g].nUndoSize
        BY <3>2, Zenon DEF DiskInv, SizesGrow
      <3>4. vinfo[g].nUndoSize \in Nat /\ vinfo'[g].nUndoSize \in Nat /\ dbVinfo[g].nUndoSize \in Nat
        BY Zenon, <2>9 DEF DiskInv, Typed, Infos, Info
      <3> QED
        BY <2>10, <3>3, <3>4
    <2>16. \A a \in Blocks : HasData(index[a]) => index[a].nFile \in Files
      BY <2>2, EntryFacts, Zenon DEF Entries
    <2>17. BlocksFound'
      <3>1. Finds(index, vinfo, blk)'
        <4>1. SUFFICES ASSUME NEW a \in Blocks, HasData(index'[a])
                       PROVE  /\ index'[a].nDataPos <= vinfo'[index'[a].nFile].nSize
                              /\ At(blk'[index'[a].nFile], index'[a].nDataPos) = a
          BY Zenon DEF Finds
        <4>2. HasData(index[a]) /\ index[a].nFile \in Files /\ index'[a].nFile = index[a].nFile
              /\ index'[a].nDataPos = index[a].nDataPos
          BY <2>10, <2>16, <4>1, Zenon
        <4>3. vinfo'[index[a].nFile].nSize = vinfo[index[a].nFile].nSize
          BY <2>10, <4>2, Zenon
        <4>4. /\ index[a].nDataPos <= vinfo[index[a].nFile].nSize
              /\ At(blk[index[a].nFile], index[a].nDataPos) = a
          BY <4>2, Zenon DEF DiskInv, BlocksFound, Finds
        <4> QED
          BY Zenon, <1>1, <4>2, <4>3, <4>4
      <3>2. Committed'
        <4>1. pc' # "index" /\ pc # "index"
          BY Zenon, <1>1
        <4> QED
          BY <1>1, <2>10, <2>16, <4>1, Zenon DEF DiskInv, BlocksFound, Committed
      <3> QED
        BY <1>1, <1>2, <3>1, <3>2, Zenon DEF DiskInv, BlocksFound, Finds
    <2>18. ChainKnown'
      <3>1. \A a \in Blocks : Ancestry[a] \subseteq Blocks
        BY Zenon, FlushAssumption
      <3>2. KnownBelow(index)'
        BY <2>10, <3>1, Zenon DEF DiskInv, ChainKnown, KnownBelow
      <3> QED
        BY Zenon, <1>1, <1>2, <1>3, <2>10, <3>2 DEF DiskInv, Typed, ChainKnown, KnownBelow, Known
    <2> QED
      BY <2>11, <2>12, <2>13, <2>14, <2>15, <2>17, <2>18, Zenon DEF DiskInv
  <1> QED
    BY Zenon, <1>5, <1>6

\* Pruning takes the entries of files below the last one out of them.
LEMMA PruneFacts ==
  ASSUME DiskInv, NEW fs, fs \subseteq 0..(nLastBlockFile - 1), PruneFiles(fs)
  PROVE  /\ fs \subseteq Files /\ \A f \in fs : f < nLastBlockFile
         /\ index' \in Entries /\ vinfo' \in Infos
         /\ setFilesToPrune' = fs /\ nLastBlockFile' = nLastBlockFile
         /\ setDirtyFileInfo' = setDirtyFileInfo \cup fs
         /\ setDirtyBlockIndex' = setDirtyBlockIndex \cup {b \in Blocks : index[b].nFile \in fs}
         /\ \A b \in Blocks : /\ index'[b] # Absent <=> index[b] # Absent
                              /\ index'[b].nTx = index[b].nTx
                              /\ index[b].nFile \in fs => ~HasData(index'[b]) /\ ~HasUndo(index'[b])
                              /\ index[b].nFile \notin fs => index'[b] = index[b]
         /\ \A f \in Files : /\ f \in fs => vinfo'[f] = NullInfo
                             /\ f \notin fs => vinfo'[f] = vinfo[f]
  <1>1. nLastBlockFile \in Files /\ index \in Entries /\ vinfo \in Infos
    BY Zenon DEF DiskInv, Typed
  <1>2. fs \subseteq Files /\ (\A f \in fs : f < nLastBlockFile) /\ Garbage \notin fs
    BY <1>1, FlushAssumption DEF Files, Garbage
  <1>3. /\ setFilesToPrune' = fs /\ nLastBlockFile' = nLastBlockFile
        /\ setDirtyFileInfo' = setDirtyFileInfo \cup fs
        /\ setDirtyBlockIndex' = setDirtyBlockIndex \cup {b \in Blocks : index[b].nFile \in fs}
        /\ vinfo' = [f \in Files |-> IF f \in fs THEN NullInfo ELSE vinfo[f]]
        /\ index' = [b \in Blocks |->
             IF index[b].nFile \in fs THEN [HeaderOnly EXCEPT !.nTx = index[b].nTx] ELSE index[b]]
    BY Zenon DEF PruneFiles, PruneIndex
  <1>4. NullInfo \in Info
    BY Zenon DEF NullInfo, Info
  <1>5. vinfo' \in Infos
    BY <1>1, <1>3, <1>4, Zenon DEF Infos
  <1>6. ASSUME NEW b \in Blocks, index[b].nFile \in fs
        PROVE  /\ index[b] # Absent /\ index'[b] # Absent /\ index'[b] \in Entry
               /\ index'[b].nTx = index[b].nTx /\ ~HasData(index'[b]) /\ ~HasUndo(index'[b])
    <2>1. index[b] # Absent /\ index[b] \in Entry /\ index[b].nTx \in BOOLEAN
      <3>1. Absent.nFile = Garbage
        BY Zenon DEF Absent, HeaderOnly
      <3> QED
        BY <1>1, <1>2, <1>6, <3>1, EntryFacts, Zenon DEF Entries
    <2>2. index'[b] = [nTx |-> index[b].nTx, nFile |-> 0, nDataPos |-> Null, nUndoPos |-> Null]
      BY Zenon, <1>3, <1>6 DEF HeaderOnly
    <2>3. index'[b] \in Entry
      BY <2>1, <2>2, FlushAssumption DEF Entry, Files
    <2> QED
      BY <2>1, <2>2, <2>3, EntryFacts DEF HasData, HasUndo
  <1>7. \A b \in Blocks : index[b].nFile \notin fs => index'[b] = index[b]
    BY Zenon, <1>3
  <1>8. index' \in Entries
    BY Zenon, <1>1, <1>3, <1>6, <1>7 DEF Entries
  <1> QED
    BY Zenon, <1>2, <1>3, <1>5, <1>6, <1>7, <1>8

\* Pruning removes the entries of files that are no longer written to.
LEMMA PruneKeepsDisk ==
  ASSUME DiskInv, NEW fs, fs \subseteq 0..(nLastBlockFile - 1), PruneFiles(fs),
         blk' = blk, blkSync' = blkSync, rev' = rev, revSync' = revSync,
         dbIndex' = dbIndex, dbVinfo' = dbVinfo, dbLastBlockFile' = dbLastBlockFile,
         dbBest' = dbBest, bests' = bests, best' = best, tip' \in {tip, best}, nTipMax' = nTipMax,
         pc' = "commit" \/ (fs = {} /\ pc' \in {"idle", "stopped"})
  PROVE  DiskInv'
  <1>1. /\ fs \subseteq Files /\ \A f \in fs : f < nLastBlockFile
        /\ index' \in Entries /\ vinfo' \in Infos
        /\ setFilesToPrune' = fs /\ nLastBlockFile' = nLastBlockFile
        /\ setDirtyFileInfo' = setDirtyFileInfo \cup fs
        /\ setDirtyBlockIndex' = setDirtyBlockIndex \cup {b \in Blocks : index[b].nFile \in fs}
    BY PruneFacts, Zenon
  <1>2. \A b \in Blocks : /\ index'[b] # Absent <=> index[b] # Absent
                          /\ index[b].nFile \in fs => ~HasData(index'[b]) /\ ~HasUndo(index'[b])
                          /\ index[b].nFile \notin fs => index'[b] = index[b]
    BY PruneFacts, Zenon
  <1>3. \A f \in Files : /\ f \in fs => vinfo'[f] = NullInfo
                         /\ f \notin fs => vinfo'[f] = vinfo[f]
    BY PruneFacts, Zenon
  <1>4. \A b \in Blocks : HasData(index'[b]) \/ HasUndo(index'[b]) =>
                              index[b].nFile \notin fs /\ index'[b] = index[b]
    BY <1>2, Zenon
  <1>5. \A b \in Blocks : HasData(index[b]) => index[b].nFile \in Files
    BY EntryFacts, Zenon DEF DiskInv, Typed, Entries
  <1>6. Typed'
    <2>1. \A f \in Files : vinfo'[f].nSize < MaxBlockfileSize
      <3>1. NullInfo.nSize = 0 /\ 0 < MaxBlockfileSize
        BY FlushAssumption DEF NullInfo
      <3> QED
        BY <1>3, <3>1, Zenon DEF DiskInv, Typed
    <2>2. tip' \in Blocks /\ pc' \in {"commit", "idle", "stopped"}
      BY Zenon DEF DiskInv, Typed
    <2> QED
      BY Zenon, <1>1, <2>1, <2>2 DEF DiskInv, Typed
  <1>7. UndoHasData(index)' /\ UndoHasData(dbIndex)'
    BY <1>4, Zenon DEF DiskInv, UndoHasData
  <1>8. Clean'
    BY Zenon, <1>1, <1>2, <1>3 DEF DiskInv, Clean
  <1>9. PrunedUnused'
    BY Zenon, <1>1, <1>4 DEF DiskInv, PrunedUnused
  <1>10. SizesGrow'
    <2>1. SUFFICES ASSUME NEW g \in Files, InUse(g)'
                   PROVE  /\ dbVinfo[g].nSize <= vinfo'[g].nSize
                          /\ dbVinfo[g].nUndoSize <= vinfo'[g].nUndoSize
      BY Zenon DEF SizesGrow
    <2>2. InUse(g)
      BY <1>1, <1>4, <2>1, Zenon DEF InUse
    <2>3. g \notin fs
      <3>1. CASE g >= nLastBlockFile
        <4>1. nLastBlockFile \in Int /\ g \in Int
          BY DEF DiskInv, Typed, Files
        <4> QED
          BY <1>1, <3>1, <4>1
      <3>2. CASE ~(g >= nLastBlockFile)
        BY <1>1, <1>4, <2>1, <3>2, Zenon DEF InUse
      <3> QED
        BY Zenon, <3>1, <3>2
    <2> QED
      BY <1>3, <2>2, <2>3, Zenon DEF DiskInv, SizesGrow
  <1>11. BlocksFound'
    <2>1. Finds(index, vinfo, blk)'
      <3>1. SUFFICES ASSUME NEW a \in Blocks, HasData(index'[a])
                     PROVE  /\ index'[a].nDataPos <= vinfo'[index'[a].nFile].nSize
                            /\ At(blk[index'[a].nFile], index'[a].nDataPos) = a
        BY Zenon DEF Finds
      <3>2. index'[a] = index[a] /\ index[a].nFile \notin fs /\ HasData(index[a])
        BY <1>4, <3>1, Zenon
      <3>3. vinfo'[index[a].nFile] = vinfo[index[a].nFile]
        BY <1>3, <1>5, <3>2, Zenon
      <3> QED
        BY <3>2, <3>3, Zenon DEF DiskInv, BlocksFound, Finds
    <2>2. Committed'
      <3>1. pc' # "index"
        OBVIOUS
      <3> QED
        BY <1>1, <1>4, <3>1, Zenon DEF DiskInv, BlocksFound, Committed
    <2> QED
      BY <2>1, <2>2, Zenon DEF DiskInv, BlocksFound, Finds
  <1>12. ChainKnown'
    <2>1. \A a \in Blocks : Ancestry[a] \subseteq Blocks
      BY Zenon, FlushAssumption
    <2>2. KnownBelow(index)'
      BY <1>2, <2>1, Zenon DEF DiskInv, ChainKnown, KnownBelow
    <2>3. \A a \in Blocks : dbIndex[a] # Absent => index'[a] # Absent
      BY <1>2, Zenon DEF DiskInv, ChainKnown
    <2>4. tip' \in Blocks /\ best \in Blocks /\ Known(tip)' /\ Known(best)'
      BY Zenon, <1>2 DEF DiskInv, Typed, ChainKnown, Known
    <2>5. KnownBelow(dbIndex)' /\ (\A x \in bests' : dbIndex'[x] # Absent) /\ pc' # "broken"
      BY Zenon DEF DiskInv, ChainKnown, KnownBelow
    <2> QED
      BY Zenon, <2>2, <2>3, <2>4, <2>5 DEF ChainKnown
  <1> QED
    BY <1>6, <1>7, <1>8, <1>9, <1>10, <1>11, <1>12, Zenon DEF DiskInv

\* FlushStateToDisk decides to prune and to write.
LEMMA EnterKeepsDisk ==
  ASSUME DiskInv, EnterFlush
  PROVE  DiskInv'
  <1> DEFINE fs == FindFilesToPrune
  <1>1. fs \subseteq 0..(nLastBlockFile - 1)
    BY Zenon DEF FindFilesToPrune, Prunable
  <1> HIDE DEF fs
  <1>2. /\ PruneFiles(fs) /\ best' = best
        /\ blk' = blk /\ blkSync' = blkSync /\ rev' = rev /\ revSync' = revSync
        /\ dbIndex' = dbIndex /\ dbVinfo' = dbVinfo /\ dbLastBlockFile' = dbLastBlockFile
        /\ dbBest' = dbBest /\ bests' = bests /\ nTipMax' = nTipMax
    BY Zenon DEF EnterFlush, files, fs
  <1>3. \/ pc' = "commit" /\ tip' = tip
        \/ fs = {} /\ Return
    BY Zenon DEF EnterFlush, fs
  <1>4. tip' \in {tip, best} /\ (pc' = "commit" \/ (fs = {} /\ pc' \in {"idle", "stopped"}))
    BY Zenon, <1>3 DEF Return
  <1> QED
    BY <1>1, <1>2, <1>4, PruneKeepsDisk, Zenon

\* pruneblockchain.
LEMMA ManualKeepsDisk ==
  ASSUME DiskInv, NEW h, PruneBlockFilesManual(h)
  PROVE  DiskInv'
  <1> DEFINE fs == Prunable(Min({h, LastBlockWeCanPrune}))
  <1>1. fs \subseteq 0..(nLastBlockFile - 1)
    BY Zenon DEF Prunable
  <1> HIDE DEF fs
  <1>2. /\ PruneFiles(fs) /\ pc' = "commit"
        /\ blk' = blk /\ blkSync' = blkSync /\ rev' = rev /\ revSync' = revSync
        /\ dbIndex' = dbIndex /\ dbVinfo' = dbVinfo /\ dbLastBlockFile' = dbLastBlockFile
        /\ dbBest' = dbBest /\ bests' = bests
    BY Zenon DEF PruneBlockFilesManual, files, fs
  <1>3. best' = best /\ tip' \in {tip, best} /\ nTipMax' = nTipMax
    BY Zenon DEF PruneBlockFilesManual, chainState, history
  <1> QED
    BY <1>1, <1>2, <1>3, PruneKeepsDisk, Zenon

\* Once the last file is committed, every stored block is.
LEMMA CommitKeepsDisk ==
  ASSUME DiskInv, FlushBlockFile
  PROVE  DiskInv'
  <1>1. /\ pc = "commit" /\ pc' = "index" /\ setFilesToPrune' = setFilesToPrune
        /\ index' = index /\ vinfo' = vinfo /\ nLastBlockFile' = nLastBlockFile
        /\ setDirtyBlockIndex' = setDirtyBlockIndex /\ setDirtyFileInfo' = setDirtyFileInfo
        /\ blk' = blk /\ rev' = rev /\ tip' = tip /\ best' = best /\ nTipMax' = nTipMax
    BY Zenon DEF FlushBlockFile, entries, chainState, history
  <1>2. /\ dbIndex' = dbIndex /\ dbVinfo' = dbVinfo /\ dbLastBlockFile' = dbLastBlockFile
        /\ dbBest' = dbBest /\ bests' = bests
    BY Zenon DEF FlushBlockFile, database
  <1>3. /\ blkSync' = [blkSync EXCEPT ![nLastBlockFile] = blk[nLastBlockFile]]
        /\ revSync' = [revSync EXCEPT ![nLastBlockFile] = rev[nLastBlockFile]]
        /\ blkSync \in Contents /\ blk \in Contents /\ revSync \in Contents /\ rev \in Contents
        /\ nLastBlockFile \in Files
    BY Zenon DEF FlushBlockFile, DiskInv, Typed
  <1>4. /\ blkSync' \in Contents /\ revSync' \in Contents
        /\ \A f \in Files : blkSync'[f] = IF f = nLastBlockFile THEN blk[f] ELSE blkSync[f]
    BY <1>3, Zenon DEF Contents
  <1>5. Typed'
    BY Zenon, <1>1, <1>2, <1>4 DEF DiskInv, Typed
  <1>6. UndoHasData(index)' /\ UndoHasData(dbIndex)' /\ Clean' /\ PrunedUnused' /\ SizesGrow'
    <2>1. UndoHasData(index)' /\ UndoHasData(dbIndex)'
      BY Zenon, <1>1, <1>2 DEF DiskInv, UndoHasData
    <2>2. Clean' /\ PrunedUnused'
      BY Zenon, <1>1, <1>2 DEF DiskInv, Clean, PrunedUnused
    <2>3. SizesGrow'
      BY Zenon, <1>1, <1>2 DEF DiskInv, SizesGrow, InUse
    <2> QED
      BY Zenon, <2>1, <2>2, <2>3
  <1>7. \A b \in Blocks : /\ HasData(index[b]) => index[b].nFile \in Files
                          /\ HasData(dbIndex[b]) => dbIndex[b].nFile \in Files
    BY EntryFacts, Zenon DEF DiskInv, Typed, Entries
  <1>8. Finds(dbIndex, dbVinfo, blkSync)'
    BY <1>2, <1>4, <1>7, Zenon DEF DiskInv, BlocksFound, Finds
  <1>9. Committed'
    <2>1. SUFFICES ASSUME NEW b \in Blocks, HasData(index[b])
                   PROVE  At(blkSync'[index[b].nFile], index[b].nDataPos) = b
      BY <1>1, Zenon DEF Committed
    <2>2. CASE index[b].nFile = nLastBlockFile
      BY <1>3, <1>4, <2>1, <2>2, Zenon DEF DiskInv, BlocksFound, Finds
    <2>3. CASE index[b].nFile # nLastBlockFile
      BY <1>4, <1>7, <2>1, <2>3, Zenon DEF DiskInv, BlocksFound, Committed
    <2> QED
      BY Zenon, <2>2, <2>3
  <1>10. BlocksFound'
    BY <1>1, <1>2, <1>8, <1>9, Zenon DEF DiskInv, BlocksFound, Finds
  <1>11. ChainKnown'
    BY Zenon, <1>1, <1>2 DEF DiskInv, ChainKnown, KnownBelow, Known
  <1> QED
    BY <1>5, <1>6, <1>10, <1>11, Zenon DEF DiskInv

\* The batch brings the database up to the index in memory.
LEMMA WriteKeepsDisk ==
  ASSUME DiskInv, WriteBatchSync
  PROVE  DiskInv'
  <1>1. /\ pc = "index" /\ pc' = "unlink" /\ setFilesToPrune' = setFilesToPrune
        /\ index' = index /\ vinfo' = vinfo /\ nLastBlockFile' = nLastBlockFile
        /\ setDirtyBlockIndex' = {} /\ setDirtyFileInfo' = {}
        /\ blk' = blk /\ rev' = rev /\ blkSync' = blkSync /\ revSync' = revSync
        /\ tip' = tip /\ best' = best /\ nTipMax' = nTipMax
        /\ dbBest' = dbBest /\ bests' = bests /\ dbLastBlockFile' = nLastBlockFile
    BY Zenon DEF WriteBatchSync, chainState, files, history
  <1>2. dbIndex' = index
    <2>1. dbIndex' = [b \in Blocks |-> IF b \in setDirtyBlockIndex THEN index[b] ELSE dbIndex[b]]
      BY Zenon DEF WriteBatchSync
    <2>2. dbIndex' = [b \in Blocks |-> index[b]]
      BY Zenon, <2>1 DEF DiskInv, Clean
    <2> QED
      BY Zenon, <2>2 DEF DiskInv, Typed, Entries
  <1>3. dbVinfo' = vinfo
    <2>1. dbVinfo' = [f \in Files |-> IF f \in setDirtyFileInfo THEN vinfo[f] ELSE dbVinfo[f]]
      BY Zenon DEF WriteBatchSync
    <2>2. dbVinfo' = [f \in Files |-> vinfo[f]]
      BY Zenon, <2>1 DEF DiskInv, Clean
    <2> QED
      BY Zenon, <2>2 DEF DiskInv, Typed, Infos
  <1>4. Typed'
    BY Zenon, <1>1, <1>2, <1>3 DEF DiskInv, Typed
  <1>5. UndoHasData(index)' /\ UndoHasData(dbIndex)'
    BY <1>1, <1>2, Zenon DEF DiskInv, UndoHasData
  <1>6. Clean' /\ PrunedUnused'
    BY Zenon, <1>1, <1>2, <1>3 DEF DiskInv, Clean, PrunedUnused
  <1>7. SizesGrow'
    <2>1. \A f \in Files : vinfo[f].nSize <= vinfo[f].nSize /\ vinfo[f].nUndoSize <= vinfo[f].nUndoSize
      BY DEF DiskInv, Typed, Infos, Info
    <2> QED
      BY <1>1, <1>3, <2>1, Zenon DEF SizesGrow
  <1>8. BlocksFound'
    <2>1. Finds(index, vinfo, blkSync) /\ Finds(index, vinfo, blk)
      BY <1>1, Zenon DEF DiskInv, BlocksFound, Committed, Finds
    <2>2. Committed'
      BY <1>1, Zenon DEF DiskInv, BlocksFound, Committed
    <2> QED
      BY <1>1, <1>2, <1>3, <2>1, <2>2, Zenon DEF BlocksFound
  <1>9. ChainKnown'
    <2>1. \A x \in bests : index[x] # Absent
      BY Zenon DEF DiskInv, Typed, ChainKnown
    <2> QED
      BY Zenon, <1>1, <1>2, <2>1 DEF DiskInv, ChainKnown, KnownBelow, Known
  <1> QED
    BY <1>4, <1>5, <1>6, <1>7, <1>8, <1>9, Zenon DEF DiskInv

\* The files that are removed hold no block of the index, in memory or on disk.
LEMMA UnlinkKeepsDisk ==
  ASSUME DiskInv, UnlinkPrunedFiles
  PROVE  DiskInv'
  <1>1. /\ pc = "unlink" /\ setFilesToPrune' = {}
        /\ index' = index /\ vinfo' = vinfo /\ nLastBlockFile' = nLastBlockFile
        /\ setDirtyBlockIndex' = setDirtyBlockIndex /\ setDirtyFileInfo' = setDirtyFileInfo
        /\ best' = best /\ nTipMax' = nTipMax
        /\ blk' = Without(blk) /\ blkSync' = Without(blkSync)
        /\ rev' = Without(rev) /\ revSync' = Without(revSync)
    BY Zenon DEF UnlinkPrunedFiles, entries, history
  <1>2. /\ dbIndex' = dbIndex /\ dbVinfo' = dbVinfo /\ dbLastBlockFile' = dbLastBlockFile
        /\ dbBest' = dbBest /\ bests' = bests
    BY Zenon DEF UnlinkPrunedFiles, database
  <1>3. tip' \in {tip, best} /\ pc' \in {"coins", "idle", "stopped"}
    BY Zenon DEF UnlinkPrunedFiles, Return
  <1>4. ASSUME NEW c \in Contents
        PROVE  Without(c) \in Contents /\ \A f \in Files \ setFilesToPrune : Without(c)[f] = c[f]
    <2>1. <<>> \in Seq(Blocks \cup {Garbage})
      OBVIOUS
    <2> QED
      BY <2>1, Zenon DEF Without, Contents
  <1>5. /\ blk' \in Contents /\ blkSync' \in Contents /\ rev' \in Contents /\ revSync' \in Contents
        /\ \A f \in Files \ setFilesToPrune : blk'[f] = blk[f] /\ blkSync'[f] = blkSync[f]
    BY <1>1, <1>4, Zenon DEF DiskInv, Typed
  <1>6. dbIndex = index
    <2>1. \A b \in Blocks : dbIndex[b] = index[b]
      BY Zenon, <1>1 DEF DiskInv, Clean
    <2> QED
      BY <2>1 DEF DiskInv, Typed, Entries
  <1>7. \A b \in Blocks : HasData(index[b]) => index[b].nFile \in Files \ setFilesToPrune
    BY EntryFacts, Zenon DEF DiskInv, Typed, Entries, PrunedUnused
  <1>8. Typed'
    BY Zenon, <1>1, <1>2, <1>3, <1>5 DEF DiskInv, Typed
  <1>9. UndoHasData(index)' /\ UndoHasData(dbIndex)'
    BY <1>1, <1>2, Zenon DEF DiskInv, UndoHasData
  <1>10. Clean' /\ PrunedUnused'
    BY Zenon, <1>1, <1>2, <1>3 DEF DiskInv, Clean, PrunedUnused
  <1>11. SizesGrow'
    BY Zenon, <1>1, <1>2 DEF DiskInv, SizesGrow, InUse
  <1>12. BlocksFound'
    <2>1. Finds(index, vinfo, blk)'
      BY <1>1, <1>5, <1>7, Zenon DEF DiskInv, BlocksFound, Finds
    <2>2. Finds(dbIndex, dbVinfo, blk)' /\ Finds(dbIndex, dbVinfo, blkSync)'
      BY <1>2, <1>5, <1>6, <1>7, Zenon DEF DiskInv, BlocksFound, Finds
    <2>3. pc' # "index"
      BY Zenon, <1>3
    <2>4. Committed'
      BY <1>1, <1>5, <1>7, <2>3, Zenon DEF DiskInv, BlocksFound, Committed
    <2> QED
      BY Zenon, <2>1, <2>2, <2>4 DEF BlocksFound
  <1>13. ChainKnown'
    BY Zenon, <1>1, <1>2, <1>3 DEF DiskInv, ChainKnown, KnownBelow, Known
  <1> QED
    BY <1>8, <1>9, <1>10, <1>11, <1>12, <1>13, Zenon DEF DiskInv

\* What is on disk is enough to start from, whatever part of the uncommitted
\* writes is lost and whichever chainstate comes back.
LEMMA LoadKeepsDisk ==
  ASSUME DiskInv, NEW x \in bests, LoadBlockIndexDB(x),
         blkSync' = blkSync, rev' \in Contents, revSync' = revSync, nTipMax' = nTipMax,
         x \in bests', bests' \subseteq bests,
         blk' \in Contents, \A f \in Files : blk'[f] \in {blk[f], blkSync[f]}
  PROVE  DiskInv'
  <1>1. /\ index' = dbIndex /\ vinfo' = dbVinfo /\ nLastBlockFile' = dbLastBlockFile
        /\ setDirtyBlockIndex' = {} /\ setDirtyFileInfo' = {} /\ setFilesToPrune' = {}
        /\ tip' = x /\ best' = x /\ dbBest' = x
        /\ pc' = IF CanLoad(x) THEN "enter" ELSE "broken"
        /\ dbIndex' = dbIndex /\ dbVinfo' = dbVinfo /\ dbLastBlockFile' = dbLastBlockFile
    BY Zenon DEF LoadBlockIndexDB
  <1>2. \A b \in Blocks : HasData(dbIndex[b]) => dbIndex[b].nFile \in Files
    BY EntryFacts, Zenon DEF DiskInv, Typed, Entries
  <1>3. Finds(dbIndex, dbVinfo, blk')
    <2>1. SUFFICES ASSUME NEW b \in Blocks, HasData(dbIndex[b])
                   PROVE  /\ dbIndex[b].nDataPos <= dbVinfo[dbIndex[b].nFile].nSize
                          /\ At(blk'[dbIndex[b].nFile], dbIndex[b].nDataPos) = b
      BY Zenon DEF Finds
    <2>2. blk'[dbIndex[b].nFile] \in {blk[dbIndex[b].nFile], blkSync[dbIndex[b].nFile]}
      BY <1>2, <2>1, Zenon
    <2> QED
      BY <2>1, <2>2, Zenon DEF DiskInv, BlocksFound, Finds
  <1>4. CanLoad(x)
    <2>1. x \in Blocks /\ \A b \in Ancestry[x] : dbIndex[b] # Absent
      BY Zenon DEF DiskInv, Typed, ChainKnown, KnownBelow
    <2>2. \A b \in Blocks : HasData(dbIndex[b]) => blk'[dbIndex[b].nFile] # <<>>
      BY <1>3, FoundInFile, Zenon DEF Finds
    <2> QED
      BY <2>1, <2>2, Zenon DEF CanLoad
  <1>5. pc' = "enter" /\ x \in Blocks
    BY Zenon, <1>1, <1>4 DEF DiskInv, Typed
  <1>6. Typed'
    BY Zenon, <1>1, <1>5 DEF DiskInv, Typed
  <1>7. UndoHasData(index)' /\ UndoHasData(dbIndex)'
    BY <1>1, Zenon DEF DiskInv, UndoHasData
  <1>8. Clean' /\ PrunedUnused'
    BY Zenon, <1>1 DEF Clean, PrunedUnused
  <1>9. SizesGrow'
    <2>1. \A f \in Files : dbVinfo[f].nSize <= dbVinfo[f].nSize /\ dbVinfo[f].nUndoSize <= dbVinfo[f].nUndoSize
      BY DEF DiskInv, Typed, Infos, Info
    <2> QED
      BY <1>1, <2>1, Zenon DEF SizesGrow
  <1>10. BlocksFound'
    <2>1. Finds(dbIndex, dbVinfo, blkSync)
      BY Zenon DEF DiskInv, BlocksFound
    <2>2. Committed'
      BY <1>1, <2>1, Zenon DEF Finds, Committed
    <2> QED
      BY <1>1, <1>3, <2>1, <2>2, Zenon DEF BlocksFound
  <1>11. ChainKnown'
    <2>1. KnownBelow(dbIndex) /\ \A y \in bests : dbIndex[y] # Absent
      BY Zenon DEF DiskInv, ChainKnown
    <2> QED
      BY Zenon, <1>1, <1>5, <2>1 DEF ChainKnown, Known, KnownBelow
  <1> QED
    BY <1>6, <1>7, <1>8, <1>9, <1>10, <1>11, Zenon DEF DiskInv

\* A crash at any point, and LoadBlockIndexDB after it.
LEMMA StartKeepsDisk ==
  ASSUME DiskInv, Restart \/ Crash
  PROVE  DiskInv'
  <1>1. /\ blk \in Contents /\ blkSync \in Contents /\ rev \in Contents /\ revSync \in Contents
        /\ dbBest \in bests
    BY Zenon DEF DiskInv, Typed
  <1>2. CASE Restart
    <2>1. /\ LoadBlockIndexDB(dbBest) /\ bests' = bests /\ nTipMax' = nTipMax
          /\ blk' = blk /\ blkSync' = blkSync /\ rev' = rev /\ revSync' = revSync
      BY Zenon, <1>2 DEF Restart, files, history
    <2> QED
      BY Zenon, <1>1, <2>1, LoadKeepsDisk
  <1>3. CASE Crash
    <2>1. PICK lost \in SUBSET Uncommitted :
            /\ blk' = [f \in Files |-> IF <<"blk", f>> \in lost THEN blkSync[f] ELSE blk[f]]
            /\ rev' = [f \in Files |-> IF <<"rev", f>> \in lost THEN revSync[f] ELSE rev[f]]
      BY <1>3, Zenon DEF Crash
    <2>2. PICK x \in bests : bests' = {x} /\ LoadBlockIndexDB(x)
      BY <1>3, Zenon DEF Crash
    <2>3. blkSync' = blkSync /\ revSync' = revSync /\ nTipMax' = nTipMax
      BY Zenon, <1>3 DEF Crash
    <2>4. blk' \in Contents /\ rev' \in Contents /\ \A f \in Files : blk'[f] \in {blk[f], blkSync[f]}
      BY <1>1, <2>1, Zenon DEF Contents
    <2>5. x \in bests' /\ bests' \subseteq bests
      BY <2>2, Zenon
    <2> QED
      BY <2>2, <2>3, <2>4, <2>5, LoadKeepsDisk, Zenon
  <1> QED
    BY Zenon, <1>2, <1>3

-----------------------------------------------------------------------------
(* The theorems. *)

\* Every step keeps the invariant.
LEMMA StepKeepsDisk ==
  ASSUME DiskInv, [Next]_vars
  PROVE  DiskInv'
  <1>1. ASSUME NEW b \in Tips, ProcessNewBlockHeaders(b) PROVE DiskInv'
    BY <1>1, HeadersKeepDisk, Zenon
  <1>2. ASSUME NEW b \in DOMAIN Parent, AcceptBlock(b) PROVE DiskInv'
    BY <1>2, AcceptKeepsDisk, Zenon
  <1>3. ASSUME NEW b \in DOMAIN Parent, ConnectTip(b) PROVE DiskInv'
    BY <1>3, ConnectKeepsDisk, Zenon
  <1>4. ASSUME NEW h \in {Height[b] : b \in Blocks}, PruneBlockFilesManual(h) PROVE DiskInv'
    BY <1>4, ManualKeepsDisk, Zenon
  <1> QED
    BY <1>1, <1>2, <1>3, <1>4, CallKeepsDisk, EnterKeepsDisk, CommitKeepsDisk, WriteKeepsDisk,
       UnlinkKeepsDisk, FlushCoinsKeepsDisk, StartKeepsDisk, Zenon DEF Next

\* Index, files and chainstates fit together, in memory and on disk, in every state
\* of writing, pruning and starting.
THEOREM DiskInvHolds == Spec => []DiskInv
  <1>1. DiskInv /\ [Next]_vars => DiskInv'
    BY StepKeepsDisk, Zenon
  <1> QED
    BY InitDisk, <1>1, PTL DEF Spec

\* Whichever chainstate a crash brings back, the index on disk knows its block and all
\* ancestors and the files exist: the order in which FlushStateToDisk writes files, index
\* and chainstate is enough for LoadBlockIndexDB, however often the process ends.
THEOREM NodeStartsAgain == Spec => []StartsAgain
  <1>1. DiskInv => StartsAgain
    <2> SUFFICES ASSUME DiskInv PROVE StartsAgain
      OBVIOUS
    <2>1. \A x \in bests : x \in Blocks /\ dbIndex[x] # Absent
      BY Zenon DEF DiskInv, Typed, ChainKnown
    <2> QED
      BY <2>1, Zenon DEF DiskInv, ChainKnown, KnownBelow, StartsAgain
  <1> QED
    BY DiskInvHolds, <1>1, PTL

\* The position in an index entry is that of the block itself, and ReadBlockFromDisk finds
\* it there, after any sequence of writes, prunes, file changes, crashes and lost writes.
THEOREM BlocksAreFound == Spec => []EntryFindsItsBlock
  <1>1. DiskInv => EntryFindsItsBlock
    <2> SUFFICES ASSUME DiskInv PROVE EntryFindsItsBlock
      OBVIOUS
    <2>1. \A b \in Blocks : index[b] \in Entry \cup {Absent} /\ dbIndex[b] \in Entry \cup {Absent}
      BY Zenon DEF DiskInv, Typed, Entries
    <2>2. \A b \in DOMAIN Parent : Known(b) => Known(Parent[b])
      <3>1. SUFFICES ASSUME NEW b \in DOMAIN Parent, Known(b) PROVE Known(Parent[b])
        OBVIOUS
      <3>2. b \in Blocks /\ Parent[b] \in Ancestry[b]
        BY Zenon, FlushAssumption DEF Blocks
      <3> QED
        BY <3>1, <3>2, Zenon DEF DiskInv, ChainKnown, KnownBelow, Known
    <2>3. TypeOK
      BY Zenon, <2>1, <2>2 DEF DiskInv, Typed, TypeOK
    <2> QED
      BY <2>3, Zenon DEF DiskInv, BlocksFound, Finds, EntryFindsItsBlock
  <1> QED
    BY DiskInvHolds, <1>1, PTL
-----------------------------------------------------------------------------
(* Undo data is found where the index says, and pruning never takes a block that *)
(* is close to the highest tip there ever was.                                  *)

\* The entries ix find their undo data in the contents, below the sizes vi.
FindsUndo(ix, vi, contents) ==
    \A b \in Blocks : HasUndo(ix[b]) =>
        /\ ix[b].nUndoPos <= vi[ix[b].nFile].nUndoSize
        /\ At(contents[ix[b].nFile], ix[b].nUndoPos) = b

UndoFound == FindsUndo(index, vinfo, rev) /\ FindsUndo(dbIndex, dbVinfo, rev)

\* Blocks that were received and are close to the highest tip are stored.
Kept(ix) ==
    \A b \in Blocks : ix[b] # Absent /\ ix[b].nTx /\ Height[b] > nTipMax - Keep => HasData(ix[b])

\* No stored block is above the height recorded for its file.
Highest(ix, vi) == \A b \in Blocks : HasData(ix[b]) => Height[b] <= vi[ix[b].nFile].nHeightLast

\* Every tip there is, or that a crash may bring back, counts.
TipsBelow == \A x \in bests \cup {tip, best} : Height[x] <= nTipMax

HistoryInv ==
    /\ Kept(index) /\ Kept(dbIndex)
    /\ Highest(index, vinfo) /\ Highest(dbIndex, dbVinfo)
    /\ TipsBelow

-----------------------------------------------------------------------------
(* What the actions that change entries do, in a state of the invariant. *)

\* AcceptBlock gives the block an entry in a file from the last one on, makes
\* that file higher and cuts off the undo file it leaves.
LEMMA AcceptFacts ==
  ASSUME DiskInv, NEW b \in DOMAIN Parent, AcceptBlock(b)
  PROVE  /\ b \in Blocks /\ dbIndex' = dbIndex /\ dbVinfo' = dbVinfo
         /\ bests' = bests /\ tip' = tip /\ best' = best /\ nTipMax' = nTipMax
         /\ \A a \in Blocks : a # b => index'[a] = index[a]
         /\ HasData(index'[b]) /\ ~HasUndo(index'[b]) /\ index'[b].nFile \in Files
         /\ \A g \in Files : /\ vinfo'[g].nUndoSize = vinfo[g].nUndoSize
                             /\ vinfo[g].nHeightLast <= vinfo'[g].nHeightLast
         /\ Height[b] <= vinfo'[index'[b].nFile].nHeightLast
         /\ \A g \in Files : rev'[g] = rev[g] \/
              (g = nLastBlockFile /\ \A i \in Nat : i <= vinfo[g].nUndoSize => At(rev'[g], i) = At(rev[g], i))
  <1>1. PICK f \in nLastBlockFile..MaxFile :
          /\ IF f = nLastBlockFile THEN UNCHANGED <<blkSync, rev, revSync>>
                                   ELSE LeaveBlockFile(nLastBlockFile)
          /\ vinfo' = [vinfo EXCEPT ![f] = AddBlock(@, b)]
          /\ index' = [index EXCEPT ![b] =
                 [nTx |-> TRUE, nFile |-> f, nDataPos |-> vinfo[f].nSize + 1, nUndoPos |-> Null]]
          /\ UNCHANGED <<chainState, database, history>>
    BY Zenon DEF AcceptBlock
  <1>2. /\ b \in Blocks /\ vinfo \in Infos /\ index \in Entries /\ rev \in Contents
        /\ nLastBlockFile \in Files
    BY Zenon DEF DiskInv, Typed, Blocks
  <1>3. f \in Files
    BY <1>2, FlushAssumption DEF Files
  <1>4. \A g \in Files : vinfo[g] \in Info /\ rev[g] \in Seq(Blocks \cup {Garbage})
    BY <1>2, Zenon DEF Infos, Contents
  <1>5. /\ vinfo[f].nSize \in Nat /\ \A g \in Files : vinfo[g].nHeightLast \in Nat /\ vinfo[g].nUndoSize \in Nat
    BY Zenon, <1>3, <1>4 DEF Info
  <1> DEFINE e == [nTx |-> TRUE, nFile |-> f, nDataPos |-> vinfo[f].nSize + 1, nUndoPos |-> Null]
  <1>6. HasData(e) /\ ~HasUndo(e) /\ e.nFile = f
    BY <1>5 DEF HasData, HasUndo, Null
  <1>7. index'[b] = e /\ \A a \in Blocks : a # b => index'[a] = index[a]
    BY <1>1, <1>2, Zenon DEF Entries
  <1> HIDE DEF e
  <1>8. vinfo'[f] = AddBlock(vinfo[f], b) /\ \A g \in Files : g # f => vinfo'[g] = vinfo[g]
    BY <1>1, <1>2, <1>3, Zenon DEF Infos
  <1>9. /\ AddBlock(vinfo[f], b).nUndoSize = vinfo[f].nUndoSize
        /\ AddBlock(vinfo[f], b).nHeightLast >= vinfo[f].nHeightLast
        /\ AddBlock(vinfo[f], b).nHeightLast >= Height[b]
        /\ AddBlock(vinfo[f], b).nHeightLast \in Nat
    <2>1. AddBlock(vinfo[f], b) \in Info
      BY <1>2, <1>3, <1>4, AddBlockFacts, Zenon
    <2>2. AddBlock(vinfo[f], b).nHeightLast \in Nat
      BY Zenon, <2>1 DEF Info
    <2> QED
      BY <1>2, <1>3, <1>4, <2>2, AddBlockFacts, Zenon
  <1>10. \A g \in Files : /\ vinfo'[g].nUndoSize = vinfo[g].nUndoSize
                          /\ vinfo[g].nHeightLast <= vinfo'[g].nHeightLast
    BY <1>3, <1>5, <1>8, <1>9
  <1>11. Height[b] \in Nat /\ Height[b] <= vinfo'[f].nHeightLast
    BY Zenon, <1>2, <1>8, <1>9, FlushAssumption
  <1>12. \A g \in Files : rev'[g] = rev[g] \/
            (g = nLastBlockFile /\ \A i \in Nat : i <= vinfo[g].nUndoSize => At(rev'[g], i) = At(rev[g], i))
    <2>1. CASE f = nLastBlockFile
      BY Zenon, <1>1, <2>1
    <2>2. CASE f # nLastBlockFile
      <3> DEFINE c == Finalized(rev[nLastBlockFile], vinfo[nLastBlockFile].nUndoSize)
      <3>1. rev' = [rev EXCEPT ![nLastBlockFile] = c]
        BY Zenon, <1>1, <2>2 DEF LeaveBlockFile
      <3>2. \A i \in Nat : i <= vinfo[nLastBlockFile].nUndoSize => At(c, i) = At(rev[nLastBlockFile], i)
        BY <1>2, <1>4, <1>5, FinalizedFacts, Zenon
      <3> HIDE DEF c
      <3>3. rev'[nLastBlockFile] = c /\ \A g \in Files : g # nLastBlockFile => rev'[g] = rev[g]
        BY <1>2, <3>1, Zenon DEF Contents
      <3> QED
        BY <3>2, <3>3, Zenon
    <2> QED
      BY Zenon, <2>1, <2>2
  <1>13. /\ dbIndex' = dbIndex /\ dbVinfo' = dbVinfo /\ bests' = bests
         /\ tip' = tip /\ best' = best /\ nTipMax' = nTipMax
    BY Zenon, <1>1 DEF chainState, database, history
  <1> QED
    BY <1>2, <1>3, <1>6, <1>7, <1>10, <1>11, <1>12, <1>13, Zenon

\* ConnectTip writes behind the undo data of the file the block is in, or
\* nothing when the block was connected before.
LEMMA ConnectFacts ==
  ASSUME DiskInv, NEW b \in DOMAIN Parent, ConnectTip(b)
  PROVE  /\ b \in Blocks /\ dbIndex' = dbIndex /\ dbVinfo' = dbVinfo
         /\ bests' = bests /\ tip' = tip /\ best' = b
         /\ nTipMax' \in Nat /\ nTipMax <= nTipMax' /\ Height[b] <= nTipMax'
         /\ HasData(index[b]) /\ index[b].nFile \in Files
         /\ \A a \in Blocks : a # b => index'[a] = index[a]
         /\ index'[b].nFile = index[b].nFile /\ index'[b].nTx = index[b].nTx
         /\ HasData(index'[b]) /\ HasUndo(index'[b])
         /\ \A g \in Files : vinfo'[g].nHeightLast = vinfo[g].nHeightLast
         /\ \A g \in Files : vinfo[g].nUndoSize <= vinfo'[g].nUndoSize
         /\ \/ index' = index /\ vinfo' = vinfo /\ rev' = rev
            \/ /\ index'[b].nUndoPos <= vinfo'[index[b].nFile].nUndoSize
               /\ At(rev'[index[b].nFile], index'[b].nUndoPos) = b
               /\ \A g \in Files : g # index[b].nFile => rev'[g] = rev[g]
               /\ \A i \in Nat : i <= vinfo[index[b].nFile].nUndoSize =>
                    At(rev'[index[b].nFile], i) = At(rev[index[b].nFile], i)
  <1>1. /\ HasData(index[b]) /\ best' = b /\ tip' = tip
        /\ dbIndex' = dbIndex /\ dbVinfo' = dbVinfo /\ bests' = bests
        /\ nTipMax' = Max({nTipMax, Height[b]})
    BY Zenon DEF ConnectTip, database
  <1>2. /\ b \in Blocks /\ vinfo \in Infos /\ index \in Entries /\ rev \in Contents
        /\ nTipMax \in Nat
    BY Zenon DEF DiskInv, Typed, Blocks
  <1>3. index[b] \in Entry /\ index[b].nFile \in Files
    BY Zenon, <1>1, <1>2, EntryFacts DEF Entries
  <1>4. nTipMax' \in Nat /\ nTipMax <= nTipMax' /\ Height[b] <= nTipMax'
    <2>1. Height[b] \in Nat
      BY Zenon, <1>2, FlushAssumption
    <2> QED
      BY <1>1, <1>2, <2>1, OfTwo
  <1>5. \A g \in Files : vinfo[g] \in Info /\ rev[g] \in Seq(Blocks \cup {Garbage})
    BY <1>2, Zenon DEF Infos, Contents
  <1>6. \A g \in Files : vinfo[g].nUndoSize \in Nat /\ vinfo[g].nUndoSize <= vinfo[g].nUndoSize
    BY <1>5 DEF Info
  <1>7. CASE HasUndo(index[b])
    <2>1. vinfo' = vinfo /\ rev' = rev /\ index' = index
      BY Zenon, <1>7 DEF ConnectTip
    <2> QED
      BY <1>1, <1>2, <1>3, <1>4, <1>6, <1>7, <2>1, Zenon
  <1>8. CASE ~HasUndo(index[b])
    <2> DEFINE f == index[b].nFile
               pos == vinfo[f].nUndoSize + 1
               c == rev[f]
    <2>1. /\ vinfo' = [vinfo EXCEPT ![f].nUndoSize = pos]
          /\ rev' = [rev EXCEPT ![f] = WriteAt(c, pos, b)]
          /\ index' = [index EXCEPT ![b].nUndoPos = pos]
      BY Zenon, <1>8 DEF ConnectTip
    <2>2. pos \in Nat \ {0} /\ pos <= pos /\ vinfo[f].nUndoSize <= pos
          /\ \A i \in Nat : i <= vinfo[f].nUndoSize => i # pos
      BY <1>3, <1>6
    <2>3. c \in Seq(Blocks \cup {Garbage})
      BY Zenon, <1>3, <1>5
    <2> HIDE DEF pos, c
    <2>4. At(WriteAt(c, pos, b), pos) = b
      BY <1>2, <2>2, <2>3, WriteAtFacts, Zenon
    <2>5. \A i \in Nat : i # pos => At(WriteAt(c, pos, b), i) = At(c, i)
      BY <1>2, <2>2, <2>3, WriteAtElsewhere, Zenon
    <2>6. rev'[f] = WriteAt(c, pos, b) /\ \A g \in Files : g # f => rev'[g] = rev[g]
      BY <1>2, <1>3, <2>1, Zenon DEF Contents
    <2>7. \A i \in Nat : i <= vinfo[f].nUndoSize => At(rev'[f], i) = At(rev[f], i)
      BY <2>2, <2>5, <2>6, Zenon DEF c
    <2> DEFINE info == [vinfo[f] EXCEPT !.nUndoSize = pos]
               e == [index[b] EXCEPT !.nUndoPos = pos]
    <2>8. info.nUndoSize = pos /\ info.nHeightLast = vinfo[f].nHeightLast
      BY Zenon, <1>3, <1>5 DEF Info
    <2>9. /\ e.nFile = f /\ e.nDataPos = index[b].nDataPos /\ e.nUndoPos = pos /\ e.nTx = index[b].nTx
      BY Zenon, <1>3 DEF Entry
    <2>10. pos # Null
      BY <2>2 DEF Null
    <2>11. HasData(e) /\ HasUndo(e)
      BY <1>1, <2>9, <2>10, Zenon DEF HasData, HasUndo
    <2>12. vinfo' = [vinfo EXCEPT ![f] = info] /\ index' = [index EXCEPT ![b] = e]
      BY Zenon, <2>1
    <2> HIDE DEF info, e
    <2>13. /\ vinfo'[f] = info /\ \A g \in Files : g # f => vinfo'[g] = vinfo[g]
           /\ index'[b] = e /\ \A a \in Blocks : a # b => index'[a] = index[a]
      BY <1>2, <1>3, <2>12, Zenon DEF Infos, Entries
    <2>14. \A g \in Files : /\ vinfo'[g].nHeightLast = vinfo[g].nHeightLast
                            /\ vinfo[g].nUndoSize <= vinfo'[g].nUndoSize
      BY <1>3, <1>6, <2>2, <2>8, <2>13, Zenon
    <2>15. index'[b].nUndoPos <= vinfo'[f].nUndoSize /\ At(rev'[f], index'[b].nUndoPos) = b
      BY <2>2, <2>4, <2>6, <2>8, <2>9, <2>13, Zenon
    <2> QED
      BY <1>1, <1>2, <1>3, <1>4, <2>6, <2>7, <2>9, <2>11, <2>13, <2>14, <2>15, Zenon
  <1> QED
    BY Zenon, <1>7, <1>8

-----------------------------------------------------------------------------
(* Undo data. *)

\* The files of undo data are those of the blocks.
LEMMA UndoFiles ==
  ASSUME DiskInv
  PROVE  \A b \in Blocks : /\ HasUndo(index[b]) => /\ HasData(index[b]) /\ index[b].nFile \in Files
                                                   /\ index[b].nUndoPos \in Nat
                           /\ HasUndo(dbIndex[b]) => /\ HasData(dbIndex[b]) /\ dbIndex[b].nFile \in Files
                                                     /\ dbIndex[b].nUndoPos \in Nat
  BY Zenon, EntryFacts DEF DiskInv, Typed, Entries, UndoHasData

\* AcceptBlock cuts undo files no shorter than their recorded size.
LEMMA AcceptKeepsUndo ==
  ASSUME DiskInv, UndoFound, NEW b \in DOMAIN Parent, AcceptBlock(b)
  PROVE  UndoFound'
  <1>1. /\ dbIndex' = dbIndex /\ dbVinfo' = dbVinfo
        /\ \A a \in Blocks : a # b => index'[a] = index[a]
        /\ ~HasUndo(index'[b])
        /\ \A g \in Files : vinfo'[g].nUndoSize = vinfo[g].nUndoSize
        /\ \A g \in Files : rev'[g] = rev[g] \/
             (g = nLastBlockFile /\ \A i \in Nat : i <= vinfo[g].nUndoSize => At(rev'[g], i) = At(rev[g], i))
    BY AcceptFacts, Zenon
  <1>2. FindsUndo(index, vinfo, rev)'
    <2>1. SUFFICES ASSUME NEW a \in Blocks, HasUndo(index'[a])
                   PROVE  /\ index'[a].nUndoPos <= vinfo'[index'[a].nFile].nUndoSize
                          /\ At(rev'[index'[a].nFile], index'[a].nUndoPos) = a
      BY Zenon DEF FindsUndo
    <2>2. index'[a] = index[a] /\ index[a].nFile \in Files /\ index[a].nUndoPos \in Nat
      BY <1>1, <2>1, UndoFiles, Zenon
    <2>3. /\ index[a].nUndoPos <= vinfo[index[a].nFile].nUndoSize
          /\ At(rev[index[a].nFile], index[a].nUndoPos) = a
      BY <2>1, <2>2, Zenon DEF UndoFound, FindsUndo
    <2> QED
      BY <1>1, <2>2, <2>3, Zenon
  <1>3. FindsUndo(dbIndex, dbVinfo, rev)'
    <2>1. SUFFICES ASSUME NEW a \in Blocks, HasUndo(dbIndex[a])
                   PROVE  /\ dbIndex[a].nUndoPos <= dbVinfo[dbIndex[a].nFile].nUndoSize
                          /\ At(rev'[dbIndex[a].nFile], dbIndex[a].nUndoPos) = a
      BY <1>1, Zenon DEF FindsUndo
    <2> DEFINE g == dbIndex[a].nFile
               i == dbIndex[a].nUndoPos
    <2>2. g \in Files /\ i \in Nat
      BY <2>1, UndoFiles, Zenon
    <2>3. i <= dbVinfo[g].nUndoSize /\ At(rev[g], i) = a
      BY <2>1, Zenon DEF UndoFound, FindsUndo
    <2> HIDE DEF g, i
    <2>4. CASE g = nLastBlockFile
      <3>1. g >= nLastBlockFile
        BY <2>2, <2>4 DEF Files
      <3>2. dbVinfo[g].nUndoSize <= vinfo[g].nUndoSize
        BY <2>2, <3>1, Zenon DEF DiskInv, SizesGrow, InUse
      <3>3. dbVinfo[g].nUndoSize \in Nat /\ vinfo[g].nUndoSize \in Nat
        BY Zenon, <2>2 DEF DiskInv, Typed, Infos, Info
      <3>4. i <= vinfo[g].nUndoSize
        BY <2>2, <2>3, <3>2, <3>3
      <3> QED
        BY <1>1, <2>2, <2>3, <3>4, Zenon DEF g, i
    <2>5. CASE g # nLastBlockFile
      BY <1>1, <2>2, <2>3, <2>5, Zenon DEF g, i
    <2> QED
      BY Zenon, <2>4, <2>5
  <1> QED
    BY Zenon, <1>2, <1>3 DEF UndoFound

\* ConnectTip writes undo data after what is in the file.
LEMMA ConnectKeepsUndo ==
  ASSUME DiskInv, UndoFound, NEW b \in DOMAIN Parent, ConnectTip(b)
  PROVE  UndoFound'
  <1> DEFINE f == index[b].nFile
  <1>1. /\ b \in Blocks /\ dbIndex' = dbIndex /\ dbVinfo' = dbVinfo
        /\ HasData(index[b]) /\ f \in Files
        /\ \A a \in Blocks : a # b => index'[a] = index[a]
        /\ index'[b].nFile = f
        /\ \A g \in Files : vinfo[g].nUndoSize <= vinfo'[g].nUndoSize
    BY ConnectFacts, Zenon
  <1>2. CASE index' = index /\ vinfo' = vinfo /\ rev' = rev
    BY <1>1, <1>2, Zenon DEF UndoFound, FindsUndo
  <1>3. CASE ~(index' = index /\ vinfo' = vinfo /\ rev' = rev)
    <2>1. /\ index'[b].nUndoPos <= vinfo'[f].nUndoSize
          /\ At(rev'[f], index'[b].nUndoPos) = b
          /\ \A g \in Files : g # f => rev'[g] = rev[g]
          /\ \A i \in Nat : i <= vinfo[f].nUndoSize => At(rev'[f], i) = At(rev[f], i)
      BY <1>3, ConnectFacts, Zenon
    <2>2. \A g \in Files : vinfo[g].nUndoSize \in Nat /\ vinfo'[g].nUndoSize \in Nat /\ dbVinfo[g].nUndoSize \in Nat
      BY Zenon, ConnectKeepsDisk DEF DiskInv, Typed, Infos, Info
    <2> HIDE DEF f
    <2>3. FindsUndo(index, vinfo, rev)'
      <3>1. SUFFICES ASSUME NEW a \in Blocks, HasUndo(index'[a])
                     PROVE  /\ index'[a].nUndoPos <= vinfo'[index'[a].nFile].nUndoSize
                            /\ At(rev'[index'[a].nFile], index'[a].nUndoPos) = a
        BY Zenon DEF FindsUndo
      <3>2. CASE a = b
        BY <1>1, <2>1, <3>2, Zenon
      <3>3. CASE a # b
        <4>1. index'[a] = index[a] /\ HasUndo(index[a])
              /\ index[a].nFile \in Files /\ index[a].nUndoPos \in Nat
          BY <1>1, <3>1, <3>3, UndoFiles, Zenon
        <4>2. /\ index[a].nUndoPos <= vinfo[index[a].nFile].nUndoSize
              /\ At(rev[index[a].nFile], index[a].nUndoPos) = a
          BY <4>1, Zenon DEF UndoFound, FindsUndo
        <4>3. At(rev'[index[a].nFile], index[a].nUndoPos) = a
          BY <2>1, <4>1, <4>2, Zenon
        <4>4. index[a].nUndoPos <= vinfo'[index[a].nFile].nUndoSize
          BY <1>1, <2>2, <4>1, <4>2
        <4> QED
          BY <4>1, <4>3, <4>4, Zenon
      <3> QED
        BY Zenon, <3>2, <3>3
    <2>4. FindsUndo(dbIndex, dbVinfo, rev)'
      <3>1. SUFFICES ASSUME NEW a \in Blocks, HasUndo(dbIndex[a])
                     PROVE  /\ dbIndex[a].nUndoPos <= dbVinfo[dbIndex[a].nFile].nUndoSize
                            /\ At(rev'[dbIndex[a].nFile], dbIndex[a].nUndoPos) = a
        BY <1>1, Zenon DEF FindsUndo
      <3> DEFINE g == dbIndex[a].nFile
                 i == dbIndex[a].nUndoPos
      <3>2. g \in Files /\ i \in Nat
        BY <3>1, UndoFiles, Zenon
      <3>3. i <= dbVinfo[g].nUndoSize /\ At(rev[g], i) = a
        BY <3>1, Zenon DEF UndoFound, FindsUndo
      <3> HIDE DEF g, i
      <3>4. CASE g = f
        <4>1. dbVinfo[f].nUndoSize <= vinfo[f].nUndoSize
          BY <1>1, Zenon DEF DiskInv, SizesGrow, InUse, f
        <4>2. i <= vinfo[f].nUndoSize
          BY <1>1, <2>2, <3>2, <3>3, <3>4, <4>1
        <4> QED
          BY <2>1, <3>2, <3>3, <3>4, <4>2, Zenon DEF g, i
      <3>5. CASE g # f
        BY <2>1, <3>2, <3>3, <3>5, Zenon DEF g, i
      <3> QED
        BY Zenon, <3>4, <3>5
    <2> QED
      BY Zenon, <2>3, <2>4 DEF UndoFound
  <1> QED
    BY Zenon, <1>2, <1>3

\* The actions that change no undo data.
LEMMA QuietKeepsUndo ==
  ASSUME DiskInv, UndoFound,
         \/ \E h \in Tips : ProcessNewBlockHeaders(h)
         \/ DisconnectTip \/ PeriodicFlush \/ Shutdown \/ OutOfSpace \/ FlushBlockFile
         \/ FlushCoins \/ UNCHANGED vars
  PROVE  UndoFound'
  <1>1. vinfo' = vinfo /\ dbIndex' = dbIndex /\ dbVinfo' = dbVinfo /\ rev' = rev
    BY Zenon DEF ProcessNewBlockHeaders, DisconnectTip, PeriodicFlush, Shutdown, OutOfSpace, FlushBlockFile,
           FlushCoins, vars, entries, files, database
  <1>2. \A a \in Blocks : HasUndo(index'[a]) => index'[a] = index[a]
    <2>1. CASE \E h \in Tips : ProcessNewBlockHeaders(h)
      <3>1. PICK h \in Tips : index' = [a \in Blocks |-> IF a \in NewHeaders(h) THEN HeaderOnly ELSE index[a]]
        BY Zenon, <2>1 DEF ProcessNewBlockHeaders
      <3> QED
        BY <3>1, EntryFacts, Zenon
    <2>2. CASE ~(\E h \in Tips : ProcessNewBlockHeaders(h))
      BY Zenon, <2>2 DEF DisconnectTip, PeriodicFlush, Shutdown, OutOfSpace, FlushBlockFile,
                  FlushCoins, vars, entries
    <2> QED
      BY Zenon, <2>1, <2>2
  <1> QED
    BY <1>1, <1>2, Zenon DEF UndoFound, FindsUndo

\* Pruning takes the entries of a file with it.
LEMMA PruneKeepsUndo ==
  ASSUME DiskInv, UndoFound, EnterFlush \/ \E h : PruneBlockFilesManual(h)
  PROVE  UndoFound'
  <1>1. PICK fs : PruneFiles(fs) /\ fs \subseteq 0..(nLastBlockFile - 1)
    <2>1. CASE EnterFlush
      BY Zenon, <2>1 DEF EnterFlush, FindFilesToPrune, Prunable
    <2>2. CASE \E h : PruneBlockFilesManual(h)
      BY Zenon, <2>2 DEF PruneBlockFilesManual, Prunable
    <2> QED
      BY Zenon, <2>1, <2>2
  <1>2. dbIndex' = dbIndex /\ dbVinfo' = dbVinfo /\ rev' = rev
    BY Zenon DEF EnterFlush, PruneBlockFilesManual, files
  <1>3. \A b \in Blocks : HasUndo(index'[b]) => index'[b] = index[b] /\ index[b].nFile \notin fs
    BY <1>1, PruneFacts, Zenon
  <1>4. \A f \in Files : f \notin fs => vinfo'[f] = vinfo[f]
    BY <1>1, PruneFacts, Zenon
  <1>5. FindsUndo(index, vinfo, rev)'
    <2>1. SUFFICES ASSUME NEW a \in Blocks, HasUndo(index'[a])
                   PROVE  /\ index'[a].nUndoPos <= vinfo'[index'[a].nFile].nUndoSize
                          /\ At(rev'[index'[a].nFile], index'[a].nUndoPos) = a
      BY Zenon DEF FindsUndo
    <2>2. index'[a] = index[a] /\ vinfo'[index[a].nFile] = vinfo[index[a].nFile]
      BY <1>3, <1>4, <2>1, UndoFiles, Zenon
    <2> QED
      BY <1>2, <2>1, <2>2, Zenon DEF UndoFound, FindsUndo
  <1> QED
    BY <1>2, <1>5, Zenon DEF UndoFound, FindsUndo

\* The write of the index makes the copy on disk that in memory.
LEMMA WriteKeepsUndo ==
  ASSUME DiskInv, UndoFound, WriteBatchSync
  PROVE  UndoFound'
  <1>1. /\ index' = index /\ vinfo' = vinfo /\ rev' = rev
        /\ dbIndex' = [b \in Blocks |-> IF b \in setDirtyBlockIndex THEN index[b] ELSE dbIndex[b]]
        /\ dbVinfo' = [f \in Files |-> IF f \in setDirtyFileInfo THEN vinfo[f] ELSE dbVinfo[f]]
    BY Zenon DEF WriteBatchSync, files
  <1>2. (\A b \in Blocks : dbIndex'[b] = index[b]) /\ \A f \in Files : dbVinfo'[f] = vinfo[f]
    BY Zenon, <1>1 DEF DiskInv, Clean
  <1>3. FindsUndo(dbIndex, dbVinfo, rev)'
    <2>1. SUFFICES ASSUME NEW a \in Blocks, HasUndo(index[a])
                   PROVE  /\ index[a].nUndoPos <= dbVinfo'[index[a].nFile].nUndoSize
                          /\ At(rev[index[a].nFile], index[a].nUndoPos) = a
      BY <1>1, <1>2, Zenon DEF FindsUndo
    <2>2. dbVinfo'[index[a].nFile] = vinfo[index[a].nFile]
      BY <1>2, <2>1, UndoFiles, Zenon
    <2> QED
      BY <2>1, <2>2, Zenon DEF UndoFound, FindsUndo
  <1> QED
    BY <1>1, <1>3, Zenon DEF UndoFound, FindsUndo

\* The files removed hold the undo data of no entry.
LEMMA UnlinkKeepsUndo ==
  ASSUME DiskInv, UndoFound, UnlinkPrunedFiles
  PROVE  UndoFound'
  <1>1. /\ index' = index /\ vinfo' = vinfo /\ rev' = Without(rev) /\ pc = "unlink"
        /\ dbIndex' = dbIndex /\ dbVinfo' = dbVinfo
    BY Zenon DEF UnlinkPrunedFiles, entries, database
  <1>2. \A f \in Files \ setFilesToPrune : rev'[f] = rev[f]
    BY Zenon, <1>1 DEF Without
  <1>3. \A b \in Blocks : dbIndex[b] = index[b]
    BY Zenon, <1>1 DEF DiskInv, Clean
  <1>4. \A b \in Blocks : HasUndo(index[b]) => index[b].nFile \in Files \ setFilesToPrune
    BY UndoFiles, Zenon DEF DiskInv, PrunedUnused
  <1>5. FindsUndo(index, vinfo, rev)'
    BY <1>1, <1>2, <1>4, Zenon DEF UndoFound, FindsUndo
  <1>6. FindsUndo(dbIndex, dbVinfo, rev)'
    BY <1>1, <1>2, <1>3, <1>4, Zenon DEF UndoFound, FindsUndo
  <1> QED
    BY Zenon, <1>5, <1>6 DEF UndoFound

\* A crash that keeps undo files, and the start after it.
LEMMA StartKeepsUndo ==
  ASSUME "rev" \notin LostKinds, DiskInv, UndoFound, Restart \/ Crash
  PROVE  UndoFound'
  <1>1. rev' = rev
    <2>1. CASE Restart
      BY Zenon, <2>1 DEF Restart, files
    <2>2. CASE Crash
      <3>1. PICK lost \in SUBSET Uncommitted :
              rev' = [f \in Files |-> IF <<"rev", f>> \in lost THEN revSync[f] ELSE rev[f]]
        BY <2>2, Zenon DEF Crash
      <3>2. \A f \in Files : <<"rev", f>> \notin lost
        BY Zenon, <3>1 DEF Uncommitted
      <3> QED
        BY Zenon, <3>1, <3>2 DEF DiskInv, Typed, Contents
    <2> QED
      BY Zenon, <2>1, <2>2
  <1>2. index' = dbIndex /\ vinfo' = dbVinfo /\ dbIndex' = dbIndex /\ dbVinfo' = dbVinfo
    BY Zenon DEF Restart, Crash, LoadBlockIndexDB
  <1> QED
    BY <1>1, <1>2, Zenon DEF UndoFound, FindsUndo

\* UndoReadFromDisk finds the undo data of every block that was connected, as long as
\* crashes keep what was written to undo files: positions are never reused while an entry in
\* memory or on disk points to them, and no undo file goes before its entries do.
THEOREM UndoIsFound ==
  ASSUME "rev" \notin LostKinds
  PROVE  Spec => []EntryFindsItsUndo
  <1>1. Init => UndoFound
    <2> SUFFICES ASSUME Init PROVE UndoFound
      OBVIOUS
    <2>1. \A b \in Blocks : index[b].nUndoPos = Null /\ dbIndex[b].nUndoPos = Null
      BY Zenon DEF Init, Absent, HeaderOnly
    <2> QED
      BY <2>1, Zenon DEF UndoFound, FindsUndo, HasUndo
  <1>2. UndoFound /\ DiskInv /\ [Next]_vars => UndoFound'
    <2> SUFFICES ASSUME UndoFound, DiskInv, [Next]_vars PROVE UndoFound'
      OBVIOUS
    <2>1. ASSUME NEW b \in DOMAIN Parent, AcceptBlock(b) PROVE UndoFound'
      BY <2>1, AcceptKeepsUndo, Zenon
    <2>2. ASSUME NEW b \in DOMAIN Parent, ConnectTip(b) PROVE UndoFound'
      BY <2>2, ConnectKeepsUndo, Zenon
    <2> QED
      BY <2>1, <2>2, QuietKeepsUndo, PruneKeepsUndo, WriteKeepsUndo, UnlinkKeepsUndo, StartKeepsUndo,
         Zenon DEF Next
  <1>3. UndoFound => EntryFindsItsUndo
    BY Zenon DEF UndoFound, FindsUndo, EntryFindsItsUndo
  <1> QED
    BY <1>1, <1>2, <1>3, DiskInvHolds, PTL DEF Spec

-----------------------------------------------------------------------------
(* Recent blocks. *)

\* AcceptBlock stores a block and raises the height of its file.
LEMMA AcceptKeepsHistory ==
  ASSUME DiskInv, HistoryInv, NEW b \in DOMAIN Parent, AcceptBlock(b)
  PROVE  HistoryInv'
  <1>1. /\ b \in Blocks /\ dbIndex' = dbIndex /\ dbVinfo' = dbVinfo
        /\ bests' = bests /\ tip' = tip /\ best' = best /\ nTipMax' = nTipMax
        /\ \A a \in Blocks : a # b => index'[a] = index[a]
        /\ HasData(index'[b]) /\ index'[b].nFile \in Files
        /\ \A g \in Files : vinfo[g].nHeightLast <= vinfo'[g].nHeightLast
        /\ Height[b] <= vinfo'[index'[b].nFile].nHeightLast
    BY AcceptFacts, Zenon
  <1>2. \A g \in Files : vinfo[g].nHeightLast \in Nat /\ vinfo'[g].nHeightLast \in Nat
    BY Zenon, AcceptKeepsDisk DEF DiskInv, Typed, Infos, Info
  <1>3. Kept(index)'
    BY <1>1, Zenon DEF HistoryInv, Kept
  <1>4. Highest(index, vinfo)'
    <2>1. SUFFICES ASSUME NEW a \in Blocks, HasData(index'[a]), a # b
                   PROVE  Height[a] <= vinfo'[index'[a].nFile].nHeightLast
      BY <1>1, Zenon DEF Highest
    <2>2. index'[a] = index[a] /\ index[a].nFile \in Files
      BY Zenon, <1>1, <2>1, EntryFacts DEF DiskInv, Typed, Entries
    <2>3. Height[a] <= vinfo[index[a].nFile].nHeightLast
      BY <2>1, <2>2, Zenon DEF HistoryInv, Highest
    <2>4. Height[a] \in Nat
      BY Zenon, <2>1, FlushAssumption
    <2> QED
      BY <1>1, <1>2, <2>2, <2>3, <2>4
  <1> QED
    BY <1>1, <1>3, <1>4, Zenon DEF HistoryInv, Kept, Highest, TipsBelow

\* A new tip, which may be the highest so far.
LEMMA ConnectKeepsHistory ==
  ASSUME DiskInv, HistoryInv, NEW b \in DOMAIN Parent, ConnectTip(b)
  PROVE  HistoryInv'
  <1>1. /\ b \in Blocks /\ dbIndex' = dbIndex /\ dbVinfo' = dbVinfo
        /\ bests' = bests /\ tip' = tip /\ best' = b
        /\ nTipMax' \in Nat /\ nTipMax <= nTipMax' /\ Height[b] <= nTipMax'
        /\ HasData(index[b]) /\ index[b].nFile \in Files
        /\ \A a \in Blocks : a # b => index'[a] = index[a]
        /\ index'[b].nFile = index[b].nFile
        /\ HasData(index'[b])
        /\ \A g \in Files : vinfo'[g].nHeightLast = vinfo[g].nHeightLast
    BY ConnectFacts, Zenon
  <1>2. /\ nTipMax \in Nat /\ Keep \in Nat /\ \A a \in Blocks : Height[a] \in Nat
        /\ tip \in Blocks /\ bests \subseteq Blocks
    BY Zenon, FlushAssumption DEF DiskInv, Typed
  <1>3. \A a \in Blocks : Height[a] > nTipMax' - Keep => Height[a] > nTipMax - Keep
    BY <1>1, <1>2
  <1>4. Kept(index)' /\ Kept(dbIndex)'
    BY <1>1, <1>3, Zenon DEF HistoryInv, Kept
  <1>5. Highest(index, vinfo)'
    <2>1. SUFFICES ASSUME NEW a \in Blocks, HasData(index'[a])
                   PROVE  Height[a] <= vinfo'[index'[a].nFile].nHeightLast
      BY Zenon DEF Highest
    <2>2. HasData(index[a]) /\ index'[a].nFile = index[a].nFile
      BY <1>1, <2>1, Zenon
    <2>3. index[a].nFile \in Files
      BY Zenon, <2>2, EntryFacts DEF DiskInv, Typed, Entries
    <2> QED
      BY <1>1, <2>2, <2>3, Zenon DEF HistoryInv, Highest
  <1>6. TipsBelow'
    <2>1. \A x \in bests \cup {tip} : Height[x] <= nTipMax'
      BY <1>1, <1>2 DEF HistoryInv, TipsBelow
    <2> QED
      BY <1>1, <2>1, Zenon DEF TipsBelow
  <1> QED
    BY <1>1, <1>4, <1>5, <1>6, Zenon DEF HistoryInv, Highest

\* The actions that leave stored blocks alone.
LEMMA QuietKeepsHistory ==
  ASSUME DiskInv, HistoryInv,
         \/ \E h \in Tips : ProcessNewBlockHeaders(h)
         \/ DisconnectTip \/ PeriodicFlush \/ Shutdown \/ OutOfSpace \/ FlushBlockFile
         \/ UnlinkPrunedFiles \/ FlushCoins \/ UNCHANGED vars
  PROVE  HistoryInv'
  <1>1. vinfo' = vinfo /\ dbIndex' = dbIndex /\ dbVinfo' = dbVinfo /\ nTipMax' = nTipMax
    BY Zenon DEF ProcessNewBlockHeaders, DisconnectTip, PeriodicFlush, Shutdown, OutOfSpace, FlushBlockFile,
           UnlinkPrunedFiles, FlushCoins, vars, entries, database, history
  <1>2. \A a \in Blocks : \/ index'[a] = index[a]
                          \/ ~HasData(index'[a]) /\ ~index'[a].nTx
    <2>1. CASE \E h \in Tips : ProcessNewBlockHeaders(h)
      <3>1. PICK h \in Tips : index' = [a \in Blocks |-> IF a \in NewHeaders(h) THEN HeaderOnly ELSE index[a]]
        BY Zenon, <2>1 DEF ProcessNewBlockHeaders
      <3>2. ~HasData(HeaderOnly) /\ ~HeaderOnly.nTx
        BY Zenon DEF HasData, HeaderOnly
      <3> QED
        BY <3>1, <3>2, Zenon
    <2>2. CASE ~(\E h \in Tips : ProcessNewBlockHeaders(h))
      BY Zenon, <2>2 DEF DisconnectTip, PeriodicFlush, Shutdown, OutOfSpace, FlushBlockFile,
                  UnlinkPrunedFiles, FlushCoins, vars, entries
    <2> QED
      BY Zenon, <2>1, <2>2
  <1>3. Kept(index)' /\ Kept(dbIndex)'
    BY <1>1, <1>2, Zenon DEF HistoryInv, Kept
  <1>4. Highest(index, vinfo)' /\ Highest(dbIndex, dbVinfo)'
    BY <1>1, <1>2, Zenon DEF HistoryInv, Highest
  <1>5. TipsBelow'
    <2>1. /\ tip' \in {tip, best}
          /\ best' = best \/ (tip # Genesis /\ best' = Parent[tip])
          /\ bests' \subseteq bests \cup {best}
      BY Zenon DEF ProcessNewBlockHeaders, DisconnectTip, PeriodicFlush, Shutdown, OutOfSpace, FlushBlockFile,
             UnlinkPrunedFiles, FlushCoins, Return, vars, chainState, database
    <2>2. tip # Genesis => Height[Parent[tip]] <= nTipMax
      <3>1. SUFFICES ASSUME tip # Genesis PROVE Height[Parent[tip]] <= nTipMax
        OBVIOUS
      <3>2. tip \in DOMAIN Parent /\ nTipMax \in Nat
        BY Zenon, <3>1 DEF DiskInv, Typed, Blocks
      <3>3. /\ Parent[tip] \in Blocks /\ Height[tip] = Height[Parent[tip]] + 1
            /\ Height \in [Blocks -> Nat]
        BY Zenon, <3>2, FlushAssumption
      <3>4. Height[Parent[tip]] \in Nat /\ Height[tip] <= nTipMax
        BY Zenon, <3>3 DEF HistoryInv, TipsBelow
      <3> QED
        BY <3>2, <3>3, <3>4
    <2> QED
      BY <1>1, <2>1, <2>2, Zenon DEF HistoryInv, TipsBelow
  <1> QED
    BY <1>3, <1>4, <1>5, Zenon DEF HistoryInv

\* Only files without recent blocks are pruned.
LEMMA PruneKeepsHistory ==
  ASSUME DiskInv, HistoryInv, EnterFlush \/ \E h \in Nat : PruneBlockFilesManual(h)
  PROVE  HistoryInv'
  <1>0. /\ Height[tip] \in Nat /\ Keep \in Nat /\ nTipMax \in Nat /\ Height[tip] <= nTipMax
        /\ nLastBlockFile \in Nat
        /\ \A f \in Files : vinfo[f].nHeightLast \in Nat
    BY FlushAssumption DEF DiskInv, Typed, HistoryInv, TipsBelow, Infos, Info, Files
  <1>1. PICK fs : /\ PruneFiles(fs) /\ fs \subseteq 0..(nLastBlockFile - 1)
                  /\ \A f \in fs : vinfo[f].nHeightLast <= Height[tip] - Keep
    <2>1. CASE EnterFlush
      BY Zenon, <2>1 DEF EnterFlush, FindFilesToPrune, Prunable, LastBlockWeCanPrune
    <2>2. CASE \E h \in Nat : PruneBlockFilesManual(h)
      <3>1. PICK h \in Nat : PruneFiles(Prunable(Min({h, LastBlockWeCanPrune})))
        BY Zenon, <2>2 DEF PruneBlockFilesManual
      <3> DEFINE m == Min({h, LastBlockWeCanPrune})
      <3>2. m \in Int /\ m <= Height[tip] - Keep
        <4>1. LastBlockWeCanPrune \in Int /\ h \in Int
          BY <1>0 DEF LastBlockWeCanPrune
        <4>2. m = IF h <= LastBlockWeCanPrune THEN h ELSE LastBlockWeCanPrune
          BY <4>1, OfTwo, Zenon
        <4> HIDE DEF m
        <4> QED
          BY <4>1, <4>2 DEF LastBlockWeCanPrune
      <3> HIDE DEF m
      <3>3. Prunable(m) \subseteq Files
        <4>1. nLastBlockFile \in 0..MaxFile /\ MaxFile \in Nat
          BY Zenon, FlushAssumption DEF DiskInv, Typed, Files
        <4>2. 0..(nLastBlockFile - 1) \subseteq Files
          BY <4>1 DEF Files
        <4> QED
          BY Zenon, <4>2 DEF Prunable
      <3>4. /\ Prunable(m) \subseteq 0..(nLastBlockFile - 1)
            /\ \A f \in Prunable(m) : vinfo[f].nHeightLast <= Height[tip] - Keep
        BY <1>0, <3>2, <3>3 DEF Prunable
      <3> QED
        BY <3>1, <3>4, Zenon DEF m
    <2> QED
      BY Zenon, <2>1, <2>2
  <1>2. /\ dbIndex' = dbIndex /\ dbVinfo' = dbVinfo /\ nTipMax' = nTipMax
        /\ bests' = bests /\ best' = best /\ tip' \in {tip, best}
    BY Zenon DEF EnterFlush, PruneBlockFilesManual, chainState, history, Return
  <1>3. \A b \in Blocks : /\ index'[b] # Absent <=> index[b] # Absent
                          /\ index'[b].nTx = index[b].nTx
                          /\ index[b].nFile \in fs => ~HasData(index'[b])
                          /\ index[b].nFile \notin fs => index'[b] = index[b]
    BY <1>1, PruneFacts, Zenon
  <1>4. fs \subseteq Files /\ \A f \in Files : f \notin fs => vinfo'[f] = vinfo[f]
    BY <1>1, PruneFacts, Zenon
  <1>5. Kept(index)'
    <2>1. SUFFICES ASSUME NEW b \in Blocks, index'[b] # Absent, index'[b].nTx,
                          Height[b] > nTipMax - Keep
                   PROVE  HasData(index'[b])
      BY <1>2, Zenon DEF Kept
    <2>2. HasData(index[b])
      BY <1>3, <2>1, Zenon DEF HistoryInv, Kept
    <2>3. Height[b] <= vinfo[index[b].nFile].nHeightLast /\ Height[b] \in Nat
      BY Zenon, <2>2, FlushAssumption DEF HistoryInv, Highest
    <2>4. index[b].nFile \notin fs
      <3>1. SUFFICES ASSUME index[b].nFile \in fs PROVE FALSE
        OBVIOUS
      <3>2. /\ vinfo[index[b].nFile].nHeightLast <= Height[tip] - Keep
            /\ vinfo[index[b].nFile].nHeightLast \in Nat
        BY Zenon, <1>0, <1>1, <1>4, <3>1
      <3> QED
        BY <1>0, <2>1, <2>3, <3>2
    <2> QED
      BY <1>3, <2>2, <2>4, Zenon
  <1>6. Highest(index, vinfo)'
    <2>1. SUFFICES ASSUME NEW b \in Blocks, HasData(index'[b])
                   PROVE  Height[b] <= vinfo'[index'[b].nFile].nHeightLast
      BY Zenon DEF Highest
    <2>2. index'[b] = index[b] /\ index[b].nFile \notin fs
      BY <1>3, <2>1, Zenon
    <2>3. index[b].nFile \in Files
      BY Zenon, <2>1, <2>2, EntryFacts DEF DiskInv, Typed, Entries
    <2> QED
      BY <1>4, <2>1, <2>2, <2>3, Zenon DEF HistoryInv, Highest
  <1> QED
    BY <1>2, <1>5, <1>6, Zenon DEF HistoryInv, Kept, Highest, TipsBelow

\* The write of the index makes the copy on disk that in memory.
LEMMA WriteKeepsHistory ==
  ASSUME DiskInv, HistoryInv, WriteBatchSync
  PROVE  HistoryInv'
  <1>1. /\ index' = index /\ vinfo' = vinfo /\ nTipMax' = nTipMax
        /\ bests' = bests /\ tip' = tip /\ best' = best
        /\ dbIndex' = [b \in Blocks |-> IF b \in setDirtyBlockIndex THEN index[b] ELSE dbIndex[b]]
        /\ dbVinfo' = [f \in Files |-> IF f \in setDirtyFileInfo THEN vinfo[f] ELSE dbVinfo[f]]
    BY Zenon DEF WriteBatchSync, chainState, history
  <1>2. (\A b \in Blocks : dbIndex'[b] = index[b]) /\ \A f \in Files : dbVinfo'[f] = vinfo[f]
    BY Zenon, <1>1 DEF DiskInv, Clean
  <1>3. Kept(dbIndex)'
    BY <1>1, <1>2, Zenon DEF HistoryInv, Kept
  <1>4. Highest(dbIndex, dbVinfo)'
    <2>1. SUFFICES ASSUME NEW b \in Blocks, HasData(index[b])
                   PROVE  Height[b] <= dbVinfo'[index[b].nFile].nHeightLast
      BY <1>2, Zenon DEF Highest
    <2>2. dbVinfo'[index[b].nFile] = vinfo[index[b].nFile]
      <3>1. index[b].nFile \in Files
        BY Zenon, <2>1, EntryFacts DEF DiskInv, Typed, Entries
      <3> QED
        BY <1>2, <3>1, Zenon
    <2> QED
      BY <2>1, <2>2, Zenon DEF HistoryInv, Highest
  <1> QED
    BY <1>1, <1>3, <1>4, Zenon DEF HistoryInv, Kept, Highest, TipsBelow

\* A start takes the copy on disk and one of the chainstates that may come back.
LEMMA StartKeepsHistory ==
  ASSUME DiskInv, HistoryInv, Restart \/ Crash
  PROVE  HistoryInv'
  <1>1. /\ index' = dbIndex /\ vinfo' = dbVinfo /\ dbIndex' = dbIndex /\ dbVinfo' = dbVinfo
        /\ nTipMax' = nTipMax
    BY Zenon DEF Restart, Crash, LoadBlockIndexDB, history
  <1>2. PICK x \in bests : tip' = x /\ best' = x /\ bests' \subseteq bests
    BY Zenon DEF Restart, Crash, LoadBlockIndexDB, DiskInv, Typed
  <1> QED
    BY <1>1, <1>2, Zenon DEF HistoryInv, Kept, Highest, TipsBelow

\* A block that was received and is less than Keep blocks below the highest tip there ever was
\* is stored, after any sequence of prunes, crashes and disconnects: FindFilesToPrune and
\* PruneBlockFilesManual go by nHeightLast of a file, and no block of it is higher.
THEOREM RecentBlocksStay == Spec => []RecentBlocksAreKept
  <1>1. Init => HistoryInv
    <2> SUFFICES ASSUME Init PROVE HistoryInv
      OBVIOUS
    <2>1. /\ \A b \in Blocks : b # Genesis => index[b] = Absent
          /\ HasData(index[Genesis]) /\ index[Genesis].nFile = 0
          /\ dbIndex = index /\ dbVinfo = vinfo
          /\ tip = Genesis /\ best = Genesis /\ bests = {Genesis} /\ nTipMax = 0
      BY DEF Init, HasData, Null, Blocks
    <2>2. vinfo[0].nHeightLast = 0 /\ Height[Genesis] = 0
      BY FlushAssumption DEF Init, NullInfo, Files
    <2>3. ~HasData(Absent)
      BY EntryFacts, Zenon
    <2>4. Kept(index)
      BY <2>1, Zenon DEF Kept
    <2>5. Highest(index, vinfo)
      <3>1. SUFFICES ASSUME NEW b \in Blocks, HasData(index[b])
                     PROVE  Height[b] <= vinfo[index[b].nFile].nHeightLast
        BY Zenon DEF Highest
      <3>2. b = Genesis
        BY <2>1, <2>3, <3>1, Zenon
      <3> QED
        BY <2>1, <2>2, <3>2
    <2>6. TipsBelow
      BY <2>1, <2>2 DEF TipsBelow
    <2> QED
      BY <2>1, <2>4, <2>5, <2>6, Zenon DEF HistoryInv
  <1>2. HistoryInv /\ DiskInv /\ [Next]_vars => HistoryInv'
    <2> SUFFICES ASSUME HistoryInv, DiskInv, [Next]_vars PROVE HistoryInv'
      OBVIOUS
    <2>1. ASSUME NEW b \in DOMAIN Parent, AcceptBlock(b) PROVE HistoryInv'
      BY <2>1, AcceptKeepsHistory, Zenon
    <2>2. ASSUME NEW b \in DOMAIN Parent, ConnectTip(b) PROVE HistoryInv'
      BY <2>2, ConnectKeepsHistory, Zenon
    <2>3. (\E h \in {Height[b] : b \in Blocks} : PruneBlockFilesManual(h))
            => \E h \in Nat : PruneBlockFilesManual(h)
      <3>1. \A h \in {Height[b] : b \in Blocks} : h \in Nat
        BY FlushAssumption
      <3> QED
        BY <3>1, Zenon
    <2> QED
      BY <2>1, <2>2, <2>3, QuietKeepsHistory, PruneKeepsHistory, WriteKeepsHistory, StartKeepsHistory,
         Zenon DEF Next
  <1>3. HistoryInv => RecentBlocksAreKept
    BY Zenon DEF HistoryInv, Kept, RecentBlocksAreKept, Known
  <1> QED
    BY <1>1, <1>2, <1>3, DiskInvHolds, PTL DEF Spec
=============================================================================
