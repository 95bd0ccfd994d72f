------------------------------ MODULE BlockTree ------------------------------
(***************************************************************************)
(* The block index and the activation of the best chain (validation.cpp).  *)
(*                                                                         *)
(* State: mapBlockIndex with the nStatus flags, nChainTx and nSequenceId   *)
(* of its entries, setBlockIndexCandidates, mapBlocksUnlinked, chainActive *)
(* (by its tip), and for every thread inside ActivateBestChain its local   *)
(* pindexMostWork, which survives the release of cs_main between two steps.*)
(*                                                                         *)
(* Threads are the callers of ActivateBestChain: the message handler, the  *)
(* RPC workers, the import thread.  An action is one stretch of code under *)
(* cs_main.  The body of the loop of ActivateBestChain is two actions      *)
(* (choose the target, take the step) with cs_main held in between.        *)
(*                                                                         *)
(* The tree of blocks that exist in the network is constant; what the node *)
(* knows of it, and in which order it learns it, is not.  Headers that     *)
(* AcceptBlockHeader refuses never enter the index and are not in Blocks.  *)
(***************************************************************************)
EXTENDS Integers, FiniteSets

CONSTANTS
  Blocks,       \* the blocks of the network
  Genesis,      \* hashGenesisBlock
  Parent,       \* pprev: [Blocks \ {Genesis} -> Blocks]
  Ancestors,    \* the block and every block below it: [Blocks -> SUBSET Blocks]
  Work,         \* nChainWork: [Blocks -> Nat]
  Addr,         \* the address of the CBlockIndex, the last tie breaker
  BadContext,   \* blocks that ContextualCheckBlock finds invalid
  BadConnect,   \* blocks that ConnectBlock finds invalid
  Threads,      \* callers of ActivateBestChain
  NoBlock,      \* NULL
  NoThread,     \* nobody holds cs_main
  Keep,         \* MIN_BLOCKS_TO_KEEP
  ManualOps,    \* the RPCs in use, of {"invalidate", "reconsider", "precious"}
  MaxManual,    \* bound: calls of those RPCs
  MaxPrune      \* bound: pruned blocks (0: no -prune)

(***************************************************************************)
(* The blocks form a tree rooted at Genesis, and work grows along it.      *)
(***************************************************************************)
ASSUME TreeAssumption ==
  /\ IsFiniteSet(Blocks)
  /\ Genesis \in Blocks /\ NoBlock \notin Blocks /\ NoThread \notin Threads
  /\ Parent \in [Blocks \ {Genesis} -> Blocks]
  /\ Ancestors \in [Blocks -> SUBSET Blocks]
  /\ Ancestors[Genesis] = {Genesis}
  /\ \A b \in Blocks \ {Genesis} :
        /\ b \notin Ancestors[Parent[b]]
        /\ Ancestors[b] = Ancestors[Parent[b]] \cup {b}
  /\ \A b \in Blocks : b \in Ancestors[b] /\ Genesis \in Ancestors[b]
  /\ \A b \in Blocks : \A a \in Ancestors[b] : Ancestors[a] \subseteq Ancestors[b]
  /\ \A b \in Blocks : \A x, y \in Ancestors[b] :
        x \in Ancestors[y] \/ y \in Ancestors[x]
  /\ Work \in [Blocks -> Nat]
  /\ \A b \in Blocks \ {Genesis} : Work[Parent[b]] < Work[b]
  /\ Addr \in [Blocks -> Nat]
  /\ \A a, b \in Blocks : Addr[a] = Addr[b] => a = b
  /\ BadContext \subseteq Blocks \ {Genesis}
  /\ BadConnect \subseteq Blocks \ {Genesis}
  /\ Keep \in Nat /\ MaxManual \in Nat /\ MaxPrune \in Nat
  /\ ManualOps \subseteq {"invalidate", "reconsider", "precious"}

VARIABLES
  mapBlockIndex,        \* the blocks with an index entry
  nStatus,              \* [Blocks -> SUBSET Flags]
  linked,               \* the blocks with nChainTx # 0
  nSequenceId,
  nBlockSequenceId,
  nBlockReverseSequenceId,
  nLastPreciousChainwork,
  candidates,           \* setBlockIndexCandidates
  unlinked,             \* mapBlocksUnlinked, as a set of pairs
  tip,                  \* chainActive.Tip()
  pindexBestHeader,
  pindexBestInvalid,
  csMain,               \* the holder of cs_main between two actions
  pc,                   \* per thread: "idle", "activate" (top of the loop), "step"
  mostWork,             \* per thread: pindexMostWork
  health,               \* "ok", "failed" (a chain could not be undone), "aborted" (AbortNode)
  nManual, nPruned,     \* counters of the bounded operations
  fReconsiderAbove      \* history: reconsiderblock was given a block with a failed ancestor

index == <<mapBlockIndex, nStatus, linked, candidates, unlinked, tip>>
ids == <<nSequenceId, nBlockSequenceId>>
precious == <<nBlockReverseSequenceId, nLastPreciousChainwork>>
threads == <<csMain, pc, mostWork>>
manual == <<nManual, fReconsiderAbove>>
vars == <<mapBlockIndex, nStatus, linked, nSequenceId, nBlockSequenceId,
          nBlockReverseSequenceId, nLastPreciousChainwork, candidates, unlinked,
          tip, pindexBestHeader, pindexBestInvalid, csMain, pc, mostWork,
          health, nManual, nPruned, fReconsiderAbove>>

(* BLOCK_VALID_TREE is what every entry has; VALID_CHAIN is never set alone. *)
Flags == {"TRANSACTIONS", "SCRIPTS", "DATA", "UNDO", "FAILED_VALID", "FAILED_CHILD"}

FailedMask == {"FAILED_VALID", "FAILED_CHILD"}

Height(b) == Cardinality(Ancestors[b]) - 1

Failed(status, b) == status[b] \cap FailedMask # {}

IsValid(status, b) == ~Failed(status, b) /\ "TRANSACTIONS" \in status[b]

Raise(status, S, flags) == [b \in Blocks |-> IF b \in S THEN status[b] \cup flags ELSE status[b]]

Clear(status, S, flags) == [b \in Blocks |-> IF b \in S THEN status[b] \ flags ELSE status[b]]

(* The highest and the lowest block of a nonempty set of blocks of one branch. *)
Highest(S) == CHOOSE x \in S : \A y \in S : Work[y] <= Work[x]

Lowest(S) == CHOOSE x \in S : \A y \in S : Work[x] <= Work[y]

(* CBlockIndexWorkComparator: a sorts before b, that is, b is the better block. *)
Worse(seq, a, b) ==
  \/ Work[a] < Work[b]
  \/ /\ Work[a] = Work[b]
     /\ \/ seq[a] > seq[b]
        \/ seq[a] = seq[b] /\ Addr[a] > Addr[b]

Best(seq, S) == CHOOSE x \in S : \A y \in S \ {x} : Worse(seq, y, x)

(* The slip of reporting an invalid block without marking it. *)
LeaveUnmarked(status, b) == status

(* The mark that AcceptBlock, InvalidBlockFound and InvalidateBlock put on a block. *)
MarkInvalid(status, b) == Raise(status, {b}, {"FAILED_VALID"})

(* InvalidChainFound: the invalid block of most work is remembered. *)
WithInvalid(best, b) ==
  IF best = NoBlock THEN b ELSE IF Work[b] > Work[best] THEN b ELSE best

-----------------------------------------------------------------------------
(* The state InitBlockIndex and the first ActivateBestChain leave: the     *)
(* genesis block received, connected and alone.                            *)
Init ==
  /\ mapBlockIndex = {Genesis}
  /\ nStatus = [b \in Blocks |-> IF b = Genesis THEN {"TRANSACTIONS", "DATA"} ELSE {}]
  /\ linked = {Genesis}
  /\ nSequenceId = [b \in Blocks |-> IF b = Genesis THEN 1 ELSE 0]
  /\ nBlockSequenceId = 2
  /\ nBlockReverseSequenceId = -1
  /\ nLastPreciousChainwork = 0
  /\ candidates = {Genesis}
  /\ unlinked = {}
  /\ tip = Genesis
  /\ pindexBestHeader = Genesis
  /\ pindexBestInvalid = NoBlock
  /\ csMain = NoThread
  /\ pc = [t \in Threads |-> "idle"]
  /\ mostWork = [t \in Threads |-> NoBlock]
  /\ health = "ok"
  /\ nManual = 0 /\ nPruned = 0
  /\ fReconsiderAbove = FALSE

(* AbortNode ends the run: StartShutdown, and nothing more is accepted. *)
Running == health # "aborted"

(* A thread outside the loop takes cs_main. *)
Enter(t) == Running /\ csMain = NoThread /\ pc[t] = "idle"

(* AcceptBlockHeader succeeds: the entry exists and is not failed, or the  *)
(* parent's exists and is not.                                             *)
HeaderAccepted(b) ==
  IF b \in mapBlockIndex
  THEN ~Failed(nStatus, b)
  ELSE /\ b # Genesis
       /\ Parent[b] \in mapBlockIndex
       /\ ~Failed(nStatus, Parent[b])

(* AddToBlockIndex *)
AddToBlockIndex(b) ==
  /\ mapBlockIndex' = mapBlockIndex \cup {b}
  /\ pindexBestHeader' =
       IF b \notin mapBlockIndex /\ Work[pindexBestHeader] < Work[b] THEN b ELSE pindexBestHeader

(* ProcessNewBlockHeaders, for one header that is new. *)
ProcessNewBlockHeader(b) ==
  /\ Running /\ csMain = NoThread
  /\ b \notin mapBlockIndex /\ HeaderAccepted(b)
  /\ AddToBlockIndex(b)
  /\ UNCHANGED <<nStatus, linked, candidates, unlinked, tip, ids, precious,
                 pindexBestInvalid, threads, health, manual, nPruned>>

(* The slip of processing a block again whose data is already stored. *)
ProcessAgain(b, fRequested) == ~fRequested /\ Work[b] <= Work[tip]

(* The early returns of AcceptBlock that leave the block unprocessed. *)
NotProcessed(b, fRequested) ==
  \/ "DATA" \in nStatus[b]
  \/ /\ ~fRequested
     /\ \/ "TRANSACTIONS" \in nStatus[b]
        \/ Work[b] <= Work[tip]
        \/ Height(b) > Height(tip) + Keep

(* The slip of linking only the block itself, not the descendants waiting. *)
LinkOnlyItself(b) == {b}

(* The blocks the queue of ReceivedBlockTransactions goes through when the *)
(* parent of b is linked: b, and what waits for it in mapBlocksUnlinked.   *)
NowLinked(b) ==
  {c \in Blocks : /\ b \in Ancestors[c]
                  /\ \A x \in Ancestors[c] \ Ancestors[b] : <<Parent[x], x>> \in unlinked}

(* The orders in which the queue may hand out nBlockSequenceId: parents    *)
(* first; the order among siblings is that of their insertion, left open.  *)
Arrivals(S) ==
  {f \in [S -> nBlockSequenceId .. nBlockSequenceId + Cardinality(S) - 1] :
     \A x, y \in S : x # y => /\ f[x] # f[y]
                              /\ x \in Ancestors[y] => f[x] < f[y]}

(* pindexNew->pprev->nChainTx *)
ParentLinked(b) == Parent[b] \in linked

(* ReceivedBlockTransactions, given the sequence numbers it hands out. *)
ReceivedBlockTransactions(b) ==
  LET status == Raise(nStatus, {b}, {"DATA", "TRANSACTIONS"})
      queue == IF ParentLinked(b) THEN NowLinked(b) ELSE {}
  IN  /\ nStatus' = status
      /\ \E f \in Arrivals(queue) :
           LET seq == [x \in Blocks |-> IF x \in queue THEN f[x] ELSE nSequenceId[x]]
           IN  /\ nSequenceId' = seq
               /\ candidates' = candidates \cup {x \in queue : ~Worse(seq, x, tip)}
      /\ nBlockSequenceId' = nBlockSequenceId + Cardinality(queue)
      /\ linked' = linked \cup queue
      /\ unlinked' = IF ParentLinked(b)
                     THEN {p \in unlinked : p[1] \notin queue}
                     ELSE IF Failed(nStatus, Parent[b])
                          THEN unlinked
                          ELSE unlinked \cup {<<Parent[b], b>>}

(* ProcessNewBlock up to the release of cs_main: AcceptBlock, with its     *)
(* header step, its early returns and its two outcomes.                    *)
ProcessNewBlock(t, b, fRequested) ==
  /\ Enter(t)
  /\ b # Genesis /\ HeaderAccepted(b)
  /\ AddToBlockIndex(b)
  /\ \/ /\ NotProcessed(b, fRequested)
        /\ pc' = [pc EXCEPT ![t] = "activate"]
        /\ UNCHANGED <<nStatus, linked, candidates, unlinked, ids>>
     \/ /\ ~NotProcessed(b, fRequested) /\ b \in BadContext
        /\ nStatus' = MarkInvalid(nStatus, b)
        /\ UNCHANGED <<linked, candidates, unlinked, ids, pc>>
     \/ /\ ~NotProcessed(b, fRequested) /\ b \notin BadContext
        /\ ReceivedBlockTransactions(b)
        /\ pc' = [pc EXCEPT ![t] = "activate"]
  /\ UNCHANGED <<tip, precious, pindexBestInvalid, csMain, mostWork, health, manual, nPruned>>

-----------------------------------------------------------------------------

(* FindMostWorkChain.  Going down from a candidate to the active chain the *)
(* first failed or missing block makes it unusable.                        *)
Blocking(c) ==
  {x \in Ancestors[c] \ Ancestors[tip] : Failed(nStatus, x) \/ "DATA" \notin nStatus[x]}

UsableCandidates == {c \in candidates : Blocking(c) = {}}

FindMostWorkChain ==
  IF UsableCandidates = {} THEN NoBlock ELSE Best(nSequenceId, UsableCandidates)

(* The unusable candidates that the search meets before its result. *)
Discarded ==
  {c \in candidates \ UsableCandidates :
     UsableCandidates # {} => Worse(nSequenceId, FindMostWorkChain, c)}

(* The blocks above the blocking one, up to the candidate. *)
PathAbove(c) == Ancestors[c] \ Ancestors[Highest(Blocking(c))]

(* The slip of taking a chain with missing data for an invalid one. *)
AllDiscarded == Discarded

DiscardedFailed == {c \in Discarded : Failed(nStatus, Highest(Blocking(c)))}

DiscardedMissing == Discarded \ DiscardedFailed

(* The slip of dropping a chain with missing data without remembering it. *)
ForgetMissing == {}

(* The blocks that go to mapBlocksUnlinked, to be tried again when the missing data arrives. *)
WaitAgain == UNION {PathAbove(c) : c \in DiscardedMissing}

(* What the search does to the chains it discards. *)
Discard ==
  /\ nStatus' = Raise(nStatus, UNION {PathAbove(c) : c \in DiscardedFailed}, {"FAILED_CHILD"})
  /\ unlinked' = unlinked \cup {<<Parent[x], x>> : x \in WaitAgain}
  /\ candidates' = candidates \ UNION {PathAbove(c) \cup {Highest(Blocking(c))} : c \in Discarded}
  /\ pindexBestInvalid' =
       IF DiscardedFailed = {} THEN pindexBestInvalid
       ELSE WithInvalid(pindexBestInvalid, Best(nSequenceId, DiscardedFailed))

(* The top of the loop of ActivateBestChain: choose a target unless one is *)
(* left from the last iteration; return, or keep cs_main and go on.        *)
ChooseTarget(t) ==
  /\ Running /\ csMain = NoThread /\ pc[t] = "activate"
  /\ LET target == IF mostWork[t] = NoBlock THEN FindMostWorkChain ELSE mostWork[t]
     IN  /\ IF mostWork[t] = NoBlock
            THEN Discard
            ELSE UNCHANGED <<nStatus, unlinked, candidates, pindexBestInvalid>>
         /\ IF target \in {NoBlock, tip}
            THEN /\ pc' = [pc EXCEPT ![t] = "idle"]
                 /\ mostWork' = [mostWork EXCEPT ![t] = NoBlock]
                 /\ csMain' = NoThread
            ELSE /\ pc' = [pc EXCEPT ![t] = "step"]
                 /\ mostWork' = [mostWork EXCEPT ![t] = target]
                 /\ csMain' = t
  /\ UNCHANGED <<mapBlockIndex, linked, tip, ids, precious, pindexBestHeader, health,
                 manual, nPruned>>

(* The blocks above the fork that DisconnectTip cannot undo: the block is  *)
(* not on disk (AbortNode) or its undo data is not (a plain failure).      *)
Stuck(undoing) == {x \in undoing : ~({"DATA", "UNDO"} \subseteq nStatus[x])}

UndoFailure(b) == IF "DATA" \in nStatus[b] THEN "failed" ELSE "aborted"

Fork(b) == Highest(Ancestors[b] \cap Ancestors[tip])

(* The slip of removing the tip too. *)
PruneTipToo(cands, newTip) == {x \in cands : Worse(nSequenceId, newTip, x)}

(* PruneBlockIndexCandidates, for a given tip. *)
PruneBlockIndexCandidates(cands, newTip) == {x \in cands : ~Worse(nSequenceId, x, newTip)}

(* ActivateBestChain returns and cs_main is released. *)
ReturnFromActivate(t) ==
  /\ csMain' = NoThread
  /\ pc' = [pc EXCEPT ![t] = "idle"]
  /\ mostWork' = [mostWork EXCEPT ![t] = NoBlock]

(* ActivateBestChainStep that fails in DisconnectTip. *)
StepCannotDisconnect(t) ==
  LET stuck == Stuck(Ancestors[tip] \ Ancestors[Fork(mostWork[t])])
  IN  /\ pc[t] = "step" /\ stuck # {}
      /\ tip' = Highest(stuck)
      /\ health' = UndoFailure(Highest(stuck))
      /\ ReturnFromActivate(t)
      /\ UNCHANGED <<mapBlockIndex, nStatus, linked, candidates, unlinked, ids, precious,
                     pindexBestHeader, pindexBestInvalid, manual, nPruned>>

(* ConnectBlock's index update for the blocks a step connects. *)
Connected(status, S) ==
  [b \in Blocks |->
     IF b \notin S THEN status[b]
     ELSE status[b] \cup {"UNDO"} \cup (IF Failed(status, b) THEN {} ELSE {"SCRIPTS"})]

(* The slip of releasing cs_main after every block. *)
StopsAtFirst(t) == Lowest(Ancestors[mostWork[t]] \ Ancestors[tip])

(* The block at which the step stops: the first that improves on the old   *)
(* tip, fails, cannot be read, or is the target.                           *)
StopsAt(t) ==
  Lowest({x \in Ancestors[mostWork[t]] \ Ancestors[tip] :
            \/ Work[x] > Work[tip] \/ x = mostWork[t]
            \/ x \in BadConnect \/ "DATA" \notin nStatus[x]})

(* ActivateBestChainStep that goes back to an ancestor of the tip: the     *)
(* target, left from an earlier iteration, is below it by now.             *)
StepBack(t) ==
  /\ pc[t] = "step" /\ mostWork[t] \in Ancestors[tip]
  /\ Stuck(Ancestors[tip] \ Ancestors[mostWork[t]]) = {}
  /\ tip' = mostWork[t]
  /\ ReturnFromActivate(t)
  /\ UNCHANGED <<mapBlockIndex, nStatus, linked, candidates, unlinked, ids, precious,
                 pindexBestHeader, pindexBestInvalid, health, manual, nPruned>>

(* ActivateBestChainStep that disconnects to the fork and connects blocks  *)
(* until it must stop.                                                     *)
StepForward(t) ==
  /\ pc[t] = "step" /\ mostWork[t] \notin Ancestors[tip]
  /\ Stuck(Ancestors[tip] \ Ancestors[Fork(mostWork[t])]) = {}
  /\ LET target == mostWork[t]
         stop == StopsAt(t)
         missing == "DATA" \notin nStatus[stop]
         invalid == ~missing /\ stop \in BadConnect
         newTip == IF missing \/ invalid THEN Parent[stop] ELSE stop
         new == Ancestors[newTip] \ Ancestors[Fork(target)]
         pruned == IF new = {} THEN candidates ELSE PruneBlockIndexCandidates(candidates, newTip)
     IN  /\ tip' = newTip
         /\ nStatus' = IF invalid
                       THEN MarkInvalid(Connected(nStatus, new), stop)
                       ELSE Connected(nStatus, new)
         /\ candidates' = IF invalid THEN pruned \ {stop} ELSE pruned
         /\ pindexBestInvalid' =
              IF invalid THEN WithInvalid(pindexBestInvalid, stop) ELSE pindexBestInvalid
         /\ health' = IF missing THEN "aborted" ELSE health
         /\ IF missing \/ newTip = target
            THEN ReturnFromActivate(t)
            ELSE /\ csMain' = NoThread
                 /\ pc' = [pc EXCEPT ![t] = "activate"]
                 /\ mostWork' = [mostWork EXCEPT ![t] = IF invalid THEN NoBlock ELSE target]
  /\ UNCHANGED <<mapBlockIndex, linked, unlinked, ids, precious, pindexBestHeader, manual, nPruned>>

ActivateBestChainStep(t) == StepCannotDisconnect(t) \/ StepBack(t) \/ StepForward(t)

-----------------------------------------------------------------------------
(* An RPC that ends in ActivateBestChain. *)
ManualOp(t, op, b) ==
  /\ Enter(t) /\ op \in ManualOps /\ b \in mapBlockIndex
  /\ nManual < MaxManual /\ nManual' = nManual + 1
  /\ fReconsiderAbove' = \/ fReconsiderAbove
                         \/ op = "reconsider" /\ \E a \in Ancestors[b] \ {b} : Failed(nStatus, a)
  /\ pc' = [pc EXCEPT ![t] = "activate"]
  /\ UNCHANGED <<mapBlockIndex, linked, nBlockSequenceId, unlinked, pindexBestHeader,
                 csMain, mostWork, nPruned>>

(* The slip of re-adding only the new tip, not its rivals. *)
ReaddTipOnly(status, newTip) == {newTip}

(* The blocks InvalidateBlock puts back among the candidates. *)
Readded(status, newTip) ==
  {x \in mapBlockIndex : IsValid(status, x) /\ x \in linked /\ ~Worse(nSequenceId, x, newTip)}

(* invalidateblock.  Blocks above b leave the active chain one by one, each *)
(* flagged first; one that cannot be undone stops the loop.                 *)
InvalidateBlock(t, b) ==
  /\ ManualOp(t, "invalidate", b) /\ b # Genesis
  /\ LET above == {x \in Ancestors[tip] : b \in Ancestors[x]}
         stuck == Stuck(above)
         walked == IF stuck = {} THEN above
                   ELSE {x \in above : Highest(stuck) \in Ancestors[x]}
         status == Raise(MarkInvalid(nStatus, b), walked, {"FAILED_CHILD"})
         erased == candidates \ (walked \cup {b})
         newTip == IF above = {} THEN tip ELSE Parent[b]
     IN  /\ nStatus' = status
         /\ IF stuck = {}
            THEN /\ tip' = newTip
                 /\ candidates' = erased \cup Readded(status, newTip)
                 /\ pindexBestInvalid' = WithInvalid(pindexBestInvalid, b)
                 /\ UNCHANGED health
            ELSE /\ tip' = Highest(stuck)
                 /\ candidates' = erased
                 /\ health' = UndoFailure(Highest(stuck))
                 /\ UNCHANGED pindexBestInvalid
  /\ UNCHANGED <<nSequenceId, precious>>

(* reconsiderblock: ResetBlockFailureFlags clears b, its descendants and   *)
(* its ancestors, and makes candidates of the descendants better than tip. *)
ResetBlockFailureFlags(t, b) ==
  /\ ManualOp(t, "reconsider", b)
  /\ LET cleared == {x \in mapBlockIndex : b \in Ancestors[x] /\ ~IsValid(nStatus, x)}
         status == Clear(nStatus, cleared, FailedMask)
     IN  /\ nStatus' = Clear(status, Ancestors[b], FailedMask)
         /\ candidates' = candidates \cup
              {x \in cleared : IsValid(status, x) /\ x \in linked /\ Worse(nSequenceId, tip, x)}
         /\ pindexBestInvalid' = IF pindexBestInvalid \in cleared THEN NoBlock ELSE pindexBestInvalid
  /\ UNCHANGED <<tip, nSequenceId, precious, health>>

(* preciousblock *)
PreciousBlock(t, b) ==
  /\ ManualOp(t, "precious", b)
  /\ IF Work[b] < Work[tip]
     THEN UNCHANGED <<nSequenceId, precious, candidates>>
     ELSE LET id == IF Work[tip] > nLastPreciousChainwork THEN -1 ELSE nBlockReverseSequenceId
              seq == [nSequenceId EXCEPT ![b] = id]
          IN  /\ nSequenceId' = seq
              /\ nBlockReverseSequenceId' = id - 1
              /\ nLastPreciousChainwork' = Work[tip]
              /\ candidates' = IF IsValid(nStatus, b) /\ b \in linked
                               THEN {x \in candidates \cup {b} : ~Worse(seq, x, tip)}
                               ELSE candidates \ {b}
  /\ UNCHANGED <<nStatus, tip, pindexBestInvalid, health>>

(* The slip of leaving a pruned block in mapBlocksUnlinked. *)
UnlinkedAfterPruneKept(b) == unlinked

(* mapBlocksUnlinked after PruneOneBlockFile. *)
UnlinkedAfterPrune(b) == {p \in unlinked : p[2] # b}

(* PruneOneBlockFile, for a file that holds one block; FindFilesToPrune    *)
(* selects files at least Keep below the tip.                              *)
PruneOneBlockFile(b) ==
  /\ Running /\ csMain = NoThread
  /\ nPruned < MaxPrune /\ nPruned' = nPruned + 1
  /\ "DATA" \in nStatus[b] /\ Height(b) + Keep <= Height(tip)
  /\ nStatus' = Clear(nStatus, {b}, {"DATA", "UNDO"})
  /\ unlinked' = UnlinkedAfterPrune(b)
  /\ UNCHANGED <<mapBlockIndex, linked, candidates, tip, ids, precious, pindexBestHeader,
                 pindexBestInvalid, threads, health, manual>>

ThreadStep(t) == ChooseTarget(t) \/ ActivateBestChainStep(t)

Next ==
  \/ \E b \in Blocks : ProcessNewBlockHeader(b) \/ PruneOneBlockFile(b)
  \/ \E t \in Threads, b \in Blocks :
       \/ \E fRequested \in BOOLEAN : ProcessNewBlock(t, b, fRequested)
       \/ InvalidateBlock(t, b) \/ ResetBlockFailureFlags(t, b) \/ PreciousBlock(t, b)
  \/ \E t \in Threads : ThreadStep(t)

Spec == Init /\ [][Next]_vars

(* A thread inside ActivateBestChain is scheduled while cs_main is free.   *)
FairSpec == Spec /\ \A t \in Threads : WF_vars(ThreadStep(t))

-----------------------------------------------------------------------------
TypeOK ==
  /\ mapBlockIndex \subseteq Blocks
  /\ nStatus \in [Blocks -> SUBSET Flags]
  /\ linked \subseteq mapBlockIndex
  /\ nSequenceId \in [Blocks -> Int]
  /\ nBlockSequenceId \in Nat
  /\ nBlockReverseSequenceId \in Int
  /\ nLastPreciousChainwork \in Nat
  /\ candidates \subseteq mapBlockIndex
  /\ unlinked \subseteq Blocks \X Blocks
  /\ tip \in mapBlockIndex
  /\ pindexBestHeader \in mapBlockIndex
  /\ pindexBestInvalid \in mapBlockIndex \cup {NoBlock}
  /\ csMain \in Threads \cup {NoThread}
  /\ pc \in [Threads -> {"idle", "activate", "step"}]
  /\ mostWork \in [Threads -> mapBlockIndex \cup {NoBlock}]
  /\ health \in {"ok", "failed", "aborted"}
  /\ nManual \in 0 .. MaxManual /\ nPruned \in 0 .. MaxPrune
  /\ fReconsiderAbove \in BOOLEAN

(* No thread is inside ActivateBestChain, and none has failed. *)
Quiet == health = "ok" /\ \A t \in Threads : pc[t] = "idle"

HasInvalidAncestor(b) == \E a \in Ancestors[b] : "FAILED_VALID" \in nStatus[a]

HasAllData(b) == \A a \in Ancestors[b] : "DATA" \in nStatus[a]

(* nChainTx is set for exactly the blocks all of whose ancestors have been  *)
(* received, whatever the order in which they were, in a well-typed state.  *)
(* The asserts of CheckBlockIndex on pindexFirstNeverProcessed and nChainTx. *)
LinkedIffAncestorsProcessed ==
  /\ TypeOK
  /\ \A b \in mapBlockIndex :
       b \in linked <=> \A a \in Ancestors[b] : "TRANSACTIONS" \in nStatus[a]

(* A failed flag is always explained by an ancestor that failed itself.     *)
(* "The failed mask cannot be set for blocks without invalid parents."      *)
FailedHasInvalidAncestor ==
  \A b \in mapBlockIndex : Failed(nStatus, b) => HasInvalidAncestor(b)

(* Only blocks that are linked and at least as good as the tip are          *)
(* candidates, and no usable one of those is missing, the tip included.     *)
(* The asserts of CheckBlockIndex on setBlockIndexCandidates.               *)
CandidatesExact ==
  \A b \in mapBlockIndex :
    IF ~Worse(nSequenceId, b, tip) /\ b \in linked
    THEN ~HasInvalidAncestor(b) /\ (HasAllData(b) \/ b = tip) => b \in candidates
    ELSE b \notin candidates

(* The candidate set is exact whenever every activation has returned, after *)
(* any calls of invalidateblock and reconsiderblock but a reconsiderblock   *)
(* above a failed block; with preciousblock, as long as the negative        *)
(* numbers it gives do not repeat.                                          *)
QuietCandidatesExact == Quiet /\ ~fReconsiderAbove => CandidatesExact

(* A block whose data arrived before that of an ancestor waits in           *)
(* mapBlocksUnlinked, and only such blocks wait there; so does, once the    *)
(* activation has returned, a block that lost its place among the           *)
(* candidates to a pruned ancestor.                                         *)
(* The asserts of CheckBlockIndex on foundInUnlinked.                       *)
UnlinkedExact ==
  health = "ok" => \A b \in mapBlockIndex \ {Genesis} :
    LET waits == <<Parent[b], b>> \in unlinked
        hasData == "DATA" \in nStatus[b]
    IN  /\ hasData /\ b \notin linked /\ ~HasInvalidAncestor(b) => waits
        /\ waits => hasData /\ ~HasAllData(b)
        /\ (/\ Quiet /\ hasData /\ b \in linked /\ ~HasAllData(b) /\ ~HasInvalidAncestor(b)
            /\ ~Worse(nSequenceId, b, tip) /\ b \notin candidates) => waits

(* When every ActivateBestChain has returned, no known chain with more work *)
(* (or as much, and earlier) than the active one has all its data stored    *)
(* and no failed block.                                                     *)
(* "The result is either failure or an activated best chain."               *)
BestChainIsActive ==
  Quiet => \A b \in mapBlockIndex : Worse(nSequenceId, tip, b) => Blocking(b) # {}

(* invalidateblock and reconsiderblock, in any order, and preciousblock, as *)
(* above, leave the best usable linked chain active and no failure          *)
(* unexplained, as long as a block is not reconsidered while one below it   *)
(* is failed: reconsidering the block that was invalidated undoes the       *)
(* invalidation.                                                            *)
(* "Remove the invalidity flag from this block and all its descendants."    *)
ManualOpsUndone ==
  ~fReconsiderAbove =>
    /\ FailedHasInvalidAncestor
    /\ Quiet => \A b \in linked : Worse(nSequenceId, tip, b) => Blocking(b) # {}

(* The active chain loses work only in a step that found or was told of an  *)
(* invalid block, or that failed to undo a block.                          *)
WorkLostOnlyToInvalid ==
  [][Work[tip'] < Work[tip] /\ health' = "ok"
     => \E b \in Blocks : "FAILED_VALID" \in nStatus'[b] \ nStatus[b]]_vars

(* The sort key of a block never changes while it is in the ordered set     *)
(* setBlockIndexCandidates; preciousblock takes it out first.               *)
CandidateKeysStable ==
  [][nManual' = nManual =>
       \A b \in candidates \cap candidates' : nSequenceId'[b] = nSequenceId[b]]_vars

(* Every call of ActivateBestChain returns.                                 *)
ActivationReturns ==
  \A t \in Threads : pc[t] = "activate" ~> (pc[t] = "idle" \/ ~Running)
=============================================================================
