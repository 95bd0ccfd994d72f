--------------------------- MODULE BlockTreeProofs ---------------------------
(***************************************************************************)
(* The inductive invariant of BlockTree holds, for every tree of blocks,   *)
(* any number of threads and any bounds. First the facts about its         *)
(* operators: the choices made in finite sets of blocks, the tree, the     *)
(* invariant, and what each part of the code does in a state that          *)
(* satisfies it. Then what BlockTree keeps of its chains: without pruning, *)
(* without RPC calls and without both, with any number of threads; and the *)
(* work of the active chain, with one thread and any pruning and RPC       *)
(* calls. Last what it promises of the chain it activates: whenever the    *)
(* one thread that calls ActivateBestChain has returned, the candidates    *)
(* are exact and the best usable chain is the active one; and which blocks *)
(* wait for an ancestor.                                                   *)
(***************************************************************************)
EXTENDS BlockTree, FiniteSetTheorems, WellFoundedInduction, TLAPS

-----------------------------------------------------------------------------
(* Order: the choices the code makes in a finite set are made from it.      *)

\* A finite nonempty set has a greatest element for a total preorder.
LEMMA FiniteHasGreatest ==
  ASSUME NEW S, IsFiniteSet(S), S # {}, NEW R,
         \A x, y \in S : <<x, y>> \in R \/ <<y, x>> \in R,
         \A x, y, z \in S : <<x, y>> \in R /\ <<y, z>> \in R => <<x, z>> \in R
  PROVE  \E g \in S : \A x \in S : <<x, g>> \in R
  <1> DEFINE Tops(T) == {g \in T : \A x \in T : <<x, g>> \in R}
             Without == {T \in SUBSET S : T # {} /\ Tops(T) = {}}
  <1>1. SUFFICES ASSUME Without # {} PROVE FALSE
    <2>1. S \notin Without
      BY <1>1, Zenon
    <2>2. Tops(S) # {}
      BY <2>1, Zenon
    <2> QED
      BY <2>2, Zenon
  <1>2. PICK T \in Without : \A U \in Without : <<U, T>> \notin StrictSubsetOrdering(S)
    <2>1. IsWellFoundedOn(StrictSubsetOrdering(S), SUBSET S)
      BY Zenon, FS_StrictSubsetOrderingWellFounded, FS_FiniteSubsetsOfFinite
    <2>2. Without \subseteq SUBSET S
      BY Zenon
    <2> HIDE DEF Without
    <2> QED
      BY <1>1, <2>1, <2>2, WFMin, Zenon
  <1>3. PICK x \in T : TRUE
    BY Zenon, <1>2
  <1>4. T \in SUBSET S /\ x \in S
    BY Zenon, <1>2, <1>3
  <1>5. T \ {x} \notin Without
    <2>1. T \ {x} \in SUBSET S /\ T \ {x} \subseteq T /\ T \ {x} # T
      BY Zenon, <1>3, <1>4
    <2>2. <<T \ {x}, T>> \in StrictSubsetOrdering(S)
      BY Zenon, <1>4, <2>1 DEF StrictSubsetOrdering
    <2> QED
      BY <1>2, <2>2, Zenon
  <1>6. CASE T \ {x} = {}
    BY <1>2, <1>3, <1>4, <1>6
  <1>7. CASE T \ {x} # {}
    <2>1. PICK g \in Tops(T \ {x}) : TRUE
      BY Zenon, <1>4, <1>5, <1>7
    <2>2. x \in Tops(T) \/ g \in Tops(T)
      BY Zenon, <2>1, <1>4
    <2> QED
      BY Zenon, <2>2, <1>2
  <1> QED
    BY Zenon, <1>6, <1>7

\* The code's choices of a highest, a lowest and a best block are members of
\* the set they are made in.
LEMMA HighestChosen ==
  ASSUME NEW S \in SUBSET Blocks, S # {}
  PROVE  Highest(S) \in S /\ \A y \in S : Work[y] <= Work[Highest(S)]
  <1> DEFINE R == {p \in S \X S : Work[p[1]] <= Work[p[2]]}
  <1>1. IsFiniteSet(S) /\ \A x \in S : Work[x] \in Nat
    BY Zenon, FS_Subset, TreeAssumption
  <1>2. \A x, y \in S : <<x, y>> \in R <=> Work[x] <= Work[y]
    OBVIOUS
  <1>3. \E g \in S : \A x \in S : <<x, g>> \in R
    <2> HIDE DEF R
    <2>1. \A x, y \in S : <<x, y>> \in R \/ <<y, x>> \in R
      <3>1. \A x, y \in S : Work[x] <= Work[y] \/ Work[y] <= Work[x]
        BY <1>1
      <3> QED BY <1>2, <3>1, Zenon
    <2>2. \A x, y, z \in S : <<x, y>> \in R /\ <<y, z>> \in R => <<x, z>> \in R
      BY <1>1, <1>2
    <2> QED BY Zenon, <1>1, <2>1, <2>2, FiniteHasGreatest
  <1>4. \E g \in S : \A y \in S : Work[y] <= Work[g]
    <2> HIDE DEF R
    <2> QED BY Zenon, <1>2, <1>3
  <1> QED
    BY <1>4, Zenon DEF Highest

\* Lowest chooses a block of the set with none of less work.
LEMMA LowestChosen ==
  ASSUME NEW S \in SUBSET Blocks, S # {}
  PROVE  Lowest(S) \in S /\ \A y \in S : Work[Lowest(S)] <= Work[y]
  <1> DEFINE R == {p \in S \X S : Work[p[2]] <= Work[p[1]]}
  <1>1. IsFiniteSet(S) /\ \A x \in S : Work[x] \in Nat
    BY Zenon, FS_Subset, TreeAssumption
  <1>2. \A x, y \in S : <<x, y>> \in R <=> Work[y] <= Work[x]
    OBVIOUS
  <1>3. \E g \in S : \A x \in S : <<x, g>> \in R
    <2> HIDE DEF R
    <2>1. \A x, y \in S : <<x, y>> \in R \/ <<y, x>> \in R
      <3>1. \A x, y \in S : Work[y] <= Work[x] \/ Work[x] <= Work[y]
        BY <1>1
      <3> QED BY <1>2, <3>1, Zenon
    <2>2. \A x, y, z \in S : <<x, y>> \in R /\ <<y, z>> \in R => <<x, z>> \in R
      BY <1>1, <1>2
    <2> QED BY Zenon, <1>1, <2>1, <2>2, FiniteHasGreatest
  <1>4. \E g \in S : \A y \in S : Work[g] <= Work[y]
    <2> HIDE DEF R
    <2> QED BY Zenon, <1>2, <1>3
  <1> QED
    BY <1>4, Zenon DEF Lowest

\* CBlockIndexWorkComparator is a strict total order on the blocks.
LEMMA WorseIsOrder ==
  ASSUME NEW seq \in [Blocks -> Int]
  PROVE  /\ \A x, y \in Blocks : x = y \/ Worse(seq, x, y) \/ Worse(seq, y, x)
         /\ \A x \in Blocks : ~Worse(seq, x, x)
         /\ \A x, y, z \in Blocks : Worse(seq, x, y) /\ Worse(seq, y, z) => Worse(seq, x, z)
  <1>1. \A x \in Blocks : Work[x] \in Nat /\ seq[x] \in Int /\ Addr[x] \in Nat
    BY Zenon, TreeAssumption
  <1>2. \A x, y \in Blocks : Addr[x] = Addr[y] => x = y
    BY Zenon, TreeAssumption
  <1> QED
    BY <1>1, <1>2 DEF Worse

\* Best chooses the block that all others sort before.
LEMMA BestChosen ==
  ASSUME NEW S \in SUBSET Blocks, S # {}, NEW seq \in [Blocks -> Int]
  PROVE  Best(seq, S) \in S /\ \A y \in S \ {Best(seq, S)} : Worse(seq, y, Best(seq, S))
  <1> DEFINE R == {p \in S \X S : p[1] = p[2] \/ Worse(seq, p[1], p[2])}
  <1>1. IsFiniteSet(S)
    BY Zenon, FS_Subset, TreeAssumption
  <1>2. \A x, y \in S : <<x, y>> \in R <=> x = y \/ Worse(seq, x, y)
    OBVIOUS
  <1>3. \E g \in S : \A x \in S : <<x, g>> \in R
    <2> HIDE DEF R
    <2>1. \A x, y \in S : <<x, y>> \in R \/ <<y, x>> \in R
      BY Zenon, <1>2, WorseIsOrder
    <2>2. \A x, y, z \in S : <<x, y>> \in R /\ <<y, z>> \in R => <<x, z>> \in R
      BY Zenon, <1>2, WorseIsOrder
    <2> QED BY Zenon, <1>1, <2>1, <2>2, FiniteHasGreatest
  <1>4. \E g \in S : \A y \in S \ {g} : Worse(seq, y, g)
    <2> HIDE DEF R
    <2> QED BY Zenon, <1>2, <1>3
  <1> QED
    BY <1>4, Zenon DEF Best

-----------------------------------------------------------------------------
(* The tree. *)

\* Every block but Genesis has a parent, below it and not above it.
LEMMA ParentBelow ==
  ASSUME NEW b \in Blocks \ {Genesis}
  PROVE  /\ Parent[b] \in Blocks
         /\ Parent[b] \in Ancestors[b]
         /\ b \notin Ancestors[Parent[b]]
         /\ Ancestors[b] = Ancestors[Parent[b]] \cup {b}
  BY TreeAssumption

\* The blocks below a block are blocks, and below means a chain.
LEMMA BelowIsChain ==
  ASSUME NEW c \in Blocks
  PROVE  /\ Ancestors[c] \subseteq Blocks
         /\ c \in Ancestors[c] /\ Genesis \in Ancestors[c]
         /\ \A a \in Ancestors[c] : Ancestors[a] \subseteq Ancestors[c]
         /\ \A x, y \in Ancestors[c] : x \in Ancestors[y] \/ y \in Ancestors[x]
  BY Zenon, TreeAssumption

\* Two blocks below each other are one.
LEMMA BelowIsAntisymmetric ==
  ASSUME NEW b \in Blocks, NEW c \in Ancestors[b], b \in Ancestors[c]
  PROVE  b = c
  <1>1. CASE b = Genesis
    BY Zenon, <1>1, TreeAssumption
  <1>2. CASE b # Genesis /\ c # b
    <2>1. c \in Ancestors[Parent[b]] /\ b \notin Ancestors[Parent[b]] /\ Parent[b] \in Blocks
      BY <1>2, ParentBelow
    <2> QED
      BY Zenon, <2>1, BelowIsChain
  <1> QED
    BY Zenon, <1>1, <1>2

-----------------------------------------------------------------------------
(* The inductive invariant. *)

\* The index holds whole branches, and flags only for the blocks in it.
IndexClosed ==
  /\ \A b \in mapBlockIndex : Ancestors[b] \subseteq mapBlockIndex
  /\ \A b \in Blocks \ mapBlockIndex : nStatus[b] = {}

\* A block with nChainTx has been received, and so have all below it.
LinkedDownwards ==
  /\ Genesis \in linked
  /\ \A b \in linked : "TRANSACTIONS" \in nStatus[b] /\ Ancestors[b] \subseteq linked

\* The active chain, the candidates and the targets that threads remember
\* are chains of linked blocks.
ChainsAreLinked ==
  /\ tip \in linked
  /\ candidates \subseteq linked
  /\ \A t \in Threads : /\ mostWork[t] \in linked \cup {NoBlock}
                        /\ pc[t] = "step" => mostWork[t] # NoBlock

\* A block in mapBlocksUnlinked has been received, and waits for its parent.
WaitingIsProcessed ==
  \A p \in unlinked : \E x \in mapBlockIndex \ {Genesis} :
     p = <<Parent[x], x>> /\ "TRANSACTIONS" \in nStatus[x]

TreeInv == TypeOK /\ IndexClosed /\ LinkedDownwards /\ ChainsAreLinked /\ WaitingIsProcessed

\* What FindMostWorkChain returns and discards.
LEMMA DiscardFacts ==
  ASSUME TreeInv
  PROVE  /\ FindMostWorkChain \in candidates \cup {NoBlock}
         /\ \A c \in Discarded :
              /\ c \in candidates /\ Ancestors[c] \subseteq linked
              /\ Highest(Blocking(c)) \in Ancestors[c]
              /\ PathAbove(c) \subseteq Ancestors[c] \ {Genesis}
              /\ \A x \in PathAbove(c) : Highest(Blocking(c)) \in Ancestors[x]
         /\ DiscardedFailed \subseteq Discarded /\ DiscardedMissing \subseteq Discarded
         /\ \A c \in DiscardedFailed : Failed(nStatus, Highest(Blocking(c)))
         /\ DiscardedFailed # {} => Best(nSequenceId, DiscardedFailed) \in DiscardedFailed
  <1>1. candidates \subseteq linked /\ linked \subseteq Blocks /\ nSequenceId \in [Blocks -> Int]
    BY Zenon DEF TreeInv, TypeOK, ChainsAreLinked
  <1>2. UsableCandidates \in SUBSET Blocks /\ UsableCandidates \subseteq candidates
    BY Zenon, <1>1 DEF UsableCandidates
  <1>3. FindMostWorkChain \in candidates \cup {NoBlock}
    BY Zenon, <1>1, <1>2, BestChosen DEF FindMostWorkChain
  <1>4. ASSUME NEW c \in Discarded
        PROVE  /\ c \in candidates /\ Ancestors[c] \subseteq linked
               /\ Highest(Blocking(c)) \in Ancestors[c]
               /\ PathAbove(c) \subseteq Ancestors[c] \ {Genesis}
               /\ \A x \in PathAbove(c) : Highest(Blocking(c)) \in Ancestors[x]
    <2>1. c \in candidates /\ c \in Blocks /\ Blocking(c) # {}
      BY Zenon, <1>1 DEF Discarded, UsableCandidates
    <2>2. Ancestors[c] \subseteq linked
      BY Zenon, <1>1, <2>1 DEF TreeInv, LinkedDownwards
    <2>3. Blocking(c) \subseteq Ancestors[c] /\ Blocking(c) \in SUBSET Blocks
      BY Zenon, <2>1, BelowIsChain DEF Blocking
    <2>4. Highest(Blocking(c)) \in Ancestors[c] /\ Highest(Blocking(c)) \in Blocks
      BY Zenon, <2>1, <2>3, HighestChosen
    <2>5. PathAbove(c) \subseteq Ancestors[c] \ {Genesis}
      BY Zenon, <2>4, BelowIsChain DEF PathAbove
    <2>6. \A x \in PathAbove(c) : Highest(Blocking(c)) \in Ancestors[x]
      BY Zenon, <2>1, <2>4, BelowIsChain DEF PathAbove
    <2> QED
      BY Zenon, <2>1, <2>2, <2>4, <2>5, <2>6
  <1>5. DiscardedFailed \subseteq Discarded /\ DiscardedMissing \subseteq Discarded
    BY Zenon DEF DiscardedFailed, DiscardedMissing
  <1>6. \A c \in DiscardedFailed : Failed(nStatus, Highest(Blocking(c)))
    BY Zenon DEF DiscardedFailed
  <1>7. DiscardedFailed \in SUBSET Blocks
    BY Zenon, <1>1, <1>5 DEF Discarded
  <1>8. DiscardedFailed # {} => Best(nSequenceId, DiscardedFailed) \in DiscardedFailed
    BY Zenon, <1>1, <1>7, BestChosen
  <1> QED
    BY Zenon, <1>3, <1>4, <1>5, <1>6, <1>8

\* The blocks that receiving b links: their ancestors are linked by then.
LEMMA NowLinkedFacts ==
  ASSUME TreeInv, NEW b \in Blocks \ {Genesis}, ParentLinked(b)
  PROVE  /\ NowLinked(b) \in SUBSET Blocks
         /\ b \in NowLinked(b)
         /\ \A c \in NowLinked(b) : Ancestors[c] \subseteq linked \cup NowLinked(b)
         /\ \A c \in NowLinked(b) \ {b} : <<Parent[c], c>> \in unlinked /\ c # Genesis
         /\ \A c \in NowLinked(b) \ {b} : c \in mapBlockIndex /\ "TRANSACTIONS" \in nStatus[c]
         /\ Cardinality(NowLinked(b)) \in Nat
  <1>1. NowLinked(b) \in SUBSET Blocks /\ b \in NowLinked(b)
    BY Zenon, BelowIsChain DEF NowLinked
  <1>2. ASSUME NEW c \in NowLinked(b), NEW a \in Ancestors[c]
        PROVE  a \in linked \cup NowLinked(b)
    <2>1. /\ c \in Blocks /\ b \in Ancestors[c] /\ a \in Blocks
          /\ Ancestors[a] \subseteq Ancestors[c]
          /\ a \in Ancestors[b] \/ b \in Ancestors[a]
      BY Zenon, BelowIsChain DEF NowLinked
    <2>2. CASE a \in Ancestors[b]
      <3>1. a = b \/ a \in Ancestors[Parent[b]]
        BY <2>2, ParentBelow
      <3>2. Ancestors[Parent[b]] \subseteq linked
        BY Zenon DEF TreeInv, LinkedDownwards, ParentLinked
      <3> QED
        BY Zenon, <1>1, <3>1, <3>2
    <2>3. CASE b \in Ancestors[a]
      BY Zenon, <2>1, <2>3 DEF NowLinked
    <2> QED
      BY Zenon, <2>1, <2>2, <2>3
  <1>3. ASSUME NEW c \in NowLinked(b) \ {b}
        PROVE  <<Parent[c], c>> \in unlinked /\ c # Genesis
    <2>1. c \in Blocks /\ b \in Ancestors[c] /\ c \in Ancestors[c] /\ Genesis \in Ancestors[b]
      BY Zenon, BelowIsChain DEF NowLinked
    <2>2. c \notin Ancestors[b]
      BY Zenon, <2>1, BelowIsAntisymmetric
    <2> QED
      BY Zenon, <2>1, <2>2 DEF NowLinked
  <1>4. ASSUME NEW c \in NowLinked(b) \ {b}
        PROVE  c \in mapBlockIndex /\ "TRANSACTIONS" \in nStatus[c]
    <2>1. PICK x \in mapBlockIndex \ {Genesis} :
             <<Parent[c], c>> = <<Parent[x], x>> /\ "TRANSACTIONS" \in nStatus[x]
      BY Zenon, <1>3 DEF TreeInv, WaitingIsProcessed
    <2> QED
      BY Zenon, <2>1
  <1>5. Cardinality(NowLinked(b)) \in Nat
    BY Zenon, <1>1, FS_Subset, FS_CardinalityType, TreeAssumption
  <1> QED
    BY Zenon, <1>1, <1>2, <1>3, <1>4, <1>5

\* The flags after a step that only sets or clears some, on blocks of the index.
LEMMA FlagTypes ==
  ASSUME NEW status \in [Blocks -> SUBSET Flags], NEW S, NEW flags \in SUBSET Flags
  PROVE  /\ Raise(status, S, flags) \in [Blocks -> SUBSET Flags]
         /\ Clear(status, S, flags) \in [Blocks -> SUBSET Flags]
         /\ \A b \in Blocks : Raise(status, S, flags)[b] =
                                IF b \in S THEN status[b] \cup flags ELSE status[b]
         /\ \A b \in Blocks : Clear(status, S, flags)[b] =
                                IF b \in S THEN status[b] \ flags ELSE status[b]
  BY Zenon DEF Raise, Clear

\* AcceptBlockHeader leaves an entry for b, not failed, on a branch of the index.
LEMMA HeaderFacts ==
  ASSUME TreeInv, NEW b \in Blocks \ {Genesis}, HeaderAccepted(b), AddToBlockIndex(b)
  PROVE  /\ mapBlockIndex' = mapBlockIndex \cup {b}
         /\ \A c \in mapBlockIndex' : Ancestors[c] \subseteq mapBlockIndex'
         /\ pindexBestHeader' \in mapBlockIndex'
         /\ ~Failed(nStatus, b)
  <1>1. mapBlockIndex' = mapBlockIndex \cup {b} /\ pindexBestHeader' \in {pindexBestHeader, b}
    BY Zenon DEF AddToBlockIndex
  <1>2. pindexBestHeader \in mapBlockIndex
    BY Zenon DEF TreeInv, TypeOK
  <1>3. CASE b \in mapBlockIndex
    BY Zenon, <1>1, <1>2, <1>3 DEF HeaderAccepted, TreeInv, IndexClosed
  <1>4. CASE b \notin mapBlockIndex
    <2>1. Parent[b] \in mapBlockIndex
      BY Zenon, <1>4 DEF HeaderAccepted
    <2>2. Ancestors[b] \subseteq mapBlockIndex \cup {b}
      BY <2>1, ParentBelow DEF TreeInv, IndexClosed
    <2>3. nStatus[b] = {}
      BY Zenon, <1>4 DEF TreeInv, IndexClosed
    <2> QED
      BY Zenon, <1>1, <1>2, <2>2, <2>3 DEF TreeInv, IndexClosed, Failed
  <1> QED
    BY Zenon, <1>3, <1>4

\* The flags that AcceptBlock may leave.
LEMMA ReceivedStatus ==
  ASSUME TreeInv, NEW b \in Blocks, NEW flags \in SUBSET Flags,
         nStatus' = Raise(nStatus, {b}, flags)
  PROVE  /\ nStatus' \in [Blocks -> SUBSET Flags]
         /\ \A c \in Blocks : nStatus[c] \subseteq nStatus'[c]
         /\ \A c \in Blocks \ {b} : nStatus'[c] = nStatus[c]
         /\ nStatus'[b] = nStatus[b] \cup flags
  <1>1. nStatus \in [Blocks -> SUBSET Flags]
    BY Zenon DEF TreeInv, TypeOK
  <1>2. \A c \in Blocks : nStatus'[c] = IF c = b THEN nStatus[c] \cup flags ELSE nStatus[c]
    BY Zenon DEF Raise
  <1>3. nStatus' \in [Blocks -> SUBSET Flags]
    BY Zenon, <1>1 DEF Raise
  <1> QED
    BY Zenon, <1>2, <1>3

\* What ReceivedBlockTransactions leaves in the variables it writes.
LEMMA ReceivedFacts ==
  ASSUME TreeInv, NEW b \in Blocks \ {Genesis}, ReceivedBlockTransactions(b)
  PROVE  LET queue == IF ParentLinked(b) THEN NowLinked(b) ELSE {}
         IN  /\ nStatus' = Raise(nStatus, {b}, {"DATA", "TRANSACTIONS"})
             /\ linked' = linked \cup queue
             /\ candidates \subseteq candidates' /\ candidates' \subseteq candidates \cup queue
             /\ \A x \in Blocks \ queue : nSequenceId'[x] = nSequenceId[x]
             /\ nSequenceId' \in [Blocks -> Int]
             /\ nBlockSequenceId' \in Nat
             /\ \A p \in unlinked' : p \in unlinked \/ p = <<Parent[b], b>>
             /\ \A p \in unlinked : p \in unlinked' \/ (ParentLinked(b) /\ p[1] \in queue)
             /\ ~ParentLinked(b) /\ ~Failed(nStatus, Parent[b]) => <<Parent[b], b>> \in unlinked'
  <1> DEFINE queue == IF ParentLinked(b) THEN NowLinked(b) ELSE {}
  <1>1. queue \in SUBSET Blocks /\ Cardinality(queue) \in Nat
    BY NowLinkedFacts, FS_EmptySet
  <1>2. nSequenceId \in [Blocks -> Int] /\ nBlockSequenceId \in Nat
    BY Zenon DEF TreeInv, TypeOK
  <1>3. PICK f \in Arrivals(queue) :
          LET seq == [x \in Blocks |-> IF x \in queue THEN f[x] ELSE nSequenceId[x]]
          IN  /\ nSequenceId' = seq
              /\ candidates' = candidates \cup {x \in queue : ~Worse(seq, x, tip)}
    BY Zenon DEF ReceivedBlockTransactions
  <1>4. \A x \in queue : f[x] \in Int
    BY <1>1, <1>2, <1>3 DEF Arrivals
  <1>5. nSequenceId' \in [Blocks -> Int] /\ \A x \in Blocks \ queue : nSequenceId'[x] = nSequenceId[x]
    <2> HIDE DEF queue
    <2> QED BY Zenon, <1>2, <1>3, <1>4
  <1>6. candidates \subseteq candidates' /\ candidates' \subseteq candidates \cup queue
    <2> HIDE DEF queue
    <2> QED BY Zenon, <1>3
  <1>7. nBlockSequenceId' = nBlockSequenceId + Cardinality(queue) /\ linked' = linked \cup queue
    BY Zenon DEF ReceivedBlockTransactions
  <1>8. nBlockSequenceId' \in Nat
    <2> HIDE DEF queue
    <2> QED BY <1>1, <1>2, <1>7
  <1>9. /\ \A p \in unlinked' : p \in unlinked \/ p = <<Parent[b], b>>
        /\ \A p \in unlinked : p \in unlinked' \/ (ParentLinked(b) /\ p[1] \in queue)
        /\ ~ParentLinked(b) /\ ~Failed(nStatus, Parent[b]) => <<Parent[b], b>> \in unlinked'
    BY Zenon DEF ReceivedBlockTransactions
  <1>10. nStatus' = Raise(nStatus, {b}, {"DATA", "TRANSACTIONS"})
    BY Zenon DEF ReceivedBlockTransactions
  <1> QED
    BY Zenon, <1>5, <1>6, <1>7, <1>8, <1>9, <1>10

\* The block at which a step stops lies on the branch of the target.
LEMMA StopsAtFacts ==
  ASSUME TreeInv, NEW t \in Threads, pc[t] = "step", mostWork[t] \notin Ancestors[tip]
  PROVE  /\ mostWork[t] \in linked
         /\ StopsAt(t) \in Ancestors[mostWork[t]] \ Ancestors[tip]
         /\ StopsAt(t) \in linked \ {Genesis}
         /\ Parent[StopsAt(t)] \in linked
  <1> DEFINE S == {x \in Ancestors[mostWork[t]] \ Ancestors[tip] :
                     \/ Work[x] > Work[tip] \/ x = mostWork[t]
                     \/ x \in BadConnect \/ "DATA" \notin nStatus[x]}
  <1>1. mostWork[t] \in linked /\ tip \in linked /\ linked \subseteq Blocks
    BY Zenon DEF TreeInv, TypeOK, ChainsAreLinked
  <1>2. S # {} /\ S \in SUBSET Blocks
    BY Zenon, <1>1, BelowIsChain
  <1>3. StopsAt(t) \in S
    <2>1. StopsAt(t) = Lowest(S)
      BY Zenon DEF StopsAt
    <2> HIDE DEF S
    <2> QED BY Zenon, <1>2, <2>1, LowestChosen
  <1>4. StopsAt(t) \in Ancestors[mostWork[t]] \ Ancestors[tip]
    BY Zenon, <1>3
  <1>5. StopsAt(t) \in linked \ {Genesis}
    BY Zenon, <1>1, <1>4, BelowIsChain DEF TreeInv, LinkedDownwards
  <1>6. Parent[StopsAt(t)] \in linked
    BY Zenon, <1>1, <1>5, ParentBelow DEF TreeInv, LinkedDownwards
  <1> QED
    BY Zenon, <1>1, <1>4, <1>5, <1>6

\* What StepForward leaves: the new tip, the flags, the target.
LEMMA ForwardFacts ==
  ASSUME TreeInv, NEW t \in Threads, StepForward(t)
  PROVE  LET stop == StopsAt(t)
         IN  /\ stop \in linked \ {Genesis} /\ tip' \in linked
             /\ nStatus' \in [Blocks -> SUBSET Flags]
             /\ \A c \in Blocks : nStatus[c] \subseteq nStatus'[c]
             /\ \A c \in Blocks \ linked : nStatus'[c] = nStatus[c]
             /\ \A c \in Blocks : nStatus'[c] \cap {"TRANSACTIONS", "FAILED_CHILD", "DATA"}
                                  = nStatus[c] \cap {"TRANSACTIONS", "FAILED_CHILD", "DATA"}
             /\ \A c \in Blocks \ {stop} : "FAILED_VALID" \in nStatus'[c] => "FAILED_VALID" \in nStatus[c]
             /\ candidates' \subseteq candidates
             /\ pindexBestInvalid' \in {pindexBestInvalid, stop}
             /\ health' \in {health, "aborted"}
  <1> DEFINE stop == StopsAt(t)
             target == mostWork[t]
             missing == "DATA" \notin nStatus[stop]
             invalid == ~missing /\ stop \in BadConnect
             newTip == IF missing \/ invalid THEN Parent[stop] ELSE stop
             new == Ancestors[newTip] \ Ancestors[Fork(target)]
             connected == Connected(nStatus, new)
             pruned == IF new = {} THEN candidates ELSE PruneBlockIndexCandidates(candidates, newTip)
  <1>1. /\ pc[t] = "step" /\ target \notin Ancestors[tip]
        /\ tip' = newTip
        /\ nStatus' = IF invalid THEN MarkInvalid(connected, stop) ELSE connected
        /\ candidates' = IF invalid THEN pruned \ {stop} ELSE pruned
        /\ pindexBestInvalid' = IF invalid THEN WithInvalid(pindexBestInvalid, stop) ELSE pindexBestInvalid
        /\ health' = IF missing THEN "aborted" ELSE health
    BY Zenon DEF StepForward
  <1>2. stop \in linked \ {Genesis} /\ Parent[stop] \in linked
    BY Zenon, <1>1, StopsAtFacts
  <1>3. newTip \in linked
    BY Zenon, <1>2
  <1>4. new \subseteq linked /\ linked \subseteq Blocks /\ nStatus \in [Blocks -> SUBSET Flags]
    BY Zenon, <1>3 DEF TreeInv, TypeOK, LinkedDownwards
  <1> HIDE DEF new
  <1>5. /\ connected \in [Blocks -> SUBSET Flags]
        /\ \A c \in Blocks \ new : connected[c] = nStatus[c]
        /\ \A c \in Blocks : connected[c] \in {nStatus[c], nStatus[c] \cup {"UNDO"},
                                               nStatus[c] \cup {"UNDO"} \cup {"SCRIPTS"}}
    <2>1. {"UNDO"} \in SUBSET Flags /\ {"SCRIPTS"} \in SUBSET Flags
      BY Zenon DEF Flags
    <2> QED
      BY Zenon, <1>4, <2>1 DEF Connected
  <1> HIDE DEF connected
  <1>6. /\ nStatus' \in [Blocks -> SUBSET Flags]
        /\ \A c \in Blocks : nStatus'[c] = IF invalid /\ c = stop THEN connected[c] \cup {"FAILED_VALID"}
                                           ELSE connected[c]
    <2>1. {"FAILED_VALID"} \in SUBSET Flags
      BY Zenon DEF Flags
    <2>2. nStatus' = IF invalid THEN Raise(connected, {stop}, {"FAILED_VALID"}) ELSE connected
      BY Zenon, <1>1 DEF MarkInvalid
    <2> HIDE DEF invalid, stop
    <2> QED BY Zenon, <1>5, <2>1, <2>2 DEF Raise
  <1>7. candidates' \subseteq candidates
    BY Zenon, <1>1 DEF PruneBlockIndexCandidates
  <1>8. pindexBestInvalid' \in {pindexBestInvalid, stop} /\ health' \in {health, "aborted"}
    BY Zenon, <1>1 DEF WithInvalid
  <1> HIDE DEF stop
  <1>9. /\ \A c \in Blocks : nStatus[c] \subseteq nStatus'[c]
        /\ \A c \in Blocks \ linked : nStatus'[c] = nStatus[c]
        /\ \A c \in Blocks : nStatus'[c] \cap {"TRANSACTIONS", "FAILED_CHILD", "DATA"}
                             = nStatus[c] \cap {"TRANSACTIONS", "FAILED_CHILD", "DATA"}
        /\ \A c \in Blocks \ {stop} : "FAILED_VALID" \in nStatus'[c] => "FAILED_VALID" \in nStatus[c]
    BY <1>2, <1>4, <1>5, <1>6
  <1> QED
    BY Zenon, <1>1, <1>2, <1>3, <1>6, <1>7, <1>8, <1>9 DEF stop


-----------------------------------------------------------------------------
(* Every action keeps the invariant. *)

\* The state after the first start.
LEMMA InitTree == Init => TreeInv
  <1> SUFFICES ASSUME Init PROVE TreeInv
    OBVIOUS
  <1>1. TypeOK
    <2>1. nStatus \in [Blocks -> SUBSET Flags] /\ nSequenceId \in [Blocks -> Int]
      BY DEF Init, Flags
    <2>2. nManual \in 0 .. MaxManual /\ nPruned \in 0 .. MaxPrune
      BY TreeAssumption DEF Init
    <2>3. nBlockSequenceId \in Nat /\ nBlockReverseSequenceId \in Int /\ nLastPreciousChainwork \in Nat
      BY DEF Init
    <2>4. pc \in [Threads -> {"idle", "activate", "step"}]
      BY Zenon DEF Init
    <2>5. mostWork \in [Threads -> mapBlockIndex \cup {NoBlock}]
      BY Zenon DEF Init
    <2> QED
      BY Zenon, <2>1, <2>2, <2>3, <2>4, <2>5, TreeAssumption DEF Init, TypeOK
  <1>2. IndexClosed
    BY Zenon, TreeAssumption DEF Init, IndexClosed
  <1>3. LinkedDownwards
    BY Zenon, TreeAssumption DEF Init, LinkedDownwards
  <1>4. ChainsAreLinked
    BY Zenon, TreeAssumption DEF Init, ChainsAreLinked
  <1>5. WaitingIsProcessed
    BY Zenon DEF Init, WaitingIsProcessed
  <1> QED
    BY Zenon, <1>1, <1>2, <1>3, <1>4, <1>5 DEF TreeInv

\* A step that neither links a block nor takes back that one was received
\* keeps the conjuncts on the index.
LEMMA SameLinks ==
  ASSUME TreeInv,
         mapBlockIndex' = mapBlockIndex, linked' = linked,
         nStatus' \in [Blocks -> SUBSET Flags],
         \A b \in Blocks : "TRANSACTIONS" \in nStatus[b] => "TRANSACTIONS" \in nStatus'[b],
         \A b \in Blocks \ mapBlockIndex : nStatus'[b] = {},
         \A p \in unlinked' : p \in unlinked \/ \E x \in linked \ {Genesis} : p = <<Parent[x], x>>
  PROVE  /\ IndexClosed' /\ LinkedDownwards' /\ WaitingIsProcessed'
         /\ unlinked' \subseteq Blocks \X Blocks
  <1>0. linked \subseteq mapBlockIndex /\ mapBlockIndex \subseteq Blocks
    BY Zenon DEF TreeInv, TypeOK
  <1>1. IndexClosed'
    BY Zenon DEF TreeInv, IndexClosed
  <1>2. LinkedDownwards'
    BY Zenon, <1>0 DEF TreeInv, LinkedDownwards
  <1>3. WaitingIsProcessed'
    <2> SUFFICES ASSUME NEW p \in unlinked'
                 PROVE  \E x \in mapBlockIndex \ {Genesis} :
                          p = <<Parent[x], x>> /\ "TRANSACTIONS" \in nStatus'[x]
      BY Zenon DEF WaitingIsProcessed
    <2>1. CASE p \in unlinked
      BY Zenon, <1>0, <2>1 DEF TreeInv, WaitingIsProcessed
    <2>2. CASE \E x \in linked \ {Genesis} : p = <<Parent[x], x>>
      BY Zenon, <1>0, <2>2 DEF TreeInv, LinkedDownwards
    <2> QED
      BY Zenon, <2>1, <2>2
  <1>4. unlinked' \subseteq Blocks \X Blocks
    BY <1>0, <1>3, ParentBelow DEF WaitingIsProcessed
  <1> QED
    BY Zenon, <1>1, <1>2, <1>3, <1>4

\* A new header extends the index by a child of an indexed block.
LEMMA HeaderKeepsTree ==
  ASSUME TreeInv, NEW b \in Blocks, ProcessNewBlockHeader(b)
  PROVE  TreeInv'
  <1>1. /\ mapBlockIndex' = mapBlockIndex \cup {b} /\ b \notin mapBlockIndex
        /\ b # Genesis /\ Parent[b] \in mapBlockIndex
        /\ pindexBestHeader' \in {pindexBestHeader, b}
        /\ UNCHANGED <<nStatus, linked, nSequenceId, nBlockSequenceId, nBlockReverseSequenceId,
                       nLastPreciousChainwork, candidates, unlinked, tip, pindexBestInvalid,
                       csMain, pc, mostWork, health, nManual, nPruned, fReconsiderAbove>>
    BY Zenon DEF ProcessNewBlockHeader, HeaderAccepted, AddToBlockIndex, ids, precious, threads, manual
  <1>2. TypeOK'
    BY Zenon, <1>1 DEF TreeInv, TypeOK
  <1>3. IndexClosed'
    BY <1>1, ParentBelow DEF TreeInv, IndexClosed
  <1>4. LinkedDownwards'
    BY Zenon, <1>1 DEF TreeInv, LinkedDownwards
  <1>5. ChainsAreLinked'
    BY Zenon, <1>1 DEF TreeInv, ChainsAreLinked
  <1>6. WaitingIsProcessed'
    BY Zenon, <1>1 DEF TreeInv, WaitingIsProcessed
  <1> QED
    BY Zenon, <1>2, <1>3, <1>4, <1>5, <1>6 DEF TreeInv

\* Pruning clears flags of stored data and forgets a pruned block that waits.
LEMMA PruneKeepsTree ==
  ASSUME TreeInv, NEW b \in Blocks, PruneOneBlockFile(b)
  PROVE  TreeInv'
  <1>0. nStatus \in [Blocks -> SUBSET Flags] /\ {"DATA", "UNDO"} \in SUBSET Flags
    BY Zenon DEF TreeInv, TypeOK, Flags
  <1>1. /\ nStatus' = Clear(nStatus, {b}, {"DATA", "UNDO"})
        /\ unlinked' \subseteq unlinked
        /\ nPruned' = nPruned + 1 /\ nPruned < MaxPrune
        /\ UNCHANGED <<mapBlockIndex, linked, nSequenceId, nBlockSequenceId,
                       nBlockReverseSequenceId, nLastPreciousChainwork, candidates, tip,
                       pindexBestHeader, pindexBestInvalid, csMain, pc, mostWork, health,
                       nManual, fReconsiderAbove>>
    BY Zenon DEF PruneOneBlockFile, UnlinkedAfterPrune, ids, precious, threads, manual
  <1>2. nStatus' \in [Blocks -> SUBSET Flags]
    BY <1>0, <1>1, FlagTypes
  <1>3. /\ \A c \in Blocks : "TRANSACTIONS" \in nStatus[c] => "TRANSACTIONS" \in nStatus'[c]
        /\ \A c \in Blocks \ mapBlockIndex : nStatus'[c] = {}
    <2>1. \A c \in Blocks : nStatus'[c] = IF c = b THEN nStatus[c] \ {"DATA", "UNDO"} ELSE nStatus[c]
      BY Zenon, <1>0, <1>1 DEF Clear
    <2> QED
      BY Zenon, <2>1 DEF TreeInv, IndexClosed
  <1>4. /\ IndexClosed' /\ LinkedDownwards' /\ WaitingIsProcessed'
        /\ unlinked' \subseteq Blocks \X Blocks
    BY Zenon, <1>1, <1>2, <1>3, SameLinks
  <1>5. TypeOK'
    <2>1. nPruned' \in 0 .. MaxPrune
      BY <1>1, TreeAssumption DEF TreeInv, TypeOK
    <2> QED
      BY Zenon, <1>1, <1>2, <1>4, <2>1 DEF TreeInv, TypeOK
  <1>6. ChainsAreLinked'
    BY Zenon, <1>1 DEF TreeInv, ChainsAreLinked
  <1> QED
    BY Zenon, <1>4, <1>5, <1>6 DEF TreeInv

\* A block that arrives is refused, found invalid, or received and linked.
LEMMA BlockKeepsTree ==
  ASSUME TreeInv, NEW t \in Threads, NEW b \in Blocks, NEW fRequested \in BOOLEAN,
         ProcessNewBlock(t, b, fRequested)
  PROVE  TreeInv'
  <1>1. /\ b \in Blocks \ {Genesis} /\ HeaderAccepted(b) /\ AddToBlockIndex(b)
        /\ UNCHANGED <<tip, nBlockReverseSequenceId, nLastPreciousChainwork, pindexBestInvalid,
                       csMain, mostWork, health, nManual, fReconsiderAbove, nPruned>>
        /\ pc' \in {pc, [pc EXCEPT ![t] = "activate"]}
    BY Zenon DEF ProcessNewBlock, precious, manual
  <1>2. /\ mapBlockIndex' = mapBlockIndex \cup {b}
        /\ \A c \in mapBlockIndex' : Ancestors[c] \subseteq mapBlockIndex'
        /\ pindexBestHeader' \in mapBlockIndex'
    BY Zenon, <1>1, HeaderFacts
  <1>3. /\ pc' \in [Threads -> {"idle", "activate", "step"}]
        /\ \A u \in Threads : pc'[u] = "step" => pc[u] = "step"
    BY Zenon, <1>1 DEF TreeInv, TypeOK
  <1>4. SUFFICES /\ nStatus' \in [Blocks -> SUBSET Flags]
                 /\ \A c \in Blocks : nStatus[c] \subseteq nStatus'[c]
                 /\ \A c \in Blocks \ {b} : nStatus'[c] = nStatus[c]
                 /\ linked \subseteq linked' /\ linked' \subseteq mapBlockIndex'
                 /\ \A c \in linked' \ linked :
                       "TRANSACTIONS" \in nStatus'[c] /\ Ancestors[c] \subseteq linked'
                 /\ candidates' \subseteq linked'
                 /\ nSequenceId' \in [Blocks -> Int] /\ nBlockSequenceId' \in Nat
                 /\ \A p \in unlinked' :
                       p \in unlinked \/ (p = <<Parent[b], b>> /\ "TRANSACTIONS" \in nStatus'[b])
    <2>1. IndexClosed'
      BY Zenon, <1>2, <1>4 DEF TreeInv, IndexClosed
    <2>2. LinkedDownwards'
      <3>1. linked \subseteq Blocks
        BY Zenon DEF TreeInv, TypeOK
      <3> QED
        BY Zenon, <1>4, <3>1 DEF TreeInv, LinkedDownwards
    <2>3. ChainsAreLinked'
      BY Zenon, <1>1, <1>3, <1>4 DEF TreeInv, ChainsAreLinked
    <2>4. WaitingIsProcessed'
      <3>1. mapBlockIndex \subseteq Blocks
        BY Zenon DEF TreeInv, TypeOK
      <3> QED
        BY Zenon, <1>1, <1>2, <1>4, <3>1 DEF TreeInv, WaitingIsProcessed
    <2>5. TypeOK'
      <3>1. mapBlockIndex' \subseteq Blocks /\ mapBlockIndex \subseteq mapBlockIndex'
        BY Zenon, <1>1, <1>2 DEF TreeInv, TypeOK
      <3>2. unlinked' \subseteq Blocks \X Blocks
        BY <3>1, <2>4, ParentBelow DEF WaitingIsProcessed
      <3>3. mostWork' \in [Threads -> mapBlockIndex' \cup {NoBlock}]
        BY Zenon, <1>1, <3>1 DEF TreeInv, TypeOK
      <3> QED
        BY Zenon, <1>1, <1>2, <1>3, <1>4, <3>1, <3>2, <3>3 DEF TreeInv, TypeOK
    <2> QED
      BY Zenon, <2>1, <2>2, <2>3, <2>4, <2>5 DEF TreeInv
  <1>5. CASE UNCHANGED <<linked, candidates, unlinked, nSequenceId, nBlockSequenceId>>
             /\ nStatus' \in {nStatus, MarkInvalid(nStatus, b)}
    <2>1. nStatus \in [Blocks -> SUBSET Flags] /\ {"FAILED_VALID"} \in SUBSET Flags
      BY Zenon DEF TreeInv, TypeOK, Flags
    <2>2. /\ nStatus' \in [Blocks -> SUBSET Flags]
          /\ \A c \in Blocks : nStatus[c] \subseteq nStatus'[c]
          /\ \A c \in Blocks \ {b} : nStatus'[c] = nStatus[c]
      <3>1. CASE nStatus' = nStatus
        BY Zenon, <2>1, <3>1
      <3>2. CASE nStatus' = Raise(nStatus, {b}, {"FAILED_VALID"})
        BY Zenon, <2>1, <3>2, ReceivedStatus
      <3> QED
        BY Zenon, <1>5, <3>1, <3>2 DEF MarkInvalid
    <2> QED
      BY Zenon, <1>2, <1>5, <2>2 DEF TreeInv, TypeOK, ChainsAreLinked
  <1>6. CASE ReceivedBlockTransactions(b)
    <2> DEFINE queue == IF ParentLinked(b) THEN NowLinked(b) ELSE {}
    <2>1. /\ nStatus' = Raise(nStatus, {b}, {"DATA", "TRANSACTIONS"})
          /\ linked' = linked \cup queue
          /\ candidates' \subseteq candidates \cup queue
          /\ nSequenceId' \in [Blocks -> Int]
          /\ nBlockSequenceId' \in Nat
          /\ \A p \in unlinked' : p \in unlinked \/ p = <<Parent[b], b>>
      BY Zenon, <1>1, <1>6, ReceivedFacts
    <2>2. /\ nStatus' \in [Blocks -> SUBSET Flags]
          /\ \A c \in Blocks : nStatus[c] \subseteq nStatus'[c]
          /\ \A c \in Blocks \ {b} : nStatus'[c] = nStatus[c]
          /\ "TRANSACTIONS" \in nStatus'[b]
      <3>1. {"DATA", "TRANSACTIONS"} \in SUBSET Flags
        BY Zenon DEF Flags
      <3>2. nStatus' = Raise(nStatus, {b}, {"DATA", "TRANSACTIONS"})
        BY <2>1, Zenon
      <3>3. /\ nStatus' \in [Blocks -> SUBSET Flags]
            /\ \A c \in Blocks : nStatus[c] \subseteq nStatus'[c]
            /\ \A c \in Blocks \ {b} : nStatus'[c] = nStatus[c]
            /\ nStatus'[b] = nStatus[b] \cup {"DATA", "TRANSACTIONS"}
        BY <3>1, <3>2, ReceivedStatus, Zenon
      <3> QED
        BY Zenon, <3>3
    <2>3. /\ queue \in SUBSET Blocks
          /\ \A c \in queue : Ancestors[c] \subseteq linked \cup queue
          /\ \A c \in queue \ {b} : c \in mapBlockIndex /\ "TRANSACTIONS" \in nStatus[c]
      BY Zenon, <1>1, NowLinkedFacts
    <2>4. candidates \subseteq linked /\ linked \subseteq mapBlockIndex
      BY Zenon DEF TreeInv, TypeOK, ChainsAreLinked
    <2> HIDE DEF queue
    <2> QED
      BY Zenon, <1>2, <2>1, <2>2, <2>3, <2>4
  <1> QED
    BY Zenon, <1>5, <1>6 DEF ProcessNewBlock, ids

\* An RPC keeps the invariant if the variables it writes itself stay in it.
LEMMA ManualKeepsTree ==
  ASSUME TreeInv, NEW t \in Threads, NEW op, NEW b \in Blocks, ManualOp(t, op, b),
         nStatus' \in [Blocks -> SUBSET Flags],
         \A c \in Blocks : "TRANSACTIONS" \in nStatus[c] => "TRANSACTIONS" \in nStatus'[c],
         \A c \in Blocks \ mapBlockIndex : nStatus'[c] = {},
         tip' \in linked, candidates' \subseteq linked,
         nSequenceId' \in [Blocks -> Int],
         nBlockReverseSequenceId' \in Int, nLastPreciousChainwork' \in Nat,
         pindexBestInvalid' \in mapBlockIndex \cup {NoBlock},
         health' \in {"ok", "failed", "aborted"}
  PROVE  TreeInv'
  <1>1. /\ UNCHANGED <<mapBlockIndex, linked, nBlockSequenceId, unlinked, pindexBestHeader,
                       csMain, mostWork, nPruned>>
        /\ pc' = [pc EXCEPT ![t] = "activate"]
        /\ nManual < MaxManual /\ nManual' = nManual + 1
        /\ fReconsiderAbove' = \/ fReconsiderAbove
                               \/ op = "reconsider" /\ \E a \in Ancestors[b] \ {b} : Failed(nStatus, a)
    BY Zenon DEF ManualOp
  <1>2. IndexClosed' /\ LinkedDownwards' /\ WaitingIsProcessed'
    BY Zenon, <1>1, SameLinks
  <1>3. /\ pc' \in [Threads -> {"idle", "activate", "step"}]
        /\ \A u \in Threads : pc'[u] = "step" => pc[u] = "step"
    BY Zenon, <1>1 DEF TreeInv, TypeOK
  <1>4. ChainsAreLinked'
    BY Zenon, <1>1, <1>3 DEF TreeInv, ChainsAreLinked
  <1>5. TypeOK'
    <2>1. nManual' \in 0 .. MaxManual
      BY <1>1, TreeAssumption DEF TreeInv, TypeOK
    <2>2. fReconsiderAbove' \in BOOLEAN
      BY Zenon, <1>1
    <2>3. linked \subseteq mapBlockIndex
      BY Zenon DEF TreeInv, TypeOK
    <2> QED
      BY Zenon, <1>1, <1>3, <2>1, <2>2, <2>3 DEF TreeInv, TypeOK
  <1> QED
    BY Zenon, <1>2, <1>4, <1>5 DEF TreeInv

\* invalidateblock moves the tip down the active chain and flags blocks.
LEMMA InvalidateKeepsTree ==
  ASSUME TreeInv, NEW t \in Threads, NEW b \in Blocks, InvalidateBlock(t, b)
  PROVE  TreeInv'
  <1> DEFINE above == {x \in Ancestors[tip] : b \in Ancestors[x]}
             stuck == Stuck(above)
             walked == IF stuck = {} THEN above
                       ELSE {x \in above : Highest(stuck) \in Ancestors[x]}
             status == Raise(MarkInvalid(nStatus, b), walked, {"FAILED_CHILD"})
             erased == candidates \ (walked \cup {b})
             newTip == IF above = {} THEN tip ELSE Parent[b]
  <1>1. /\ ManualOp(t, "invalidate", b) /\ b # Genesis /\ b \in mapBlockIndex
        /\ nStatus' = status
        /\ UNCHANGED <<nSequenceId, nBlockReverseSequenceId, nLastPreciousChainwork>>
    BY Zenon DEF InvalidateBlock, precious, ManualOp
  <1>2. \/ /\ tip' = newTip
           /\ candidates' = erased \cup Readded(status, newTip)
           /\ pindexBestInvalid' = WithInvalid(pindexBestInvalid, b)
           /\ health' = health
        \/ /\ stuck # {} /\ tip' = Highest(stuck)
           /\ candidates' = erased
           /\ health' = UndoFailure(Highest(stuck))
           /\ pindexBestInvalid' = pindexBestInvalid
    BY Zenon DEF InvalidateBlock
  <1>3. /\ nStatus \in [Blocks -> SUBSET Flags]
        /\ tip \in linked /\ linked \subseteq mapBlockIndex /\ mapBlockIndex \subseteq Blocks
        /\ candidates \subseteq linked
        /\ pindexBestInvalid \in mapBlockIndex \cup {NoBlock}
        /\ health \in {"ok", "failed", "aborted"}
    BY Zenon DEF TreeInv, TypeOK, ChainsAreLinked
  <1>4. /\ above \subseteq Ancestors[tip] /\ Ancestors[tip] \subseteq linked
        /\ stuck \subseteq above /\ walked \subseteq above
    BY Zenon, <1>3 DEF TreeInv, LinkedDownwards, Stuck
  <1>5. newTip \in linked
    <2>1. CASE above = {}
      BY Zenon, <1>3, <2>1
    <2>2. CASE above # {}
      <3>1. b \in Ancestors[tip]
        BY Zenon, <1>3, <2>2, BelowIsChain
      <3>2. Parent[b] \in Ancestors[b] /\ Ancestors[b] \subseteq Ancestors[tip]
        BY Zenon, <1>1, <1>3, <3>1, ParentBelow, BelowIsChain
      <3> QED
        BY Zenon, <1>4, <2>2, <3>2
    <2> QED
      BY Zenon, <2>1, <2>2
  <1>6. /\ nStatus' \in [Blocks -> SUBSET Flags]
        /\ \A c \in Blocks : nStatus[c] \subseteq nStatus'[c]
        /\ \A c \in Blocks \ mapBlockIndex : nStatus'[c] = {}
    <2> DEFINE marked == MarkInvalid(nStatus, b)
    <2>1. {"FAILED_VALID"} \in SUBSET Flags /\ {"FAILED_CHILD"} \in SUBSET Flags
      BY Zenon DEF Flags
    <2>2. /\ marked \in [Blocks -> SUBSET Flags]
          /\ \A c \in Blocks : marked[c] = IF c \in {b} THEN nStatus[c] \cup {"FAILED_VALID"} ELSE nStatus[c]
      BY Zenon, <1>3, <2>1 DEF MarkInvalid, Raise
    <2>3. walked \subseteq mapBlockIndex /\ nStatus' = Raise(marked, walked, {"FAILED_CHILD"})
      BY Zenon, <1>1, <1>3, <1>4
    <2> HIDE DEF marked, walked
    <2>4. /\ nStatus' \in [Blocks -> SUBSET Flags]
          /\ \A c \in Blocks : nStatus'[c] = IF c \in walked THEN marked[c] \cup {"FAILED_CHILD"} ELSE marked[c]
      BY <2>1, <2>2, <2>3, FlagTypes
    <2> QED
      BY Zenon, <1>1, <2>2, <2>3, <2>4 DEF TreeInv, IndexClosed
  <1>7. tip' \in linked /\ candidates' \subseteq linked
    <2>1. stuck # {} => Highest(stuck) \in linked
      <3>1. stuck \in SUBSET Blocks
        BY Zenon, <1>3, <1>4
      <3> HIDE DEF stuck, above
      <3> QED BY Zenon, <1>4, <3>1, HighestChosen
    <2>2. Readded(status, newTip) \subseteq linked
      BY Zenon DEF Readded
    <2> HIDE DEF stuck, newTip, status, walked
    <2> QED
      BY Zenon, <1>2, <1>3, <1>5, <2>1, <2>2
  <1>8. pindexBestInvalid' \in mapBlockIndex \cup {NoBlock} /\ health' \in {"ok", "failed", "aborted"}
    BY Zenon, <1>1, <1>2, <1>3 DEF WithInvalid, UndoFailure
  <1>9. /\ nSequenceId' \in [Blocks -> Int]
        /\ nBlockReverseSequenceId' \in Int /\ nLastPreciousChainwork' \in Nat
    BY Zenon, <1>1 DEF TreeInv, TypeOK
  <1> QED
    BY Zenon, <1>1, <1>6, <1>7, <1>8, <1>9, ManualKeepsTree

\* reconsiderblock clears flags and makes linked blocks candidates.
LEMMA ReconsiderKeepsTree ==
  ASSUME TreeInv, NEW t \in Threads, NEW b \in Blocks, ResetBlockFailureFlags(t, b)
  PROVE  TreeInv'
  <1> DEFINE cleared == {x \in mapBlockIndex : b \in Ancestors[x] /\ ~IsValid(nStatus, x)}
             status == Clear(nStatus, cleared, FailedMask)
  <1>1. /\ ManualOp(t, "reconsider", b)
        /\ nStatus' = Clear(status, Ancestors[b], FailedMask)
        /\ candidates' \subseteq candidates \cup linked
        /\ pindexBestInvalid' \in {NoBlock, pindexBestInvalid}
        /\ UNCHANGED <<tip, nSequenceId, nBlockReverseSequenceId, nLastPreciousChainwork, health>>
    BY Zenon DEF ResetBlockFailureFlags, precious
  <1>2. /\ nStatus' \in [Blocks -> SUBSET Flags]
        /\ \A c \in Blocks : nStatus'[c] \subseteq nStatus[c]
        /\ \A c \in Blocks : "TRANSACTIONS" \in nStatus[c] => "TRANSACTIONS" \in nStatus'[c]
    <2>1. nStatus \in [Blocks -> SUBSET Flags] /\ FailedMask \in SUBSET Flags
      BY Zenon DEF TreeInv, TypeOK, Flags, FailedMask
    <2>2. /\ status \in [Blocks -> SUBSET Flags]
          /\ \A c \in Blocks : status[c] = IF c \in cleared THEN nStatus[c] \ FailedMask ELSE nStatus[c]
      BY Zenon, <2>1 DEF Clear
    <2> HIDE DEF status, cleared
    <2>3. /\ nStatus' \in [Blocks -> SUBSET Flags]
          /\ \A c \in Blocks : nStatus'[c] = IF c \in Ancestors[b] THEN status[c] \ FailedMask ELSE status[c]
      BY Zenon, <1>1, <2>1, <2>2 DEF Clear
    <2> QED
      BY Zenon, <2>2, <2>3 DEF FailedMask
  <1>3. \A c \in Blocks \ mapBlockIndex : nStatus'[c] = {}
    BY Zenon, <1>2 DEF TreeInv, IndexClosed
  <1>4. tip' \in linked /\ candidates' \subseteq linked
    BY Zenon, <1>1 DEF TreeInv, ChainsAreLinked
  <1>5. /\ nSequenceId' \in [Blocks -> Int]
        /\ nBlockReverseSequenceId' \in Int /\ nLastPreciousChainwork' \in Nat
        /\ pindexBestInvalid' \in mapBlockIndex \cup {NoBlock}
        /\ health' \in {"ok", "failed", "aborted"}
    BY Zenon, <1>1 DEF TreeInv, TypeOK
  <1> QED
    BY Zenon, <1>1, <1>2, <1>3, <1>4, <1>5, ManualKeepsTree

\* preciousblock changes one sort key and the candidates, all linked.
LEMMA PreciousKeepsTree ==
  ASSUME TreeInv, NEW t \in Threads, NEW b \in Blocks, PreciousBlock(t, b)
  PROVE  TreeInv'
  <1>1. ManualOp(t, "precious", b) /\ UNCHANGED <<nStatus, tip, pindexBestInvalid, health>>
    BY Zenon DEF PreciousBlock
  <1>2. /\ nSequenceId \in [Blocks -> Int] /\ nBlockReverseSequenceId \in Int
        /\ nLastPreciousChainwork \in Nat /\ candidates \subseteq linked
        /\ tip \in linked /\ linked \subseteq Blocks
        /\ nStatus \in [Blocks -> SUBSET Flags]
        /\ pindexBestInvalid \in mapBlockIndex \cup {NoBlock}
        /\ health \in {"ok", "failed", "aborted"}
    BY Zenon DEF TreeInv, TypeOK, ChainsAreLinked
  <1>3. \A c \in Blocks \ mapBlockIndex : nStatus[c] = {}
    BY Zenon DEF TreeInv, IndexClosed
  <1>4. /\ nSequenceId' \in [Blocks -> Int] /\ nBlockReverseSequenceId' \in Int
        /\ nLastPreciousChainwork' \in Nat /\ candidates' \subseteq linked
    <2>1. CASE Work[b] < Work[tip]
      BY Zenon, <1>2, <2>1 DEF PreciousBlock, precious
    <2>2. CASE ~(Work[b] < Work[tip])
      <3> DEFINE id == IF Work[tip] > nLastPreciousChainwork THEN -1 ELSE nBlockReverseSequenceId
                 seq == [nSequenceId EXCEPT ![b] = id]
      <3>1. /\ nSequenceId' = seq /\ nBlockReverseSequenceId' = id - 1
            /\ nLastPreciousChainwork' = Work[tip]
            /\ candidates' = IF IsValid(nStatus, b) /\ b \in linked
                             THEN {x \in candidates \cup {b} : ~Worse(seq, x, tip)}
                             ELSE candidates \ {b}
        BY Zenon, <2>2 DEF PreciousBlock
      <3>2. id \in Int /\ Work[tip] \in Nat
        BY <1>2, TreeAssumption
      <3> HIDE DEF id
      <3>3. seq \in [Blocks -> Int]
        BY Zenon, <1>2, <3>2
      <3>4. candidates' \subseteq linked
        <4> HIDE DEF seq
        <4> QED BY Zenon, <1>2, <3>1
      <3>5. id - 1 \in Int
        BY <3>2
      <3> HIDE DEF seq
      <3> QED
        BY <3>1, <3>2, <3>3, <3>4, <3>5, Zenon
    <2> QED
      BY Zenon, <2>1, <2>2
  <1> QED
    BY Zenon, <1>1, <1>2, <1>3, <1>4, ManualKeepsTree

\* FindMostWorkChain discards what it cannot use and returns a candidate.
LEMMA ChooseKeepsTree ==
  ASSUME TreeInv, NEW t \in Threads, ChooseTarget(t)
  PROVE  TreeInv'
  <1> DEFINE target == IF mostWork[t] = NoBlock THEN FindMostWorkChain ELSE mostWork[t]
  <1>1. /\ UNCHANGED <<mapBlockIndex, linked, tip, nSequenceId, nBlockSequenceId,
                       nBlockReverseSequenceId, nLastPreciousChainwork, pindexBestHeader,
                       health, nManual, fReconsiderAbove, nPruned>>
        /\ Discard \/ UNCHANGED <<nStatus, unlinked, candidates, pindexBestInvalid>>
        /\ \/ /\ pc' = [pc EXCEPT ![t] = "idle"]
              /\ mostWork' = [mostWork EXCEPT ![t] = NoBlock]
              /\ csMain' = NoThread
           \/ /\ target # NoBlock
              /\ pc' = [pc EXCEPT ![t] = "step"]
              /\ mostWork' = [mostWork EXCEPT ![t] = target]
              /\ csMain' = t
    BY Zenon DEF ChooseTarget, ids, precious, manual
  <1>2. /\ nStatus \in [Blocks -> SUBSET Flags]
        /\ candidates \subseteq linked /\ linked \subseteq mapBlockIndex /\ mapBlockIndex \subseteq Blocks
        /\ pindexBestInvalid \in mapBlockIndex \cup {NoBlock}
        /\ mostWork \in [Threads -> mapBlockIndex \cup {NoBlock}]
        /\ \A u \in Threads : mostWork[u] \in linked \cup {NoBlock}
        /\ pc \in [Threads -> {"idle", "activate", "step"}]
    BY Zenon DEF TreeInv, TypeOK, ChainsAreLinked
  <1>3. target \in linked \cup {NoBlock}
    BY Zenon, <1>2, DiscardFacts
  <1>4. /\ nStatus' \in [Blocks -> SUBSET Flags]
        /\ \A c \in Blocks : nStatus[c] \subseteq nStatus'[c]
        /\ \A c \in Blocks \ mapBlockIndex : nStatus'[c] = {}
        /\ \A p \in unlinked' : p \in unlinked \/ \E x \in linked \ {Genesis} : p = <<Parent[x], x>>
        /\ candidates' \subseteq linked
        /\ pindexBestInvalid' \in mapBlockIndex \cup {NoBlock}
    <2>1. CASE UNCHANGED <<nStatus, unlinked, candidates, pindexBestInvalid>>
      BY Zenon, <1>2, <2>1 DEF TreeInv, IndexClosed
    <2>2. CASE Discard
      <3> DEFINE failing == UNION {PathAbove(c) : c \in DiscardedFailed}
      <3>1. failing \subseteq linked
        BY Zenon, DiscardFacts
      <3>2. /\ nStatus' \in [Blocks -> SUBSET Flags]
            /\ \A c \in Blocks : nStatus'[c] = IF c \in failing THEN nStatus[c] \cup {"FAILED_CHILD"}
                                                                ELSE nStatus[c]
        <4>1. nStatus' = Raise(nStatus, failing, {"FAILED_CHILD"}) /\ {"FAILED_CHILD"} \in SUBSET Flags
          BY Zenon, <2>2 DEF Discard, Flags
        <4> HIDE DEF failing
        <4> QED BY Zenon, <1>2, <4>1 DEF Raise
      <3>3. \A c \in Blocks \ mapBlockIndex : nStatus[c] = {}
        BY Zenon DEF TreeInv, IndexClosed
      <3>4. WaitAgain \subseteq linked \ {Genesis}
        BY Zenon, DiscardFacts DEF WaitAgain
      <3>5. \A p \in unlinked' : p \in unlinked \/ \E x \in linked \ {Genesis} : p = <<Parent[x], x>>
        BY Zenon, <2>2, <3>4 DEF Discard
      <3>6. candidates' \subseteq linked
        BY Zenon, <1>2, <2>2 DEF Discard
      <3>7. pindexBestInvalid' \in mapBlockIndex \cup {NoBlock}
        <4>1. DiscardedFailed # {} => Best(nSequenceId, DiscardedFailed) \in mapBlockIndex
          BY Zenon, <1>2, DiscardFacts
        <4> QED
          BY Zenon, <1>2, <2>2, <4>1 DEF Discard, WithInvalid
      <3> HIDE DEF failing
      <3> QED
        BY Zenon, <1>2, <3>1, <3>2, <3>3, <3>5, <3>6, <3>7
    <2> QED
      BY Zenon, <1>1, <2>1, <2>2
  <1>5. /\ IndexClosed' /\ LinkedDownwards' /\ WaitingIsProcessed'
        /\ unlinked' \subseteq Blocks \X Blocks
    <2>1. \A c \in Blocks : "TRANSACTIONS" \in nStatus[c] => "TRANSACTIONS" \in nStatus'[c]
      BY Zenon, <1>4
    <2> QED
      BY Zenon, <1>1, <1>4, <2>1, SameLinks
  <1> HIDE DEF target
  <1>6. ChainsAreLinked'
    BY Zenon, <1>1, <1>2, <1>3, <1>4 DEF TreeInv, ChainsAreLinked
  <1>7. TypeOK'
    <2>1. /\ pc' \in [Threads -> {"idle", "activate", "step"}]
          /\ mostWork' \in [Threads -> mapBlockIndex \cup {NoBlock}]
          /\ csMain' \in Threads \cup {NoThread}
      BY Zenon, <1>1, <1>2, <1>3
    <2>2. candidates' \subseteq mapBlockIndex
      BY Zenon, <1>2, <1>4
    <2> QED
      BY Zenon, <1>1, <1>4, <1>5, <2>1, <2>2 DEF TreeInv, TypeOK
  <1> QED
    BY Zenon, <1>5, <1>6, <1>7 DEF TreeInv

\* A step of the loop keeps the invariant if it stays on linked blocks.
LEMMA ActivateKeepsTree ==
  ASSUME TreeInv, NEW t \in Threads, NEW next \in {"idle", "activate"}, NEW left,
         left = NoBlock \/ left = mostWork[t],
         UNCHANGED <<mapBlockIndex, linked, unlinked, nSequenceId, nBlockSequenceId,
                     nBlockReverseSequenceId, nLastPreciousChainwork, pindexBestHeader,
                     nManual, fReconsiderAbove, nPruned>>,
         nStatus' \in [Blocks -> SUBSET Flags],
         \A c \in Blocks : nStatus[c] \subseteq nStatus'[c],
         \A c \in Blocks \ linked : nStatus'[c] = nStatus[c],
         tip' \in linked, candidates' \subseteq candidates,
         pindexBestInvalid' \in mapBlockIndex \cup {NoBlock},
         health' \in {"ok", "failed", "aborted"},
         csMain' = NoThread,
         pc' = [pc EXCEPT ![t] = next], mostWork' = [mostWork EXCEPT ![t] = left]
  PROVE  TreeInv'
  <1>1. /\ candidates \subseteq linked /\ linked \subseteq mapBlockIndex /\ mapBlockIndex \subseteq Blocks
        /\ mostWork \in [Threads -> mapBlockIndex \cup {NoBlock}]
        /\ \A u \in Threads : mostWork[u] \in linked \cup {NoBlock}
        /\ pc \in [Threads -> {"idle", "activate", "step"}]
    BY Zenon DEF TreeInv, TypeOK, ChainsAreLinked
  <1>2. /\ \A c \in Blocks : "TRANSACTIONS" \in nStatus[c] => "TRANSACTIONS" \in nStatus'[c]
        /\ \A c \in Blocks \ mapBlockIndex : nStatus'[c] = {}
    BY Zenon, <1>1 DEF TreeInv, IndexClosed
  <1>3. IndexClosed' /\ LinkedDownwards' /\ WaitingIsProcessed'
    BY Zenon, <1>2, SameLinks
  <1>4. ChainsAreLinked'
    BY Zenon, <1>1 DEF TreeInv, ChainsAreLinked
  <1>5. TypeOK'
    <2>1. /\ pc' \in [Threads -> {"idle", "activate", "step"}]
          /\ mostWork' \in [Threads -> mapBlockIndex \cup {NoBlock}]
          /\ tip' \in mapBlockIndex /\ candidates' \subseteq mapBlockIndex
      BY Zenon, <1>1
    <2> QED
      BY Zenon, <2>1 DEF TreeInv, TypeOK
  <1> QED
    BY Zenon, <1>3, <1>4, <1>5 DEF TreeInv

\* A step that cannot undo a block stops on the active chain.
LEMMA CannotDisconnectKeepsTree ==
  ASSUME TreeInv, NEW t \in Threads, StepCannotDisconnect(t)
  PROVE  TreeInv'
  <1> DEFINE stuck == Stuck(Ancestors[tip] \ Ancestors[Fork(mostWork[t])])
  <1>1. /\ stuck # {} /\ tip' = Highest(stuck) /\ health' = UndoFailure(Highest(stuck))
        /\ csMain' = NoThread /\ pc' = [pc EXCEPT ![t] = "idle"]
        /\ mostWork' = [mostWork EXCEPT ![t] = NoBlock]
        /\ UNCHANGED <<mapBlockIndex, nStatus, linked, candidates, unlinked, nSequenceId,
                       nBlockSequenceId, nBlockReverseSequenceId, nLastPreciousChainwork,
                       pindexBestHeader, pindexBestInvalid, nManual, fReconsiderAbove, nPruned>>
    BY Zenon DEF StepCannotDisconnect, ReturnFromActivate, ids, precious, manual
  <1>2. /\ tip \in linked /\ linked \subseteq Blocks /\ nStatus \in [Blocks -> SUBSET Flags]
        /\ pindexBestInvalid \in mapBlockIndex \cup {NoBlock} /\ Ancestors[tip] \subseteq linked
    BY Zenon DEF TreeInv, TypeOK, ChainsAreLinked, LinkedDownwards
  <1>3. stuck \subseteq linked /\ stuck \in SUBSET Blocks
    BY Zenon, <1>2 DEF Stuck
  <1>4. tip' \in linked /\ health' \in {"ok", "failed", "aborted"}
    <2> HIDE DEF stuck
    <2> QED BY Zenon, <1>1, <1>3, HighestChosen DEF UndoFailure
  <1> QED
    BY Zenon, <1>1, <1>2, <1>4, ActivateKeepsTree

\* A step back ends at a block of the active chain.
LEMMA StepBackKeepsTree ==
  ASSUME TreeInv, NEW t \in Threads, StepBack(t)
  PROVE  TreeInv'
  <1>1. /\ mostWork[t] \in Ancestors[tip] /\ tip' = mostWork[t]
        /\ csMain' = NoThread /\ pc' = [pc EXCEPT ![t] = "idle"]
        /\ mostWork' = [mostWork EXCEPT ![t] = NoBlock]
        /\ UNCHANGED <<mapBlockIndex, nStatus, linked, candidates, unlinked, nSequenceId,
                       nBlockSequenceId, nBlockReverseSequenceId, nLastPreciousChainwork, health,
                       pindexBestHeader, pindexBestInvalid, nManual, fReconsiderAbove, nPruned>>
    BY Zenon DEF StepBack, ReturnFromActivate, ids, precious, manual
  <1>2. /\ Ancestors[tip] \subseteq linked /\ nStatus \in [Blocks -> SUBSET Flags]
        /\ pindexBestInvalid \in mapBlockIndex \cup {NoBlock}
        /\ health \in {"ok", "failed", "aborted"}
    BY Zenon DEF TreeInv, TypeOK, ChainsAreLinked, LinkedDownwards
  <1> QED
    BY Zenon, <1>1, <1>2, ActivateKeepsTree

\* A step forward ends at a linked block of the branch of its target.
LEMMA StepForwardKeepsTree ==
  ASSUME TreeInv, NEW t \in Threads, StepForward(t)
  PROVE  TreeInv'
  <1>1. UNCHANGED <<mapBlockIndex, linked, unlinked, nSequenceId, nBlockSequenceId,
                    nBlockReverseSequenceId, nLastPreciousChainwork, pindexBestHeader,
                    nManual, fReconsiderAbove, nPruned>>
    BY Zenon DEF StepForward, ids, precious, manual
  <1>2. PICK next \in {"idle", "activate"}, left \in {NoBlock, mostWork[t]} :
          /\ csMain' = NoThread
          /\ pc' = [pc EXCEPT ![t] = next]
          /\ mostWork' = [mostWork EXCEPT ![t] = left]
    BY Zenon DEF StepForward, ReturnFromActivate
  <1>3. /\ tip' \in linked
        /\ nStatus' \in [Blocks -> SUBSET Flags]
        /\ \A c \in Blocks : nStatus[c] \subseteq nStatus'[c]
        /\ \A c \in Blocks \ linked : nStatus'[c] = nStatus[c]
        /\ candidates' \subseteq candidates
    BY Zenon, ForwardFacts
  <1>4. /\ pindexBestInvalid' \in mapBlockIndex \cup {NoBlock}
        /\ health' \in {"ok", "failed", "aborted"}
    <2>1. /\ linked \subseteq mapBlockIndex /\ pindexBestInvalid \in mapBlockIndex \cup {NoBlock}
          /\ health \in {"ok", "failed", "aborted"}
      BY Zenon DEF TreeInv, TypeOK
    <2>2. /\ StopsAt(t) \in linked /\ pindexBestInvalid' \in {pindexBestInvalid, StopsAt(t)}
          /\ health' \in {health, "aborted"}
      BY Zenon, ForwardFacts
    <2> QED
      BY Zenon, <2>1, <2>2
  <1> QED
    BY Zenon, <1>1, <1>2, <1>3, <1>4, ActivateKeepsTree

\* Nothing changes.
LEMMA StutterKeepsTree ==
  ASSUME TreeInv, UNCHANGED vars
  PROVE  TreeInv'
  <1>1. TypeOK'
    BY Zenon DEF TreeInv, TypeOK, vars
  <1>2. IndexClosed' /\ LinkedDownwards'
    BY Zenon DEF TreeInv, IndexClosed, LinkedDownwards, vars
  <1>3. ChainsAreLinked' /\ WaitingIsProcessed'
    BY Zenon DEF TreeInv, ChainsAreLinked, WaitingIsProcessed, vars
  <1> QED
    BY Zenon, <1>1, <1>2, <1>3 DEF TreeInv

\* Every step keeps the invariant.
LEMMA StepKeepsTree == TreeInv /\ [Next]_vars => TreeInv'
  <1> SUFFICES ASSUME TreeInv, [Next]_vars PROVE TreeInv'
    OBVIOUS
  <1>1. ASSUME NEW b \in Blocks, ProcessNewBlockHeader(b) PROVE TreeInv'
    BY Zenon, <1>1, HeaderKeepsTree
  <1>2. ASSUME NEW b \in Blocks, PruneOneBlockFile(b) PROVE TreeInv'
    BY Zenon, <1>2, PruneKeepsTree
  <1>3. ASSUME NEW t \in Threads, NEW b \in Blocks, NEW fRequested \in BOOLEAN,
               ProcessNewBlock(t, b, fRequested)
        PROVE  TreeInv'
    BY Zenon, <1>3, BlockKeepsTree
  <1>4. ASSUME NEW t \in Threads, NEW b \in Blocks,
               InvalidateBlock(t, b) \/ ResetBlockFailureFlags(t, b) \/ PreciousBlock(t, b)
        PROVE  TreeInv'
    BY Zenon, <1>4, InvalidateKeepsTree, ReconsiderKeepsTree, PreciousKeepsTree
  <1>5. ASSUME NEW t \in Threads, ThreadStep(t) PROVE TreeInv'
    BY Zenon, <1>5, ChooseKeepsTree, CannotDisconnectKeepsTree, StepBackKeepsTree, StepForwardKeepsTree
       DEF ThreadStep, ActivateBestChainStep
  <1>6. CASE UNCHANGED vars
    BY Zenon, <1>6, StutterKeepsTree
  <1> QED
    BY Zenon, <1>1, <1>2, <1>3, <1>4, <1>5, <1>6 DEF Next

\* The block index, the candidates and the targets of the threads fit together in
\* every state: what ActivateBestChain works on are chains of linked blocks.
THEOREM TreeInvHolds == Spec => []TreeInv
  BY InitTree, StepKeepsTree, PTL DEF Spec

\* The variables keep their types.
THEOREM TypeCorrect == Spec => []TypeOK
  <1>1. TreeInv => TypeOK
    BY Zenon DEF TreeInv
  <1> QED
    BY <1>1, TreeInvHolds, PTL

\* Below a linked block everything is linked and was received, whatever the
\* order of arrival, the RPC calls, the prunings and the threads: the assert
\* of FindMostWorkChain on nChainTx never fails.
THEOREM LinkedCorrect == Spec => []LinkedDownwards
  <1>1. TreeInv => LinkedDownwards
    BY Zenon DEF TreeInv
  <1> QED
    BY <1>1, TreeInvHolds, PTL

-----------------------------------------------------------------------------
(* Without pruning: a received block keeps its data, is received once, and  *)
(* is numbered before it is a candidate.                                    *)

ProcessedHasData ==
  \A b \in Blocks : "TRANSACTIONS" \in nStatus[b] => "DATA" \in nStatus[b]

\* Genesis is stored and received.
LEMMA InitData == Init => ProcessedHasData
  BY Zenon DEF Init, ProcessedHasData

\* A block that AcceptBlock processes, and what it links, are new.
LEMMA ReceivedIsNew ==
  ASSUME TreeInv, ProcessedHasData, NEW b \in Blocks \ {Genesis}, NEW fRequested \in BOOLEAN,
         ~NotProcessed(b, fRequested)
  PROVE  /\ "TRANSACTIONS" \notin nStatus[b] /\ b \notin linked
         /\ \A c \in Blocks : b \in Ancestors[c] => c \notin linked
  <1>1. "TRANSACTIONS" \notin nStatus[b]
    BY Zenon DEF NotProcessed, ProcessedHasData
  <1>2. b \notin linked
    BY Zenon, <1>1 DEF TreeInv, LinkedDownwards
  <1> QED
    BY Zenon, <1>1, <1>2 DEF TreeInv, LinkedDownwards

\* The two flags are set together and, without pruning, never cleared.
LEMMA DataKept ==
  ASSUME MaxPrune = 0, TreeInv, ProcessedHasData, [Next]_vars
  PROVE  ProcessedHasData'
  <1>0. nStatus \in [Blocks -> SUBSET Flags]
    BY Zenon DEF TreeInv, TypeOK
  <1>1. ASSUME NEW b \in Blocks, ProcessNewBlockHeader(b) PROVE ProcessedHasData'
    BY Zenon, <1>1 DEF ProcessNewBlockHeader, ProcessedHasData
  <1>2. ASSUME NEW b \in Blocks, PruneOneBlockFile(b) PROVE ProcessedHasData'
    BY <1>2 DEF PruneOneBlockFile, TreeInv, TypeOK
  <1>3. ASSUME NEW t \in Threads, NEW b \in Blocks, NEW fRequested \in BOOLEAN,
               ProcessNewBlock(t, b, fRequested)
        PROVE  ProcessedHasData'
    <2>1. CASE nStatus' = nStatus
      BY Zenon, <2>1 DEF ProcessedHasData
    <2>2. CASE nStatus' = Raise(nStatus, {b}, {"FAILED_VALID"})
      BY Zenon, <2>2 DEF ProcessedHasData, Raise
    <2>3. CASE nStatus' = Raise(nStatus, {b}, {"DATA", "TRANSACTIONS"})
      BY Zenon, <2>3 DEF ProcessedHasData, Raise
    <2> QED
      BY Zenon, <1>3, <2>1, <2>2, <2>3 DEF ProcessNewBlock, ReceivedBlockTransactions, MarkInvalid
  <1>4. ASSUME NEW t \in Threads, NEW b \in Blocks,
               InvalidateBlock(t, b) \/ ResetBlockFailureFlags(t, b) \/ PreciousBlock(t, b)
        PROVE  ProcessedHasData'
    <2>1. CASE InvalidateBlock(t, b)
      <3>1. PICK walked : nStatus' = Raise(MarkInvalid(nStatus, b), walked, {"FAILED_CHILD"})
        BY Zenon, <2>1 DEF InvalidateBlock
      <3> QED
        BY Zenon, <3>1 DEF ProcessedHasData, MarkInvalid, Raise
    <2>2. CASE ResetBlockFailureFlags(t, b)
      <3>1. PICK cleared : nStatus' = Clear(Clear(nStatus, cleared, FailedMask), Ancestors[b], FailedMask)
        BY Zenon, <2>2 DEF ResetBlockFailureFlags
      <3> QED
        BY Zenon, <3>1 DEF ProcessedHasData, Clear, FailedMask
    <2>3. CASE PreciousBlock(t, b)
      BY Zenon, <2>3 DEF PreciousBlock, ProcessedHasData
    <2> QED
      BY Zenon, <1>4, <2>1, <2>2, <2>3
  <1>5. ASSUME NEW t \in Threads, ThreadStep(t) PROVE ProcessedHasData'
    <2>1. CASE nStatus' = nStatus
      BY Zenon, <2>1 DEF ProcessedHasData
    <2>2. CASE Discard
      BY Zenon, <2>2 DEF Discard, Raise, ProcessedHasData
    <2>3. CASE StepForward(t)
      <3>1. \A c \in Blocks : nStatus'[c] \cap {"TRANSACTIONS", "FAILED_CHILD", "DATA"}
                              = nStatus[c] \cap {"TRANSACTIONS", "FAILED_CHILD", "DATA"}
        BY Zenon, <2>3, ForwardFacts
      <3> QED
        BY Zenon, <3>1 DEF ProcessedHasData
    <2> QED
      BY Zenon, <1>5, <2>1, <2>2, <2>3
         DEF ThreadStep, ChooseTarget, ActivateBestChainStep, StepCannotDisconnect, StepBack
  <1>6. CASE UNCHANGED vars
    BY Zenon, <1>6 DEF vars, ProcessedHasData
  <1> QED
    BY Zenon, <1>1, <1>2, <1>3, <1>4, <1>5, <1>6 DEF Next

\* Without pruning, no step but preciousblock changes the sort key of a block
\* while it is in setBlockIndexCandidates: receiving a block numbers it and
\* what waited for it, and none of these was a candidate before.
THEOREM KeysStable ==
  ASSUME MaxPrune = 0
  PROVE  Spec => CandidateKeysStable
  <1> DEFINE KeysKept == nManual' = nManual =>
                \A b \in candidates \cap candidates' : nSequenceId'[b] = nSequenceId[b]
  <1>1. TreeInv /\ ProcessedHasData /\ [Next]_vars => [KeysKept]_vars
    <2> SUFFICES ASSUME TreeInv, ProcessedHasData, Next PROVE KeysKept
      OBVIOUS
    <2>1. nManual \in Nat /\ candidates \subseteq linked /\ linked \subseteq Blocks
      BY DEF TreeInv, TypeOK, ChainsAreLinked
    <2>2. CASE nSequenceId' = nSequenceId
      BY Zenon, <2>2
    <2>3. CASE nManual' = nManual + 1
      BY <2>1, <2>3
    <2>4. ASSUME NEW t \in Threads, NEW b \in Blocks, NEW fRequested \in BOOLEAN,
                 ProcessNewBlock(t, b, fRequested), nSequenceId' # nSequenceId
          PROVE  KeysKept
      <3>1. b # Genesis /\ ~NotProcessed(b, fRequested) /\ ReceivedBlockTransactions(b)
        BY Zenon, <2>4 DEF ProcessNewBlock, ids
      <3> DEFINE queue == IF ParentLinked(b) THEN NowLinked(b) ELSE {}
      <3>2. \A x \in Blocks \ queue : nSequenceId'[x] = nSequenceId[x]
        BY Zenon, <3>1, ReceivedFacts
      <3>3. \A x \in queue : x \notin linked
        BY Zenon, <3>1, ReceivedIsNew DEF NowLinked
      <3> QED
        BY Zenon, <2>1, <3>2, <3>3
    <2>5. ASSUME NEW b \in Blocks, ProcessNewBlockHeader(b) \/ PruneOneBlockFile(b) PROVE KeysKept
      BY Zenon, <2>2, <2>5 DEF ProcessNewBlockHeader, PruneOneBlockFile, ids
    <2>6. ASSUME NEW t \in Threads, NEW b \in Blocks,
                 InvalidateBlock(t, b) \/ ResetBlockFailureFlags(t, b) \/ PreciousBlock(t, b)
          PROVE  KeysKept
      BY Zenon, <2>3, <2>6 DEF InvalidateBlock, ResetBlockFailureFlags, PreciousBlock, ManualOp
    <2>7. ASSUME NEW t \in Threads, ThreadStep(t) PROVE KeysKept
      BY Zenon, <2>2, <2>7
         DEF ThreadStep, ChooseTarget, ActivateBestChainStep, StepCannotDisconnect, StepBack, StepForward, ids
    <2> QED
      BY Zenon, <2>2, <2>4, <2>5, <2>6, <2>7 DEF Next
  <1>2. TreeInv /\ ProcessedHasData /\ [Next]_vars => ProcessedHasData'
    BY Zenon, DataKept
  <1> QED
    BY <1>1, <1>2, TreeInvHolds, InitData, PTL DEF Spec, CandidateKeysStable

-----------------------------------------------------------------------------
(* Without RPC calls: a failure has a failed block below it, and without    *)
(* pruning too, a block is linked as soon as all below it were received.    *)

\* An RPC needs a call that the bound allows.
LEMMA NoManualOps ==
  ASSUME MaxManual = 0, TreeInv, NEW t \in Threads, NEW op, NEW b
  PROVE  ~ManualOp(t, op, b)
  BY SMT DEF TreeInv, TypeOK, ManualOp

\* A step other than an RPC flags blocks above a failed one, or that fail.
LEMMA FailureKept ==
  ASSUME TreeInv, FailedHasInvalidAncestor, [Next]_vars,
         \A t \in Threads : \A op, b : ~ManualOp(t, op, b)
  PROVE  FailedHasInvalidAncestor'
  <1>0. nStatus \in [Blocks -> SUBSET Flags] /\ mapBlockIndex \subseteq Blocks
    BY Zenon DEF TreeInv, TypeOK
  <1>1. SUFFICES /\ mapBlockIndex' \subseteq Blocks
                 /\ \A c \in Blocks : "FAILED_VALID" \in nStatus[c] => "FAILED_VALID" \in nStatus'[c]
                 /\ \A c \in mapBlockIndex' : Failed(nStatus', c) =>
                      \/ c \in mapBlockIndex /\ Failed(nStatus, c)
                      \/ \E a \in Ancestors[c] : "FAILED_VALID" \in nStatus'[a]
    BY Zenon, <1>0, <1>1, BelowIsChain DEF FailedHasInvalidAncestor, HasInvalidAncestor
  <1>2. ASSUME NEW b \in Blocks, ProcessNewBlockHeader(b)
        PROVE  /\ nStatus' = nStatus /\ mapBlockIndex' \subseteq Blocks
               /\ \A c \in mapBlockIndex' : Failed(nStatus', c) => c \in mapBlockIndex
    <2>1. nStatus' = nStatus /\ mapBlockIndex' = mapBlockIndex \cup {b}
      BY Zenon, <1>2 DEF ProcessNewBlockHeader, AddToBlockIndex
    <2> QED
      BY Zenon, <1>0, <2>1 DEF TreeInv, IndexClosed, Failed
  <1>3. ASSUME NEW b \in Blocks, PruneOneBlockFile(b)
        PROVE  /\ mapBlockIndex' = mapBlockIndex
               /\ \A c \in Blocks : nStatus'[c] \cap FailedMask = nStatus[c] \cap FailedMask
    BY Zenon, <1>0, <1>3 DEF PruneOneBlockFile, Clear, FailedMask
  <1>4. ASSUME NEW t \in Threads, NEW b \in Blocks, NEW fRequested \in BOOLEAN,
               ProcessNewBlock(t, b, fRequested)
        PROVE  /\ mapBlockIndex' \subseteq Blocks
               /\ \A c \in Blocks : "FAILED_VALID" \in nStatus[c] => "FAILED_VALID" \in nStatus'[c]
               /\ \A c \in mapBlockIndex' : Failed(nStatus', c) =>
                      \/ c \in mapBlockIndex /\ Failed(nStatus, c)
                      \/ "FAILED_VALID" \in nStatus'[c]
    <2>1. mapBlockIndex' = mapBlockIndex \cup {b} /\ ~Failed(nStatus, b)
      BY Zenon, <1>4, HeaderFacts DEF ProcessNewBlock
    <2>2. \/ nStatus' = nStatus
          \/ nStatus' = Raise(nStatus, {b}, {"FAILED_VALID"})
          \/ nStatus' = Raise(nStatus, {b}, {"DATA", "TRANSACTIONS"})
      BY Zenon, <1>4 DEF ProcessNewBlock, ReceivedBlockTransactions, MarkInvalid
    <2>3. \A c \in Blocks \ {b} : nStatus'[c] = nStatus[c]
      BY Zenon, <1>0, <2>2 DEF Raise
    <2>4. \/ nStatus'[b] = nStatus[b]
          \/ nStatus'[b] = nStatus[b] \cup {"FAILED_VALID"}
          \/ nStatus'[b] = nStatus[b] \cup {"DATA", "TRANSACTIONS"}
      BY Zenon, <1>0, <2>2 DEF Raise
    <2> QED
      BY Zenon, <1>0, <2>1, <2>3, <2>4 DEF Failed, FailedMask
  <1>5. ASSUME NEW t \in Threads, ChooseTarget(t), Discard
        PROVE  /\ mapBlockIndex' = mapBlockIndex
               /\ \A c \in Blocks : nStatus[c] \subseteq nStatus'[c]
               /\ \A c \in mapBlockIndex : Failed(nStatus', c) =>
                      \/ Failed(nStatus, c)
                      \/ \E a \in Ancestors[c] : "FAILED_VALID" \in nStatus'[a]
    <2> DEFINE failing == UNION {PathAbove(c) : c \in DiscardedFailed}
    <2>1. /\ mapBlockIndex' = mapBlockIndex
          /\ \A c \in Blocks : nStatus'[c] = IF c \in failing THEN nStatus[c] \cup {"FAILED_CHILD"}
                                                              ELSE nStatus[c]
      BY Zenon, <1>0, <1>5 DEF ChooseTarget, Discard, Raise
    <2>2. ASSUME NEW x \in failing, x \in Blocks
          PROVE  \E a \in Ancestors[x] : "FAILED_VALID" \in nStatus[a]
      <3>1. PICK c \in DiscardedFailed : x \in PathAbove(c)
        OBVIOUS
      <3>2. /\ Failed(nStatus, Highest(Blocking(c)))
            /\ Highest(Blocking(c)) \in Ancestors[x]
            /\ Highest(Blocking(c)) \in linked
        BY Zenon, <3>1, DiscardFacts
      <3>3. Highest(Blocking(c)) \in mapBlockIndex
        BY Zenon, <3>2 DEF TreeInv, TypeOK
      <3>4. HasInvalidAncestor(Highest(Blocking(c)))
        BY Zenon, <3>2, <3>3 DEF FailedHasInvalidAncestor
      <3> QED
        BY Zenon, <2>2, <3>2, <3>4, BelowIsChain DEF HasInvalidAncestor
    <2> HIDE DEF failing
    <2>3. \A c \in Blocks : nStatus[c] \subseteq nStatus'[c]
      BY Zenon, <2>1
    <2> QED
      BY Zenon, <1>0, <2>1, <2>2, <2>3, BelowIsChain DEF Failed
  <1>6. ASSUME NEW t \in Threads, StepForward(t)
        PROVE  /\ mapBlockIndex' = mapBlockIndex
               /\ \A c \in Blocks : nStatus[c] \subseteq nStatus'[c]
               /\ \A c \in mapBlockIndex : Failed(nStatus', c) =>
                      Failed(nStatus, c) \/ "FAILED_VALID" \in nStatus'[c]
    <2>1. mapBlockIndex' = mapBlockIndex
      BY Zenon, <1>6 DEF StepForward
    <2>2. /\ \A c \in Blocks : nStatus[c] \subseteq nStatus'[c]
          /\ \A c \in Blocks : nStatus'[c] \cap {"TRANSACTIONS", "FAILED_CHILD", "DATA"}
                               = nStatus[c] \cap {"TRANSACTIONS", "FAILED_CHILD", "DATA"}
      BY Zenon, <1>6, ForwardFacts
    <2> QED
      BY Zenon, <1>0, <2>1, <2>2 DEF Failed, FailedMask
  <1>7. CASE mapBlockIndex' = mapBlockIndex /\ nStatus' = nStatus
    BY Zenon, <1>0, <1>7
  <1>8. CASE \E b \in Blocks : ProcessNewBlockHeader(b) \/ PruneOneBlockFile(b)
    BY Zenon, <1>0, <1>2, <1>3, <1>8 DEF Failed, FailedMask
  <1>9. CASE \E t \in Threads, b \in Blocks, fRequested \in BOOLEAN : ProcessNewBlock(t, b, fRequested)
    BY <1>4, <1>9, BelowIsChain
  <1>10. CASE \E t \in Threads : ThreadStep(t)
    <2> SUFFICES ASSUME NEW t \in Threads, ThreadStep(t),
                        ~(mapBlockIndex' = mapBlockIndex /\ nStatus' = nStatus)
                 PROVE  /\ mapBlockIndex' \subseteq Blocks
                        /\ \A c \in Blocks : "FAILED_VALID" \in nStatus[c] => "FAILED_VALID" \in nStatus'[c]
                        /\ \A c \in mapBlockIndex' : Failed(nStatus', c) =>
                             \/ c \in mapBlockIndex /\ Failed(nStatus, c)
                             \/ \E a \in Ancestors[c] : "FAILED_VALID" \in nStatus'[a]
      BY Zenon, <1>7, <1>10
    <2>1. (ChooseTarget(t) /\ Discard) \/ StepForward(t)
      BY Zenon DEF ThreadStep, ChooseTarget, ActivateBestChainStep, StepCannotDisconnect, StepBack
    <2> QED
      BY Zenon, <1>0, <1>5, <1>6, <2>1, BelowIsChain
  <1> QED
    BY Zenon, <1>7, <1>8, <1>9, <1>10
       DEF Next, InvalidateBlock, ResetBlockFailureFlags, PreciousBlock, vars

\* As long as no RPC is called, a failed flag is explained by a block below
\* that failed itself, with any pruning and any number of threads.
THEOREM FailuresExplained ==
  ASSUME MaxManual = 0
  PROVE  Spec => []FailedHasInvalidAncestor
  <1>1. Init => FailedHasInvalidAncestor
    BY TreeAssumption DEF Init, FailedHasInvalidAncestor, Failed, FailedMask
  <1>2. TreeInv /\ FailedHasInvalidAncestor /\ [Next]_vars => FailedHasInvalidAncestor'
    BY Zenon, FailureKept, NoManualOps
  <1> QED
    BY <1>1, <1>2, TreeInvHolds, PTL DEF Spec

\* A block that failed before it was linked was never received.
FailedIsUnprocessed ==
  \A b \in Blocks \ linked : Failed(nStatus, b) => "TRANSACTIONS" \notin nStatus[b]

\* A received block that is not linked waits in mapBlocksUnlinked, or its
\* parent failed and never will be linked.
ProcessedWaits ==
  \A b \in Blocks \ linked : "TRANSACTIONS" \in nStatus[b] =>
     \/ <<Parent[b], b>> \in unlinked
     \/ Failed(nStatus, Parent[b]) /\ Parent[b] \notin linked

LinkedIffProcessed ==
  \A b \in mapBlockIndex : b \in linked <=> \A a \in Ancestors[b] : "TRANSACTIONS" \in nStatus[a]

LinkInv == ProcessedHasData /\ FailedIsUnprocessed /\ ProcessedWaits /\ LinkedIffProcessed

\* Genesis is the only block, and it is linked.
LEMMA InitLink == Init => LinkInv
  <1> SUFFICES ASSUME Init PROVE LinkInv
    OBVIOUS
  <1>1. FailedIsUnprocessed /\ ProcessedWaits
    BY Zenon DEF Init, FailedIsUnprocessed, ProcessedWaits
  <1>2. LinkedIffProcessed
    BY Zenon, TreeAssumption DEF Init, LinkedIffProcessed
  <1> QED
    BY Zenon, <1>1, <1>2, InitData DEF LinkInv

\* A step that links nothing and receives nothing, and fails only linked
\* blocks or ones that were not received, keeps the invariant.
LEMMA SameLinksExact ==
  ASSUME TreeInv, LinkInv, ProcessedHasData',
         linked' = linked, unlinked \subseteq unlinked',
         mapBlockIndex \subseteq mapBlockIndex',
         mapBlockIndex' \subseteq Blocks,
         \A c \in Blocks : "TRANSACTIONS" \in nStatus'[c] <=> "TRANSACTIONS" \in nStatus[c],
         \A c \in Blocks : Failed(nStatus, c) => Failed(nStatus', c),
         \A c \in Blocks \ linked : Failed(nStatus', c) =>
            Failed(nStatus, c) \/ "TRANSACTIONS" \notin nStatus[c]
  PROVE  LinkInv'
  <1>1. FailedIsUnprocessed'
    BY Zenon DEF LinkInv, FailedIsUnprocessed
  <1>2. ProcessedWaits'
    <2>1. ASSUME NEW b \in Blocks \ linked, "TRANSACTIONS" \in nStatus[b]
          PROVE  b \in Blocks \ {Genesis} /\ Parent[b] \in Blocks
      BY Zenon, ParentBelow DEF TreeInv, LinkedDownwards
    <2> QED
      BY Zenon, <2>1 DEF LinkInv, ProcessedWaits
  <1>3. LinkedIffProcessed'
    <2> SUFFICES ASSUME NEW b \in mapBlockIndex'
                 PROVE  b \in linked <=> \A a \in Ancestors[b] : "TRANSACTIONS" \in nStatus[a]
      BY Zenon, BelowIsChain DEF LinkedIffProcessed
    <2>1. CASE b \in mapBlockIndex
      BY Zenon, <2>1 DEF LinkInv, LinkedIffProcessed
    <2>2. CASE b \notin mapBlockIndex
      BY Zenon, <2>2, BelowIsChain DEF TreeInv, TypeOK, IndexClosed
    <2> QED
      BY Zenon, <2>1, <2>2
  <1> QED
    BY Zenon, <1>1, <1>2, <1>3 DEF LinkInv

\* AcceptBlock of a good block: it links exactly itself and what waited for it.
LEMMA ReceivedKeepsLink ==
  ASSUME TreeInv, LinkInv, TreeInv', ProcessedHasData', NEW b \in Blocks \ {Genesis},
         NEW fRequested \in BOOLEAN, ~NotProcessed(b, fRequested),
         HeaderAccepted(b), AddToBlockIndex(b), ReceivedBlockTransactions(b)
  PROVE  LinkInv'
  <1> DEFINE queue == IF ParentLinked(b) THEN NowLinked(b) ELSE {}
  <1>1. /\ "TRANSACTIONS" \notin nStatus[b] /\ b \notin linked
        /\ \A c \in Blocks : b \in Ancestors[c] => c \notin linked
    BY Zenon, ReceivedIsNew DEF LinkInv
  <1>2. mapBlockIndex' = mapBlockIndex \cup {b} /\ ~Failed(nStatus, b)
    BY Zenon, HeaderFacts
  <1>3. /\ nStatus' = Raise(nStatus, {b}, {"DATA", "TRANSACTIONS"})
        /\ linked' = linked \cup queue
        /\ \A p \in unlinked : p \in unlinked' \/ (ParentLinked(b) /\ p[1] \in queue)
        /\ ~ParentLinked(b) /\ ~Failed(nStatus, Parent[b]) => <<Parent[b], b>> \in unlinked'
    BY Zenon, ReceivedFacts
  <1>4. /\ \A c \in Blocks \ {b} : nStatus'[c] = nStatus[c]
        /\ nStatus'[b] = nStatus[b] \cup {"DATA", "TRANSACTIONS"}
    BY Zenon, <1>3, ReceivedStatus DEF Flags
  <1>5. \A c \in Blocks : Failed(nStatus', c) <=> Failed(nStatus, c)
    BY Zenon, <1>4 DEF Failed, FailedMask
  <1>6. /\ queue \in SUBSET Blocks
        /\ ParentLinked(b) => b \in queue
        /\ \A c \in queue \ {b} : "TRANSACTIONS" \in nStatus[c] /\ <<Parent[c], c>> \in unlinked
        /\ \A c \in queue : b \in Ancestors[c]
    BY Zenon, NowLinkedFacts DEF NowLinked
  <1>7. FailedIsUnprocessed'
    BY Zenon, <1>2, <1>3, <1>4, <1>5 DEF LinkInv, FailedIsUnprocessed
  <1>8. ProcessedWaits'
    <2> SUFFICES ASSUME NEW c \in Blocks \ linked', "TRANSACTIONS" \in nStatus'[c]
                 PROVE  \/ <<Parent[c], c>> \in unlinked'
                        \/ Failed(nStatus', Parent[c]) /\ Parent[c] \notin linked'
      BY Zenon DEF ProcessedWaits
    <2>0. c \in Blocks \ {Genesis} /\ Parent[c] \in Blocks /\ c \notin linked
      BY Zenon, <1>3, ParentBelow DEF TreeInv, LinkedDownwards
    <2>1. CASE c = b
      BY Zenon, <1>3, <1>5, <1>6, <2>0, <2>1 DEF ParentLinked
    <2>2. CASE c # b /\ <<Parent[c], c>> \in unlinked
      <3>1. ASSUME ParentLinked(b), Parent[c] \in NowLinked(b) PROVE c \in NowLinked(b)
        <4>1. b \in Ancestors[Parent[c]]
          BY Zenon, <3>1 DEF NowLinked
        <4>2. Ancestors[c] = Ancestors[Parent[c]] \cup {c}
          BY Zenon, <2>0, ParentBelow
        <4> QED
          BY Zenon, <2>2, <3>1, <4>1, <4>2 DEF NowLinked
      <3> QED
        BY Zenon, <1>3, <2>2, <3>1
    <2>3. CASE c # b /\ Failed(nStatus, Parent[c]) /\ Parent[c] \notin linked
      <3>1. "TRANSACTIONS" \notin nStatus[Parent[c]]
        BY Zenon, <2>0, <2>3 DEF LinkInv, FailedIsUnprocessed
      <3>2. Parent[c] \notin queue
        BY Zenon, <1>2, <1>6, <2>3, <3>1
      <3> QED
        BY Zenon, <1>3, <1>5, <2>0, <2>3, <3>2
    <2> QED
      BY Zenon, <1>4, <2>0, <2>1, <2>2, <2>3 DEF LinkInv, ProcessedWaits
  <1>9. LinkedIffProcessed'
    <2>1. ASSUME NEW c \in mapBlockIndex', c \in linked'
          PROVE  \A a \in Ancestors[c] : "TRANSACTIONS" \in nStatus'[a]
      BY Zenon, <2>1 DEF TreeInv, LinkedDownwards
    <2>2. ASSUME NEW c \in mapBlockIndex', c \notin linked',
                 \A a \in Ancestors[c] : "TRANSACTIONS" \in nStatus'[a]
          PROVE  FALSE
      <3>0. c \in Blocks /\ c \notin linked
        BY Zenon, <1>3, <2>2 DEF TreeInv, TypeOK
      <3>1. CASE b \notin Ancestors[c]
        <4>1. \A a \in Ancestors[c] : "TRANSACTIONS" \in nStatus[a]
          BY Zenon, <1>4, <2>2, <3>0, <3>1, BelowIsChain
        <4>2. c \in mapBlockIndex
          BY Zenon, <1>2, <3>0, <3>1, BelowIsChain
        <4> QED
          BY Zenon, <3>0, <4>1, <4>2 DEF LinkInv, LinkedIffProcessed
      <3>2. CASE b \in Ancestors[c] /\ ParentLinked(b)
        <4>1. PICK x \in Ancestors[c] \ Ancestors[b] : <<Parent[x], x>> \notin unlinked
          BY Zenon, <1>3, <2>2, <3>0, <3>2 DEF NowLinked
        <4>2. /\ x \in Blocks \ {Genesis} /\ b \in Ancestors[x] /\ x # b /\ x \notin linked
              /\ Ancestors[x] \subseteq Ancestors[c]
          BY Zenon, <1>1, <3>0, <3>2, <4>1, BelowIsChain
        <4>3. Parent[x] \in Blocks /\ Parent[x] \in Ancestors[c]
          BY Zenon, <4>2, ParentBelow
        <4>4. "TRANSACTIONS" \in nStatus[x]
          BY Zenon, <1>4, <2>2, <4>1, <4>2
        <4>5. Failed(nStatus, Parent[x]) /\ Parent[x] \notin linked
          BY Zenon, <4>1, <4>2, <4>4 DEF LinkInv, ProcessedWaits
        <4>6. "TRANSACTIONS" \notin nStatus[Parent[x]]
          BY Zenon, <4>3, <4>5 DEF LinkInv, FailedIsUnprocessed
        <4> QED
          BY Zenon, <1>2, <1>4, <2>2, <4>3, <4>5, <4>6
      <3>3. CASE b \in Ancestors[c] /\ ~ParentLinked(b)
        <4>1. Parent[b] \in Blocks /\ b \notin Ancestors[Parent[b]]
              /\ Ancestors[Parent[b]] \subseteq Ancestors[c]
          BY Zenon, <3>0, <3>3, ParentBelow, BelowIsChain
        <4>2. \A a \in Ancestors[Parent[b]] : "TRANSACTIONS" \in nStatus[a]
          BY Zenon, <1>4, <2>2, <4>1, BelowIsChain
        <4>3. Parent[b] \in mapBlockIndex
          BY <1>2, <4>1, <4>2, ParentBelow, BelowIsChain DEF TreeInv, IndexClosed
        <4> QED
          BY Zenon, <3>3, <4>2, <4>3 DEF LinkInv, LinkedIffProcessed, ParentLinked
      <3> QED
        BY Zenon, <3>1, <3>2, <3>3
    <2> QED
      BY Zenon, <2>1, <2>2 DEF LinkedIffProcessed
  <1> QED
    BY Zenon, <1>7, <1>8, <1>9 DEF LinkInv

\* Every step keeps the linking invariant.
LEMMA LinkKept ==
  ASSUME MaxManual = 0, MaxPrune = 0, TreeInv, LinkInv, [Next]_vars
  PROVE  LinkInv'
  <1>0. nStatus \in [Blocks -> SUBSET Flags] /\ mapBlockIndex \subseteq Blocks
    BY Zenon DEF TreeInv, TypeOK
  <1>1. TreeInv' /\ ProcessedHasData'
    BY Zenon, StepKeepsTree, DataKept DEF LinkInv
  <1>2. mapBlockIndex' \subseteq Blocks
    BY Zenon, <1>1 DEF TreeInv, TypeOK
  <1>3. CASE UNCHANGED <<mapBlockIndex, nStatus, linked, unlinked>>
    BY Zenon, <1>1, <1>2, <1>3, SameLinksExact
  <1>4. ASSUME NEW b \in Blocks, ProcessNewBlockHeader(b) PROVE LinkInv'
    BY Zenon, <1>1, <1>2, <1>4, SameLinksExact DEF ProcessNewBlockHeader, AddToBlockIndex
  <1>5. ASSUME NEW b \in Blocks, PruneOneBlockFile(b) PROVE LinkInv'
    BY <1>5 DEF PruneOneBlockFile, TreeInv, TypeOK
  <1>6. ASSUME NEW t \in Threads, NEW b \in Blocks, NEW fRequested \in BOOLEAN,
               ProcessNewBlock(t, b, fRequested)
        PROVE  LinkInv'
    <2>1. b # Genesis /\ HeaderAccepted(b) /\ AddToBlockIndex(b)
          /\ mapBlockIndex \subseteq mapBlockIndex'
      BY Zenon, <1>6 DEF ProcessNewBlock, AddToBlockIndex
    <2>2. CASE UNCHANGED <<nStatus, linked, unlinked>>
      BY Zenon, <1>1, <1>2, <2>1, <2>2, SameLinksExact
    <2>3. CASE /\ ~NotProcessed(b, fRequested) /\ UNCHANGED <<linked, unlinked>>
               /\ nStatus' = Raise(nStatus, {b}, {"FAILED_VALID"})
      <3>1. "TRANSACTIONS" \notin nStatus[b]
        BY Zenon, <2>1, <2>3, ReceivedIsNew DEF LinkInv
      <3>2. \A c \in Blocks : nStatus'[c] = IF c = b THEN nStatus[c] \cup {"FAILED_VALID"} ELSE nStatus[c]
        BY Zenon, <1>0, <2>3 DEF Raise
      <3>3. /\ \A c \in Blocks : "TRANSACTIONS" \in nStatus'[c] <=> "TRANSACTIONS" \in nStatus[c]
            /\ \A c \in Blocks : Failed(nStatus, c) => Failed(nStatus', c)
            /\ \A c \in Blocks \ linked : Failed(nStatus', c) =>
                  Failed(nStatus, c) \/ "TRANSACTIONS" \notin nStatus[c]
        <4>1. \A c \in Blocks : "TRANSACTIONS" \in nStatus'[c] <=> "TRANSACTIONS" \in nStatus[c]
          <5> TAKE c \in Blocks
          <5>1. nStatus'[c] = nStatus[c] \/ nStatus'[c] = nStatus[c] \cup {"FAILED_VALID"}
            BY Zenon, <3>2
          <5> QED BY Zenon, <5>1
        <4>2. \A c \in Blocks : nStatus[c] \subseteq nStatus'[c]
          BY Zenon, <3>2
        <4>3. \A c \in Blocks : c = b \/ nStatus'[c] = nStatus[c]
          BY Zenon, <3>2
        <4> QED
          BY Zenon, <3>1, <4>1, <4>2, <4>3 DEF Failed
      <3> QED
        BY Zenon, <1>1, <1>2, <2>1, <2>3, <3>3, SameLinksExact
    <2>4. CASE ~NotProcessed(b, fRequested) /\ ReceivedBlockTransactions(b)
      BY Zenon, <1>1, <2>1, <2>4, ReceivedKeepsLink
    <2> QED
      BY Zenon, <1>6, <2>2, <2>3, <2>4 DEF ProcessNewBlock, MarkInvalid
  <1>7. ASSUME NEW t \in Threads, ChooseTarget(t), Discard PROVE LinkInv'
    <2> DEFINE failing == UNION {PathAbove(c) : c \in DiscardedFailed}
    <2>1. failing \subseteq linked
      BY Zenon, DiscardFacts
    <2>2. \A c \in Blocks : nStatus'[c] = IF c \in failing THEN nStatus[c] \cup {"FAILED_CHILD"}
                                                           ELSE nStatus[c]
      BY Zenon, <1>0, <1>7 DEF Discard, Raise
    <2> HIDE DEF failing
    <2>3. /\ \A c \in Blocks : "TRANSACTIONS" \in nStatus'[c] <=> "TRANSACTIONS" \in nStatus[c]
          /\ \A c \in Blocks : Failed(nStatus, c) => Failed(nStatus', c)
          /\ \A c \in Blocks \ linked : Failed(nStatus', c) => Failed(nStatus, c)
      <3>1. \A c \in Blocks : "TRANSACTIONS" \in nStatus'[c] <=> "TRANSACTIONS" \in nStatus[c]
        <4> TAKE c \in Blocks
        <4>1. nStatus'[c] = nStatus[c] \/ nStatus'[c] = nStatus[c] \cup {"FAILED_CHILD"}
          BY Zenon, <2>2
        <4> QED BY Zenon, <4>1
      <3>2. \A c \in Blocks : nStatus[c] \subseteq nStatus'[c]
        BY Zenon, <2>2
      <3>3. \A c \in Blocks \ linked : nStatus'[c] = nStatus[c]
        BY Zenon, <2>1, <2>2
      <3> QED
        BY Zenon, <3>1, <3>2, <3>3 DEF Failed
    <2>4. linked' = linked /\ mapBlockIndex' = mapBlockIndex /\ unlinked \subseteq unlinked'
      BY Zenon, <1>7 DEF ChooseTarget, Discard
    <2> QED
      BY Zenon, <1>1, <1>2, <2>3, <2>4, SameLinksExact
  <1>8. ASSUME NEW t \in Threads, StepForward(t) PROVE LinkInv'
    <2>1. /\ \A c \in Blocks : nStatus[c] \subseteq nStatus'[c]
          /\ \A c \in Blocks \ linked : nStatus'[c] = nStatus[c]
          /\ \A c \in Blocks : nStatus'[c] \cap {"TRANSACTIONS", "FAILED_CHILD", "DATA"}
                               = nStatus[c] \cap {"TRANSACTIONS", "FAILED_CHILD", "DATA"}
      BY Zenon, <1>8, ForwardFacts
    <2>2. /\ \A c \in Blocks : "TRANSACTIONS" \in nStatus'[c] <=> "TRANSACTIONS" \in nStatus[c]
          /\ \A c \in Blocks : Failed(nStatus, c) => Failed(nStatus', c)
          /\ \A c \in Blocks \ linked : Failed(nStatus', c) => Failed(nStatus, c)
      BY Zenon, <2>1 DEF Failed
    <2>3. linked' = linked /\ mapBlockIndex' = mapBlockIndex /\ unlinked' = unlinked
      BY Zenon, <1>8 DEF StepForward
    <2> QED
      BY Zenon, <1>1, <1>2, <2>2, <2>3, SameLinksExact
  <1>9. ASSUME NEW t \in Threads, ThreadStep(t) PROVE LinkInv'
    <2>1. \/ UNCHANGED <<mapBlockIndex, nStatus, linked, unlinked>>
          \/ ChooseTarget(t) /\ Discard
          \/ StepForward(t)
      BY Zenon, <1>9 DEF ThreadStep, ChooseTarget, ActivateBestChainStep, StepCannotDisconnect, StepBack
    <2> QED
      BY Zenon, <1>3, <1>7, <1>8, <2>1
  <1> QED
    BY Zenon, <1>3, <1>4, <1>5, <1>6, <1>9, NoManualOps
       DEF Next, InvalidateBlock, ResetBlockFailureFlags, PreciousBlock, vars

\* As long as nothing is pruned and no RPC is called, nChainTx is set for
\* exactly the blocks of which all ancestors were received, in whatever order
\* headers and blocks arrive and fail.
THEOREM LinkingExact ==
  ASSUME MaxManual = 0, MaxPrune = 0
  PROVE  Spec => []LinkedIffAncestorsProcessed
  <1>1. TreeInv /\ LinkInv /\ [Next]_vars => LinkInv'
    BY Zenon, LinkKept
  <1>2. TreeInv /\ LinkInv => LinkedIffAncestorsProcessed
    BY Zenon DEF TreeInv, LinkInv, LinkedIffProcessed, LinkedIffAncestorsProcessed
  <1> QED
    BY <1>1, <1>2, InitLink, TreeInvHolds, PTL DEF Spec

\* A single thread calls ActivateBestChain.
OneThread == \A t, u \in Threads : t = u

-----------------------------------------------------------------------------
(* Work along a branch, forks, and the block where a step stops.            *)

\* nChainWork grows from a block to its descendants.
LEMMA WorkGrows ==
  ASSUME NEW b \in Blocks, NEW a \in Ancestors[b]
  PROVE  a \in Blocks /\ Work[a] <= Work[b] /\ (a # b => Work[a] < Work[b])
  <1>0. Work \in [Blocks -> Nat] /\ \A x \in Blocks \ {Genesis} : Work[Parent[x]] < Work[x]
    BY Zenon, TreeAssumption
  <1>1. a \in Blocks /\ Ancestors[Genesis] = {Genesis}
    BY Zenon, TreeAssumption
  <1>2. ASSUME NEW c \in Blocks, a \in Ancestors[c], Work[c] < Work[a] PROVE FALSE
    <2> DEFINE S == {x \in Blocks : a \in Ancestors[x] /\ Work[x] < Work[a]}
    <2>1. c \in S /\ S \in SUBSET Blocks
      BY Zenon, <1>2
    <2>2. PICK m \in S : \A y \in S : Work[m] <= Work[y]
      BY Zenon, <2>1, LowestChosen
    <2>3. m \in Blocks /\ a \in Ancestors[m] /\ Work[m] < Work[a]
      BY Zenon, <2>2
    <2>4. m # a /\ m # Genesis
      BY <1>0, <1>1, <2>3
    <2>5. Parent[m] \in Blocks /\ a \in Ancestors[Parent[m]] /\ Work[Parent[m]] < Work[m]
      BY <1>0, <2>3, <2>4, ParentBelow
    <2>6. Parent[m] \in S
      BY <1>0, <1>1, <2>3, <2>5
    <2> QED
      BY <1>0, <2>2, <2>3, <2>5, <2>6
  <1>3. Work[a] <= Work[b]
    BY <1>0, <1>1, <1>2
  <1>4. ASSUME a # b PROVE Work[a] < Work[b]
    <2>1. b # Genesis
      BY Zenon, <1>1, <1>4
    <2>2. Parent[b] \in Blocks /\ a \in Ancestors[Parent[b]] /\ Work[Parent[b]] < Work[b]
      BY <1>0, <1>4, <2>1, ParentBelow
    <2>3. ~(Work[Parent[b]] < Work[a])
      BY Zenon, <1>2, <2>2
    <2> QED
      BY <1>0, <1>1, <2>2, <2>3
  <1> QED
    BY Zenon, <1>1, <1>3, <1>4

\* The fork with the active chain is below the tip, and above all they share.
LEMMA ForkFacts ==
  ASSUME NEW b \in Blocks, tip \in Blocks
  PROVE  /\ Fork(b) \in Blocks /\ Fork(b) \in Ancestors[b] /\ Fork(b) \in Ancestors[tip]
         /\ \A x \in Ancestors[b] \cap Ancestors[tip] : x \in Ancestors[Fork(b)]
  <1> DEFINE S == Ancestors[b] \cap Ancestors[tip]
  <1>1. S \in SUBSET Blocks /\ S # {}
    BY Zenon, BelowIsChain
  <1>2. Fork(b) \in S /\ \A y \in S : Work[y] <= Work[Fork(b)]
    BY Zenon, <1>1, HighestChosen DEF Fork
  <1>3. ASSUME NEW x \in S, x \notin Ancestors[Fork(b)] PROVE FALSE
    <2>1. Fork(b) \in Ancestors[x] /\ x \in Blocks /\ x # Fork(b)
      BY Zenon, <1>1, <1>2, <1>3, BelowIsChain
    <2>2. Work[Fork(b)] < Work[x]
      BY Zenon, <2>1, WorkGrows
    <2>3. Work[x] \in Nat /\ Work[Fork(b)] \in Nat
      BY Zenon, <1>1, <1>2, TreeAssumption
    <2> QED
      BY <1>2, <2>2, <2>3
  <1> QED
    BY Zenon, <1>1, <1>2, <1>3

\* What one step of ActivateBestChainStep connects: the blocks up to the one
\* where it stops, none of them invalid or missing; it stops below the tip's
\* work only at a block that is.
LEMMA StopFacts ==
  ASSUME TreeInv, NEW t \in Threads, pc[t] = "step", mostWork[t] \notin Ancestors[tip]
  PROVE  LET stop == StopsAt(t)
             target == mostWork[t]
         IN  /\ target \in Blocks /\ tip \in Blocks /\ stop \in Ancestors[target] \ Ancestors[tip]
             /\ stop \in Blocks \ {Genesis}
             /\ \/ Work[stop] > Work[tip] \/ stop = target
                \/ stop \in BadConnect \/ "DATA" \notin nStatus[stop]
             /\ \A x \in Ancestors[Parent[stop]] : x \in Ancestors[target] /\
                   \/ x \in Ancestors[tip]
                   \/ Work[x] <= Work[tip] /\ x \notin BadConnect /\ "DATA" \in nStatus[x]
  <1> DEFINE stop == StopsAt(t)
             target == mostWork[t]
             S == {x \in Ancestors[target] \ Ancestors[tip] :
                     \/ Work[x] > Work[tip] \/ x = target
                     \/ x \in BadConnect \/ "DATA" \notin nStatus[x]}
  <1>1. target \in Blocks /\ tip \in Blocks
    BY Zenon DEF TreeInv, ChainsAreLinked, TypeOK
  <1>2. S \in SUBSET Blocks /\ target \in S
    BY Zenon, <1>1, BelowIsChain
  <1>3. stop \in S /\ \A y \in S : Work[stop] <= Work[y]
    BY Zenon, <1>2, LowestChosen DEF StopsAt
  <1>4. stop \in Blocks \ {Genesis}
    BY Zenon, <1>1, <1>2, <1>3, BelowIsChain
  <1>5. ASSUME NEW x \in Ancestors[Parent[stop]], x \notin Ancestors[tip], x \in S PROVE FALSE
    <2>1. x \in Ancestors[stop] /\ x # stop
      BY <1>4, ParentBelow
    <2>2. Work[x] < Work[stop] /\ x \in Blocks
      BY Zenon, <1>4, <2>1, WorkGrows
    <2>3. Work[x] \in Nat /\ Work[stop] \in Nat
      BY Zenon, <1>4, <2>2, TreeAssumption
    <2> QED
      BY <1>3, <1>5, <2>2, <2>3
  <1>6. ASSUME NEW x \in Ancestors[Parent[stop]]
        PROVE  x \in Ancestors[target] /\ x \in Blocks
    <2>1. x \in Ancestors[stop]
      BY <1>4, ParentBelow
    <2> QED
      BY Zenon, <1>1, <1>3, <1>4, <2>1, BelowIsChain
  <1>7. ASSUME NEW x \in Ancestors[Parent[stop]], x \notin Ancestors[tip]
        PROVE  Work[x] <= Work[tip] /\ x \notin BadConnect /\ "DATA" \in nStatus[x]
    <2>1. ~(Work[x] > Work[tip]) /\ x \notin BadConnect /\ "DATA" \in nStatus[x]
      BY Zenon, <1>5, <1>6, <1>7
    <2>2. Work[x] \in Nat /\ Work[tip] \in Nat
      BY Zenon, <1>1, <1>6, TreeAssumption
    <2> QED
      BY <2>1, <2>2
  <1> HIDE DEF S
  <1>8. /\ stop \in Ancestors[target] \ Ancestors[tip]
        /\ Work[stop] > Work[tip] \/ stop = target \/ stop \in BadConnect \/ "DATA" \notin nStatus[stop]
    BY Zenon, <1>3 DEF S
  <1> QED
    BY Zenon, <1>1, <1>4, <1>6, <1>7, <1>8

\* What StepForward does to the tip, the flags, the candidates and the thread.
LEMMA ForwardOutcome ==
  ASSUME TreeInv, NEW t \in Threads, StepForward(t)
  PROVE  LET stop == StopsAt(t)
             target == mostWork[t]
             missing == "DATA" \notin nStatus[stop]
             invalid == ~missing /\ stop \in BadConnect
         IN  /\ tip' = IF missing \/ invalid THEN Parent[stop] ELSE stop
             /\ tip' \in Ancestors[target]
             /\ \A x \in Ancestors[tip'] : x \in Ancestors[target] /\
                   (x \in Ancestors[tip] \/ (x \notin BadConnect /\ "DATA" \in nStatus[x]))
             /\ \A x \in Blocks : (x = stop /\ invalid) \/ (Failed(nStatus', x) <=> Failed(nStatus, x))
             /\ invalid => "FAILED_VALID" \in nStatus'[stop]
             /\ missing \/ invalid => Work[tip'] <= Work[tip]
             /\ ~missing /\ ~invalid => Work[tip'] > Work[tip] \/ tip' = target
             /\ \A c \in candidates :
                   c \in candidates' \/ (c = stop /\ invalid) \/ Worse(nSequenceId, c, tip')
             /\ \A c \in candidates' : /\ c \in candidates /\ (invalid => c # stop)
                                       /\ tip' \in Ancestors[tip] \/ ~Worse(nSequenceId, c, tip')
             /\ health' = IF missing THEN "aborted" ELSE health
             /\ \/ pc' = [pc EXCEPT ![t] = "idle"] /\ (missing \/ tip' = target)
                   /\ mostWork' = [mostWork EXCEPT ![t] = NoBlock]
                \/ pc' = [pc EXCEPT ![t] = "activate"] /\ ~missing
                   /\ mostWork' = [mostWork EXCEPT ![t] = IF invalid THEN NoBlock ELSE target]
  <1> DEFINE stop == StopsAt(t)
             target == mostWork[t]
             missing == "DATA" \notin nStatus[stop]
             invalid == ~missing /\ stop \in BadConnect
             new == Ancestors[tip'] \ Ancestors[Fork(target)]
             pruned == IF new = {} THEN candidates ELSE PruneBlockIndexCandidates(candidates, tip')
  <1>1. pc[t] = "step" /\ target \notin Ancestors[tip]
    BY Zenon DEF StepForward
  <1>2. /\ target \in Blocks /\ tip \in Blocks /\ stop \in Ancestors[target] \ Ancestors[tip]
        /\ stop \in Blocks \ {Genesis}
        /\ \/ Work[stop] > Work[tip] \/ stop = target
           \/ stop \in BadConnect \/ "DATA" \notin nStatus[stop]
        /\ \A x \in Ancestors[Parent[stop]] : x \in Ancestors[target] /\
              \/ x \in Ancestors[tip]
              \/ Work[x] <= Work[tip] /\ x \notin BadConnect /\ "DATA" \in nStatus[x]
    BY Zenon, <1>1, StopFacts
  <1>3. /\ tip' = IF missing \/ invalid THEN Parent[stop] ELSE stop
        /\ nStatus' = IF invalid THEN MarkInvalid(Connected(nStatus, new), stop)
                                 ELSE Connected(nStatus, new)
        /\ candidates' = IF invalid THEN pruned \ {stop} ELSE pruned
        /\ health' = IF missing THEN "aborted" ELSE health
        /\ IF missing \/ tip' = target
           THEN ReturnFromActivate(t)
           ELSE /\ pc' = [pc EXCEPT ![t] = "activate"]
                /\ mostWork' = [mostWork EXCEPT ![t] = IF invalid THEN NoBlock ELSE target]
    BY Zenon DEF StepForward
  <1>4. /\ Parent[stop] \in Blocks /\ Parent[stop] \in Ancestors[Parent[stop]]
        /\ Ancestors[stop] = Ancestors[Parent[stop]] \cup {stop}
    BY Zenon, <1>2, ParentBelow, BelowIsChain
  <1>5. tip' \in Blocks /\ tip' \in Ancestors[target]
    BY Zenon, <1>2, <1>3, <1>4
  <1>6. ASSUME NEW x \in Ancestors[tip']
        PROVE  /\ x \in Ancestors[target]
               /\ x \in Ancestors[tip] \/ (x \notin BadConnect /\ "DATA" \in nStatus[x])
    BY Zenon, <1>2, <1>3, <1>4
  <1>7. missing \/ invalid => Work[tip'] <= Work[tip]
    <2> SUFFICES ASSUME missing \/ invalid PROVE Work[Parent[stop]] <= Work[tip]
      BY Zenon, <1>3
    <2>1. Parent[stop] \in Ancestors[tip] \/ Work[Parent[stop]] <= Work[tip]
      BY Zenon, <1>2, <1>4
    <2> QED
      BY Zenon, <1>2, <2>1, WorkGrows
  <1>8. ~missing /\ ~invalid => Work[tip'] > Work[tip] \/ tip' = target
    BY Zenon, <1>2, <1>3
  <1>9. /\ \A x \in Blocks : (x = stop /\ invalid) \/ (Failed(nStatus', x) <=> Failed(nStatus, x))
        /\ invalid => "FAILED_VALID" \in nStatus'[stop]
    <2> DEFINE status == Connected(nStatus, new)
    <2>0. nStatus \in [Blocks -> SUBSET Flags]
      BY Zenon DEF TreeInv, TypeOK
    <2>1. status \in [Blocks -> SUBSET Flags]
      BY Zenon, <2>0 DEF Connected, Flags
    <2>2. \A x \in Blocks : Failed(status, x) <=> Failed(nStatus, x)
      <3> TAKE x \in Blocks
      <3>1. \/ status[x] = nStatus[x]
            \/ status[x] = nStatus[x] \cup {"UNDO"} \cup {}
            \/ status[x] = nStatus[x] \cup {"UNDO"} \cup {"SCRIPTS"}
        BY Zenon DEF Connected
      <3> QED
        BY Zenon, <3>1 DEF Failed, FailedMask
    <2> HIDE DEF status
    <2>3. CASE invalid
      <3>1. nStatus' = Raise(status, {stop}, {"FAILED_VALID"})
        BY Zenon, <1>3, <2>3 DEF status, MarkInvalid
      <3>2. \A x \in Blocks : nStatus'[x] = IF x = stop THEN status[x] \cup {"FAILED_VALID"} ELSE status[x]
        BY Zenon, <2>1, <3>1 DEF Raise
      <3>3. "FAILED_VALID" \in nStatus'[stop]
        BY Zenon, <1>2, <3>2
      <3>4. \A x \in Blocks : x = stop \/ nStatus'[x] = status[x]
        BY Zenon, <3>2
      <3> QED
        BY Zenon, <2>2, <2>3, <3>3, <3>4 DEF Failed
    <2>4. CASE ~invalid
      BY Zenon, <1>3, <2>2, <2>4 DEF status
    <2> QED
      BY Zenon, <2>3, <2>4
  <1>10. ASSUME new = {} PROVE tip' \in Ancestors[tip]
    <2>1. Fork(target) \in Blocks /\ Fork(target) \in Ancestors[tip]
      BY Zenon, <1>2, ForkFacts
    <2>2. tip' \in Ancestors[tip']
      BY Zenon, <1>5, BelowIsChain
    <2> QED
      BY Zenon, <1>2, <1>10, <2>1, <2>2, BelowIsChain
  <1> HIDE DEF new
  <1>11. /\ \A c \in candidates :
               c \in candidates' \/ (c = stop /\ invalid) \/ Worse(nSequenceId, c, tip')
         /\ \A c \in candidates' : /\ c \in candidates /\ (invalid => c # stop)
                                   /\ tip' \in Ancestors[tip] \/ ~Worse(nSequenceId, c, tip')
    BY Zenon, <1>3, <1>10 DEF PruneBlockIndexCandidates
  <1>12. \/ pc' = [pc EXCEPT ![t] = "idle"] /\ (missing \/ tip' = target)
            /\ mostWork' = [mostWork EXCEPT ![t] = NoBlock]
         \/ pc' = [pc EXCEPT ![t] = "activate"] /\ ~missing
            /\ mostWork' = [mostWork EXCEPT ![t] = IF invalid THEN NoBlock ELSE target]
    BY Zenon, <1>3 DEF ReturnFromActivate
  <1> QED
    BY Zenon, <1>3, <1>5, <1>6, <1>7, <1>8, <1>9, <1>11, <1>12

-----------------------------------------------------------------------------
(* Work is lost only to invalid blocks.                                     *)

\* No block of the chain that ends in c is flagged as failed.
Clean(c) == \A x \in Ancestors[c] : ~Failed(nStatus, x)

\* AcceptBlock never takes the transactions of a block that fails
\* ContextualCheckBlock.
BadNeverReceived == \A b \in BadContext : "TRANSACTIONS" \notin nStatus[b]

\* pindexMostWork lives as long as the call of ActivateBestChain.
IdleHasNoTarget == \A t \in Threads : pc[t] = "idle" => mostWork[t] = NoBlock

\* As long as no chain failed to be undone: the active chain is clean, and
\* the candidates and the target have at least its work.
ChainsHaveWork ==
  health = "ok" =>
    /\ Clean(tip)
    /\ \A c \in candidates : Work[tip] <= Work[c]
    /\ \A t \in Threads : mostWork[t] # NoBlock =>
          Clean(mostWork[t]) /\ Work[tip] <= Work[mostWork[t]]

WorkInv == BadNeverReceived /\ IdleHasNoTarget /\ ChainsHaveWork

\* Genesis is active, a candidate, and sound.
LEMMA InitWork == Init => WorkInv
  <1> SUFFICES ASSUME Init PROVE WorkInv
    OBVIOUS
  <1>1. BadNeverReceived /\ IdleHasNoTarget
    BY Zenon, TreeAssumption DEF Init, BadNeverReceived, IdleHasNoTarget
  <1>2. ChainsHaveWork
    BY TreeAssumption DEF Init, ChainsHaveWork, Clean, Failed, FailedMask
  <1> QED
    BY Zenon, <1>1, <1>2 DEF WorkInv

\* What is a block, where the invariant speaks of one.
LEMMA ChainTypes ==
  ASSUME TreeInv
  PROVE  /\ tip \in Blocks /\ tip \in linked /\ linked \subseteq Blocks /\ candidates \subseteq linked
         /\ nStatus \in [Blocks -> SUBSET Flags]
         /\ nSequenceId \in [Blocks -> Int]
         /\ \A t \in Threads : mostWork[t] \in Blocks \cup {NoBlock}
         /\ pc \in [Threads -> {"idle", "activate", "step"}]
         /\ mostWork \in [Threads -> Blocks \cup {NoBlock}]
         /\ NoBlock \notin Blocks /\ health \in {"ok", "failed", "aborted"}
         /\ \A b \in linked : "TRANSACTIONS" \in nStatus[b] /\ Ancestors[b] \subseteq linked
  BY TreeAssumption DEF TreeInv, TypeOK, ChainsAreLinked, LinkedDownwards

\* A step that flags no block of a clean chain keeps clean chains clean.
LEMMA CleanKept ==
  ASSUME NEW c \in Blocks, Clean(c), \A x \in Ancestors[c] : Failed(nStatus', x) => Failed(nStatus, x)
  PROVE  Clean(c)'
  BY Zenon DEF Clean

\* A step that leaves the tip and the targets, flags no block of a linked
\* chain, and adds only candidates with enough work, keeps the invariant.
LEMMA SameTipKeepsWork ==
  ASSUME TreeInv, WorkInv, UNCHANGED <<tip, mostWork, health>>,
         \A b \in BadContext : "TRANSACTIONS" \in nStatus'[b] => "TRANSACTIONS" \in nStatus[b],
         \A t \in Threads : pc'[t] = "idle" => pc[t] = "idle",
         \A c \in candidates' : c \in candidates \/ Work[tip] <= Work[c],
         \A x \in linked : Failed(nStatus', x) => Failed(nStatus, x)
  PROVE  WorkInv'
  <1>1. BadNeverReceived' /\ IdleHasNoTarget'
    BY Zenon DEF WorkInv, BadNeverReceived, IdleHasNoTarget
  <1>2. ChainsHaveWork'
    <2> SUFFICES ASSUME health = "ok"
                 PROVE  /\ Clean(tip)' /\ \A c \in candidates' : Work[tip] <= Work[c]
                        /\ \A t \in Threads : mostWork[t] # NoBlock =>
                             Clean(mostWork[t])' /\ Work[tip] <= Work[mostWork[t]]
      BY Zenon DEF ChainsHaveWork, Clean
    <2>1. \A c \in linked : Clean(c) => Clean(c)'
      BY Zenon, ChainTypes, CleanKept
    <2>2. \A t \in Threads : mostWork[t] \in linked \cup {NoBlock}
      BY Zenon DEF TreeInv, ChainsAreLinked
    <2> QED
      BY Zenon, <2>1, <2>2, ChainTypes DEF WorkInv, ChainsHaveWork
  <1> QED
    BY Zenon, <1>1, <1>2 DEF WorkInv

\* With one thread, outside ActivateBestChain nobody has a target.
LEMMA EnterHasNoTarget ==
  ASSUME OneThread, IdleHasNoTarget, NEW t \in Threads, Enter(t)
  PROVE  \A u \in Threads : mostWork[u] = NoBlock
  BY Zenon DEF OneThread, IdleHasNoTarget, Enter

\* The candidates that ReceivedBlockTransactions adds, and those it does not.
LEMMA ReceivedCandidates ==
  ASSUME TreeInv, NEW b \in Blocks \ {Genesis}, ReceivedBlockTransactions(b)
  PROVE  LET queue == IF ParentLinked(b) THEN NowLinked(b) ELSE {}
         IN  candidates' = candidates \cup {x \in queue : ~Worse(nSequenceId', x, tip)}
  BY Zenon DEF ReceivedBlockTransactions

\* A block that is not worse has as much work.
LEMMA NotWorseHasWork ==
  ASSUME NEW seq, NEW x \in Blocks, NEW y \in Blocks, ~Worse(seq, x, y) \/ Worse(seq, y, x)
  PROVE  Work[y] <= Work[x]
  BY TreeAssumption DEF Worse

\* ProcessNewBlock.
LEMMA BlockKeepsWork ==
  ASSUME OneThread, TreeInv, WorkInv, NEW t \in Threads, NEW b \in Blocks, NEW fRequested \in BOOLEAN,
         ProcessNewBlock(t, b, fRequested)
  PROVE  WorkInv'
  <1>1. /\ UNCHANGED <<tip, mostWork, health>> /\ b # Genesis
        /\ pc' = pc \/ pc' = [pc EXCEPT ![t] = "activate"]
    BY Zenon DEF ProcessNewBlock
  <1>2. \A u \in Threads : pc'[u] = "idle" => pc[u] = "idle"
    BY Zenon, <1>1, ChainTypes
  <1>3. CASE UNCHANGED <<nStatus, candidates>>
    BY Zenon, <1>1, <1>2, <1>3, SameTipKeepsWork
  <1>4. CASE b \in BadContext /\ nStatus' = MarkInvalid(nStatus, b) /\ candidates' = candidates
    <2>1. b \notin linked
      BY Zenon, <1>4, ChainTypes DEF WorkInv, BadNeverReceived
    <2>2. \A x \in Blocks : nStatus'[x] = IF x = b THEN nStatus[x] \cup {"FAILED_VALID"} ELSE nStatus[x]
      BY Zenon, <1>4, ChainTypes DEF MarkInvalid, Raise
    <2>3. \A x \in linked : Failed(nStatus', x) => Failed(nStatus, x)
      BY Zenon, <2>1, <2>2, ChainTypes DEF Failed
    <2>4. \A x \in BadContext : "TRANSACTIONS" \in nStatus'[x] => "TRANSACTIONS" \in nStatus[x]
      <3> TAKE x \in BadContext
      <3>1. x \in Blocks /\ (nStatus'[x] = nStatus[x] \cup {"FAILED_VALID"} \/ nStatus'[x] = nStatus[x])
        BY Zenon, <2>2, TreeAssumption
      <3> QED
        BY <3>1
    <2> QED
      BY Zenon, <1>1, <1>2, <1>4, <2>3, <2>4, SameTipKeepsWork
  <1>5. CASE b \notin BadContext /\ ReceivedBlockTransactions(b)
    <2>1. nStatus' = Raise(nStatus, {b}, {"DATA", "TRANSACTIONS"})
      BY Zenon, <1>5 DEF ReceivedBlockTransactions
    <2>2. \A x \in Blocks : nStatus'[x] = IF x = b THEN nStatus[x] \cup {"DATA", "TRANSACTIONS"} ELSE nStatus[x]
      BY Zenon, <2>1, ChainTypes DEF Raise
    <2>3. \A x \in BadContext : "TRANSACTIONS" \in nStatus'[x] => "TRANSACTIONS" \in nStatus[x]
      BY Zenon, <1>5, <2>2, TreeAssumption
    <2>4. \A x \in linked : Failed(nStatus', x) => Failed(nStatus, x)
      <3> TAKE x \in linked
      <3>1. nStatus'[x] = nStatus[x] \cup {"DATA", "TRANSACTIONS"} \/ nStatus'[x] = nStatus[x]
        BY Zenon, <2>2, ChainTypes
      <3> QED
        BY Zenon, <3>1 DEF Failed, FailedMask
    <2>5. \A c \in candidates' : c \in candidates \/ Work[tip] <= Work[c]
      <3> DEFINE queue == IF ParentLinked(b) THEN NowLinked(b) ELSE {}
      <3>1. candidates' = candidates \cup {x \in queue : ~Worse(nSequenceId', x, tip)}
        BY Zenon, <1>1, <1>5, ReceivedCandidates
      <3>2. queue \subseteq Blocks
        BY Zenon DEF NowLinked
      <3> QED
        BY Zenon, <3>1, <3>2, ChainTypes, NotWorseHasWork
    <2> QED
      BY Zenon, <1>1, <1>2, <2>3, <2>4, <2>5, SameTipKeepsWork
  <1> QED
    BY Zenon, <1>3, <1>4, <1>5 DEF ProcessNewBlock

\* What invalidateblock does, as long as it can undo the blocks above b: the
\* tip leaves the branch, which is flagged from b up, and nothing of the
\* chain that stays active.
LEMMA InvalidateFacts ==
  ASSUME TreeInv, NEW t \in Threads, NEW b \in Blocks, InvalidateBlock(t, b), health' = "ok"
  PROVE  /\ health = "ok" /\ Enter(t) /\ b # Genesis
         /\ mostWork' = mostWork /\ pc' = [pc EXCEPT ![t] = "activate"]
         /\ nSequenceId' = nSequenceId /\ linked' = linked
         /\ tip' = (IF b \in Ancestors[tip] THEN Parent[b] ELSE tip)
         /\ tip' \in Blocks /\ tip' \in Ancestors[tip] /\ b \notin Ancestors[tip']
         /\ "FAILED_VALID" \in nStatus'[b]
         /\ \A x \in Blocks : "TRANSACTIONS" \in nStatus'[x] <=> "TRANSACTIONS" \in nStatus[x]
         /\ \A x \in Blocks : Failed(nStatus, x) => Failed(nStatus', x)
         /\ \A x \in Blocks : b \notin Ancestors[x] => nStatus'[x] = nStatus[x]
         /\ \A x \in Blocks : Failed(nStatus', x) => Failed(nStatus, x) \/ b \in Ancestors[x]
         /\ \E erased \in SUBSET candidates :
               /\ \A c \in candidates \ erased : Failed(nStatus', c)
               /\ candidates' = erased \cup {x \in mapBlockIndex :
                     IsValid(nStatus', x) /\ x \in linked /\ ~Worse(nSequenceId, x, tip')}
  <1> DEFINE above == {x \in Ancestors[tip] : b \in Ancestors[x]}
             stuck == Stuck(above)
             status == Raise(MarkInvalid(nStatus, b), above, {"FAILED_CHILD"})
             newTip == IF above = {} THEN tip ELSE Parent[b]
             erased == candidates \ (above \cup {b})
  <1>1. ManualOp(t, "invalidate", b) /\ b # Genesis /\ nSequenceId' = nSequenceId
    BY Zenon DEF InvalidateBlock
  <1>2. /\ Enter(t) /\ mostWork' = mostWork /\ pc' = [pc EXCEPT ![t] = "activate"]
        /\ linked' = linked
    BY Zenon, <1>1 DEF ManualOp
  <1>3. CASE stuck # {}
    <2>1. health' = UndoFailure(Highest(stuck))
      BY Zenon, <1>3 DEF InvalidateBlock
    <2> QED
      BY Zenon, <2>1 DEF UndoFailure
  <1>4. CASE stuck = {}
    <2>1. /\ nStatus' = status /\ tip' = newTip
          /\ candidates' = erased \cup Readded(status, newTip) /\ health' = health
      BY Zenon, <1>4 DEF InvalidateBlock
    <2>2. tip \in Blocks /\ nStatus \in [Blocks -> SUBSET Flags]
      BY Zenon, ChainTypes
    <2>3. above = {} <=> b \notin Ancestors[tip]
      BY Zenon, <2>2, BelowIsChain
    <2>4. tip' = (IF b \in Ancestors[tip] THEN Parent[b] ELSE tip)
      BY Zenon, <2>1, <2>3
    <2>5. tip' \in Blocks /\ tip' \in Ancestors[tip] /\ b \notin Ancestors[tip']
      BY Zenon, <1>1, <2>2, <2>4, ParentBelow, BelowIsChain
    <2>6. \A x \in Blocks : nStatus'[x] = (nStatus[x] \cup (IF x = b THEN {"FAILED_VALID"} ELSE {}))
                                          \cup (IF x \in above THEN {"FAILED_CHILD"} ELSE {})
      BY Zenon, <2>1, <2>2 DEF MarkInvalid, Raise
    <2>7. \A x \in above \cup {b} : x \in Blocks /\ b \in Ancestors[x]
      BY Zenon, <2>2, BelowIsChain
    <2>8. "FAILED_VALID" \in nStatus'[b]
      BY Zenon, <2>6
    <2>9. \A x \in Blocks : b \notin Ancestors[x] => nStatus'[x] = nStatus[x]
      BY Zenon, <2>6, <2>7
    <2>10. \A x \in above \cup {b} : Failed(nStatus', x)
      BY Zenon, <2>6, <2>7 DEF Failed, FailedMask
    <2> HIDE DEF above
    <2>11. \A x \in Blocks : nStatus[x] \subseteq nStatus'[x]
      BY Zenon, <2>6
    <2>12. \A x \in Blocks : "TRANSACTIONS" \in nStatus'[x] <=> "TRANSACTIONS" \in nStatus[x]
      BY <2>6
    <2>13. \A x \in Blocks : Failed(nStatus, x) => Failed(nStatus', x)
      BY Zenon, <2>11 DEF Failed
    <2>14. \A x \in Blocks : Failed(nStatus', x) => Failed(nStatus, x) \/ b \in Ancestors[x]
      BY Zenon, <2>9 DEF Failed
    <2>15. /\ erased \in SUBSET candidates
           /\ \A c \in candidates \ erased : Failed(nStatus', c)
           /\ candidates' = erased \cup {x \in mapBlockIndex :
                 IsValid(nStatus', x) /\ x \in linked /\ ~Worse(nSequenceId, x, tip')}
      BY Zenon, <2>1, <2>10 DEF Readded
    <2> HIDE DEF erased
    <2> QED
      BY Zenon, <1>1, <1>2, <2>1, <2>4, <2>5, <2>8, <2>9, <2>12, <2>13, <2>14, <2>15
  <1> QED
    BY Zenon, <1>3, <1>4

\* invalidateblock.
LEMMA InvalidateKeepsWork ==
  ASSUME OneThread, TreeInv, WorkInv, NEW t \in Threads, NEW b \in Blocks, InvalidateBlock(t, b)
  PROVE  WorkInv'
  <1>1. /\ \A u \in Threads : mostWork[u] = NoBlock
        /\ mostWork' = mostWork /\ pc' = [pc EXCEPT ![t] = "activate"]
    BY Zenon, EnterHasNoTarget DEF WorkInv, InvalidateBlock, ManualOp
  <1>2. IdleHasNoTarget'
    BY Zenon, <1>1 DEF IdleHasNoTarget
  <1>3. BadNeverReceived'
    <2>1. PICK walked : nStatus' = Raise(MarkInvalid(nStatus, b), walked, {"FAILED_CHILD"})
      BY Zenon DEF InvalidateBlock
    <2>2. \A x \in BadContext : "TRANSACTIONS" \in nStatus'[x] => "TRANSACTIONS" \in nStatus[x]
      BY Zenon, <2>1, ChainTypes, TreeAssumption DEF MarkInvalid, Raise
    <2> QED
      BY Zenon, <2>2 DEF WorkInv, BadNeverReceived
  <1>4. ChainsHaveWork'
    <2> SUFFICES ASSUME health' = "ok"
                 PROVE  Clean(tip)' /\ \A c \in candidates' : Work[tip'] <= Work[c]
      BY Zenon, <1>1 DEF ChainsHaveWork
    <2>1. /\ health = "ok" /\ tip' \in Blocks /\ tip' \in Ancestors[tip] /\ b \notin Ancestors[tip']
          /\ \A x \in Blocks : Failed(nStatus', x) => Failed(nStatus, x) \/ b \in Ancestors[x]
      BY Zenon, InvalidateFacts
    <2>2. Clean(tip) /\ tip \in Blocks /\ \A c \in candidates : Work[tip] <= Work[c]
      BY Zenon, <2>1, ChainTypes DEF WorkInv, ChainsHaveWork
    <2>3. Clean(tip)'
      <3> SUFFICES ASSUME NEW x \in Ancestors[tip'] PROVE ~Failed(nStatus', x)
        BY Zenon DEF Clean
      <3>1. x \in Ancestors[tip] /\ x \in Blocks /\ b \notin Ancestors[x]
        BY Zenon, <2>1, <2>2, BelowIsChain
      <3> QED
        BY Zenon, <2>1, <2>2, <3>1 DEF Clean
    <2>4. PICK erased \in SUBSET candidates : candidates' = erased \cup {x \in mapBlockIndex :
                     IsValid(nStatus', x) /\ x \in linked /\ ~Worse(nSequenceId, x, tip')}
      BY Zenon, InvalidateFacts
    <2>5. ASSUME NEW c \in candidates' PROVE Work[tip'] <= Work[c]
      <3>1. CASE c \in candidates
        <4>1. Work[tip'] <= Work[tip] /\ Work[tip] <= Work[c]
          BY Zenon, <2>1, <2>2, <3>1, WorkGrows
        <4>2. c \in Blocks
          BY Zenon, <3>1, ChainTypes
        <4>3. Work[tip'] \in Nat /\ Work[tip] \in Nat /\ Work[c] \in Nat
          BY Zenon, <2>1, <2>2, <4>2, TreeAssumption
        <4> QED
          BY <4>1, <4>3
      <3>2. CASE c \in linked /\ ~Worse(nSequenceId, c, tip')
        BY Zenon, <2>1, <3>2, ChainTypes, NotWorseHasWork
      <3> QED
        BY Zenon, <2>4, <3>1, <3>2
    <2> QED
      BY Zenon, <2>3, <2>5
  <1> QED
    BY Zenon, <1>2, <1>3, <1>4 DEF WorkInv

\* What reconsiderblock does.
LEMMA ReconsiderFacts ==
  ASSUME TreeInv, NEW t \in Threads, NEW b \in Blocks, ResetBlockFailureFlags(t, b)
  PROVE  LET cleared == {x \in mapBlockIndex : b \in Ancestors[x] /\ ~IsValid(nStatus, x)}
         IN  /\ Enter(t) /\ UNCHANGED <<tip, mostWork, health, linked, nSequenceId, mapBlockIndex>>
             /\ pc' = [pc EXCEPT ![t] = "activate"]
             /\ \A x \in Blocks : nStatus'[x] = IF x \in cleared \cup Ancestors[b]
                                                THEN nStatus[x] \ FailedMask ELSE nStatus[x]
             /\ candidates' = candidates \cup {x \in cleared :
                   "TRANSACTIONS" \in nStatus[x] /\ x \in linked /\ Worse(nSequenceId, tip, x)}
             /\ fReconsiderAbove' = (fReconsiderAbove \/ \E a \in Ancestors[b] \ {b} : Failed(nStatus, a))
  <1> DEFINE cleared == {x \in mapBlockIndex : b \in Ancestors[x] /\ ~IsValid(nStatus, x)}
             status == Clear(nStatus, cleared, FailedMask)
  <1>1. /\ ManualOp(t, "reconsider", b) /\ UNCHANGED <<tip, nSequenceId, health>>
        /\ nStatus' = Clear(status, Ancestors[b], FailedMask)
        /\ candidates' = candidates \cup
              {x \in cleared : IsValid(status, x) /\ x \in linked /\ Worse(nSequenceId, tip, x)}
    BY Zenon DEF ResetBlockFailureFlags
  <1>2. /\ Enter(t) /\ UNCHANGED <<mostWork, linked, mapBlockIndex>>
        /\ pc' = [pc EXCEPT ![t] = "activate"]
        /\ fReconsiderAbove' = (fReconsiderAbove \/ \E a \in Ancestors[b] \ {b} : Failed(nStatus, a))
    BY Zenon, <1>1 DEF ManualOp
  <1>3. \A x \in Blocks : status[x] = IF x \in cleared THEN nStatus[x] \ FailedMask ELSE nStatus[x]
    BY Zenon DEF Clear
  <1>4. \A x \in cleared : IsValid(status, x) <=> "TRANSACTIONS" \in nStatus[x]
    <2> TAKE x \in cleared
    <2>1. x \in Blocks
      BY Zenon DEF TreeInv, TypeOK
    <2>2. status[x] = nStatus[x] \ FailedMask
      BY Zenon, <1>3, <2>1
    <2> QED
      BY Zenon, <2>2 DEF IsValid, Failed, FailedMask
  <1> HIDE DEF cleared
  <1>5. status \in [Blocks -> SUBSET Flags]
    BY Zenon, ChainTypes DEF Clear
  <1> HIDE DEF status
  <1>6. \A x \in Blocks : nStatus'[x] = IF x \in cleared \cup Ancestors[b]
                                        THEN nStatus[x] \ FailedMask ELSE nStatus[x]
    <2>1. \A x \in Blocks : nStatus'[x] = IF x \in Ancestors[b] THEN status[x] \ FailedMask ELSE status[x]
      BY Zenon, <1>1 DEF Clear
    <2> QED
      BY Zenon, <1>3, <2>1
  <1>7. candidates' = candidates \cup {x \in cleared :
                   "TRANSACTIONS" \in nStatus[x] /\ x \in linked /\ Worse(nSequenceId, tip, x)}
    BY Zenon, <1>1, <1>4
  <1> QED
    BY Zenon, <1>1, <1>2, <1>6, <1>7 DEF cleared

\* reconsiderblock clears flags, and adds candidates better than the tip.
LEMMA ReconsiderKeepsWork ==
  ASSUME OneThread, TreeInv, WorkInv, NEW t \in Threads, NEW b \in Blocks, ResetBlockFailureFlags(t, b)
  PROVE  WorkInv'
  <1> DEFINE cleared == {x \in mapBlockIndex : b \in Ancestors[x] /\ ~IsValid(nStatus, x)}
  <1>1. /\ UNCHANGED <<tip, mostWork, health>> /\ pc' = [pc EXCEPT ![t] = "activate"]
        /\ \A x \in Blocks : nStatus'[x] = IF x \in cleared \cup Ancestors[b]
                                           THEN nStatus[x] \ FailedMask ELSE nStatus[x]
        /\ candidates' = candidates \cup {x \in cleared :
              "TRANSACTIONS" \in nStatus[x] /\ x \in linked /\ Worse(nSequenceId, tip, x)}
    BY Zenon, ReconsiderFacts
  <1> HIDE DEF cleared
  <1>2. \A x \in Blocks : nStatus'[x] \subseteq nStatus[x]
    BY Zenon, <1>1
  <1>3. \A x \in BadContext : "TRANSACTIONS" \in nStatus'[x] => "TRANSACTIONS" \in nStatus[x]
    BY Zenon, <1>2, TreeAssumption
  <1>4. \A x \in linked : Failed(nStatus', x) => Failed(nStatus, x)
    BY Zenon, <1>2, ChainTypes DEF Failed
  <1>5. \A c \in candidates' : c \in candidates \/ Work[tip] <= Work[c]
    BY Zenon, <1>1, ChainTypes, NotWorseHasWork
  <1>6. \A u \in Threads : pc'[u] = "idle" => pc[u] = "idle"
    BY Zenon, <1>1, ChainTypes
  <1> QED
    BY Zenon, <1>1, <1>3, <1>4, <1>5, <1>6, SameTipKeepsWork

\* preciousblock changes the candidates only for a block with enough work.
LEMMA PreciousKeepsWork ==
  ASSUME OneThread, TreeInv, WorkInv, NEW t \in Threads, NEW b \in Blocks, PreciousBlock(t, b)
  PROVE  WorkInv'
  <1>1. UNCHANGED <<tip, mostWork, health, nStatus>> /\ pc' = [pc EXCEPT ![t] = "activate"]
    BY Zenon DEF PreciousBlock, ManualOp
  <1>2. candidates' \subseteq candidates \/ (~(Work[b] < Work[tip]) /\ candidates' \subseteq candidates \cup {b})
    BY Zenon DEF PreciousBlock
  <1>3. Work[b] \in Nat /\ Work[tip] \in Nat
    BY Zenon, ChainTypes, TreeAssumption
  <1>4. \A c \in candidates' : c \in candidates \/ Work[tip] <= Work[c]
    BY <1>2, <1>3
  <1>5. \A u \in Threads : pc'[u] = "idle" => pc[u] = "idle"
    BY Zenon, <1>1, ChainTypes
  <1> QED
    BY Zenon, <1>1, <1>4, <1>5, SameTipKeepsWork

\* The search finds the best of the usable candidates, if there is one.
LEMMA FindFacts ==
  ASSUME TreeInv
  PROVE  \/ FindMostWorkChain = NoBlock /\ UsableCandidates = {}
         \/ /\ FindMostWorkChain \in UsableCandidates
            /\ \A c \in UsableCandidates \ {FindMostWorkChain} : Worse(nSequenceId, c, FindMostWorkChain)
  <1>1. UsableCandidates \in SUBSET Blocks
    BY Zenon, ChainTypes DEF UsableCandidates
  <1>2. CASE UsableCandidates = {}
    BY Zenon, <1>2 DEF FindMostWorkChain
  <1>3. CASE UsableCandidates # {}
    <2>1. FindMostWorkChain = Best(nSequenceId, UsableCandidates)
      BY Zenon, <1>3 DEF FindMostWorkChain
    <2> QED
      BY Zenon, <1>1, <1>3, <2>1, ChainTypes, BestChosen
  <1> QED
    BY Zenon, <1>2, <1>3

\* What the top of the loop of ActivateBestChain does: only blocks above a
\* failed one are flagged, so that clean chains stay clean.
LEMMA ChooseFacts ==
  ASSUME TreeInv, NEW t \in Threads, ChooseTarget(t)
  PROVE  LET target == IF mostWork[t] = NoBlock THEN FindMostWorkChain ELSE mostWork[t]
         IN  /\ UNCHANGED <<tip, linked, health, nSequenceId, fReconsiderAbove>> /\ pc[t] = "activate"
             /\ candidates' \subseteq candidates
             /\ \A x \in Blocks : nStatus[x] \subseteq nStatus'[x]
             /\ \A x \in Blocks : "TRANSACTIONS" \in nStatus'[x] => "TRANSACTIONS" \in nStatus[x]
             /\ \A c \in Blocks : Clean(c) => Clean(c)'
             /\ \/ /\ target \in {NoBlock, tip} /\ pc' = [pc EXCEPT ![t] = "idle"]
                   /\ mostWork' = [mostWork EXCEPT ![t] = NoBlock]
                \/ /\ target \notin {NoBlock, tip} /\ pc' = [pc EXCEPT ![t] = "step"]
                   /\ mostWork' = [mostWork EXCEPT ![t] = target]
  <1> DEFINE target == IF mostWork[t] = NoBlock THEN FindMostWorkChain ELSE mostWork[t]
             failing == UNION {PathAbove(c) : c \in DiscardedFailed}
  <1>1. /\ UNCHANGED <<tip, linked, health, nSequenceId, fReconsiderAbove>> /\ pc[t] = "activate"
        /\ \/ /\ target \in {NoBlock, tip} /\ pc' = [pc EXCEPT ![t] = "idle"]
              /\ mostWork' = [mostWork EXCEPT ![t] = NoBlock]
           \/ /\ target \notin {NoBlock, tip} /\ pc' = [pc EXCEPT ![t] = "step"]
              /\ mostWork' = [mostWork EXCEPT ![t] = target]
    BY Zenon DEF ChooseTarget, ids, manual
  <1>2. CASE UNCHANGED <<nStatus, candidates>>
    BY Zenon, <1>1, <1>2 DEF Clean
  <1>3. CASE Discard
    <2>1. nStatus' = Raise(nStatus, failing, {"FAILED_CHILD"}) /\ candidates' \subseteq candidates
      BY Zenon, <1>3 DEF Discard
    <2>2. ASSUME NEW x \in failing PROVE \E a \in Ancestors[x] : Failed(nStatus, a)
      <3>1. PICK c \in DiscardedFailed : x \in PathAbove(c)
        OBVIOUS
      <3>2. /\ Failed(nStatus, Highest(Blocking(c)))
            /\ Highest(Blocking(c)) \in Ancestors[x]
        BY Zenon, <3>1, DiscardFacts
      <3> QED
        BY Zenon, <3>2
    <2> HIDE DEF failing
    <2>3. \A x \in Blocks : nStatus'[x] = IF x \in failing THEN nStatus[x] \cup {"FAILED_CHILD"} ELSE nStatus[x]
      BY Zenon, <2>1, ChainTypes DEF Raise
    <2>4. \A x \in Blocks : nStatus[x] \subseteq nStatus'[x]
      BY Zenon, <2>3
    <2>5. \A x \in Blocks : "TRANSACTIONS" \in nStatus'[x] => "TRANSACTIONS" \in nStatus[x]
      <3> TAKE x \in Blocks
      <3>1. nStatus'[x] = nStatus[x] \/ nStatus'[x] = nStatus[x] \cup {"FAILED_CHILD"}
        BY Zenon, <2>3
      <3> QED
        BY <3>1
    <2>6. ASSUME NEW c \in Blocks, Clean(c) PROVE Clean(c)'
      <3>1. \A x \in Ancestors[c] : x \in Blocks /\ Ancestors[x] \subseteq Ancestors[c]
        BY Zenon, BelowIsChain
      <3>2. \A x \in Ancestors[c] : x \notin failing
        BY Zenon, <2>2, <2>6, <3>1 DEF Clean
      <3>3. \A x \in Ancestors[c] : Failed(nStatus', x) => Failed(nStatus, x)
        BY Zenon, <2>3, <3>1, <3>2 DEF Failed
      <3> QED
        BY Zenon, <2>6, <3>3, CleanKept
    <2> QED
      BY Zenon, <1>1, <2>1, <2>4, <2>5, <2>6
  <1> QED
    BY Zenon, <1>2, <1>3 DEF ChooseTarget

\* A usable candidate is a clean chain, if the active chain is one.
LEMMA UsableIsClean ==
  ASSUME TreeInv, Clean(tip), NEW c \in Blocks, Blocking(c) = {}
  PROVE  Clean(c)
  BY Zenon DEF Blocking, Clean

\* The top of the loop of ActivateBestChain.
LEMMA ChooseKeepsWork ==
  ASSUME OneThread, TreeInv, WorkInv, NEW t \in Threads, ChooseTarget(t)
  PROVE  WorkInv'
  <1> DEFINE target == IF mostWork[t] = NoBlock THEN FindMostWorkChain ELSE mostWork[t]
  <1>1. /\ UNCHANGED <<tip, linked, health>> /\ candidates' \subseteq candidates
        /\ \A x \in Blocks : "TRANSACTIONS" \in nStatus'[x] => "TRANSACTIONS" \in nStatus[x]
        /\ \A c \in Blocks : Clean(c) => Clean(c)'
        /\ \/ pc' = [pc EXCEPT ![t] = "idle"] /\ mostWork' = [mostWork EXCEPT ![t] = NoBlock]
           \/ /\ target \notin {NoBlock, tip} /\ pc' = [pc EXCEPT ![t] = "step"]
              /\ mostWork' = [mostWork EXCEPT ![t] = target]
    BY Zenon, ChooseFacts
  <1>2. BadNeverReceived'
    BY Zenon, <1>1, TreeAssumption DEF WorkInv, BadNeverReceived
  <1>3. \A u \in Threads : u = t
    BY Zenon DEF OneThread
  <1>4. IdleHasNoTarget'
    BY Zenon, <1>1, <1>3, ChainTypes DEF IdleHasNoTarget
  <1>5. ChainsHaveWork'
    <2> SUFFICES ASSUME health = "ok"
                 PROVE  /\ Clean(tip)' /\ \A c \in candidates' : Work[tip] <= Work[c]
                        /\ mostWork'[t] # NoBlock => Clean(mostWork[t])' /\ Work[tip] <= Work[mostWork'[t]]
      BY Zenon, <1>1, <1>3 DEF ChainsHaveWork, Clean
    <2>1. /\ Clean(tip) /\ \A c \in candidates : Work[tip] <= Work[c]
          /\ mostWork[t] # NoBlock => Clean(mostWork[t]) /\ Work[tip] <= Work[mostWork[t]]
      BY Zenon DEF WorkInv, ChainsHaveWork
    <2>2. mostWork'[t] = NoBlock \/ mostWork'[t] = target
      BY Zenon, <1>1, ChainTypes
    <2>3. ASSUME mostWork[t] = NoBlock, FindMostWorkChain # NoBlock
          PROVE  FindMostWorkChain \in candidates /\ FindMostWorkChain \in Blocks /\ Clean(FindMostWorkChain)
      <3>1. FindMostWorkChain \in candidates /\ Blocking(FindMostWorkChain) = {}
        BY Zenon, <2>3, FindFacts DEF UsableCandidates
      <3> QED
        BY Zenon, <2>1, <3>1, ChainTypes, UsableIsClean
    <2>4. target # NoBlock => target \in Blocks /\ Clean(target) /\ Work[tip] <= Work[target]
      BY Zenon, <2>1, <2>3, ChainTypes
    <2>5. target # NoBlock => \A x \in Ancestors[target] : ~Failed(nStatus', x)
      BY Zenon, <1>1, <2>4 DEF Clean
    <2> HIDE DEF target
    <2>6. Clean(tip)'
      BY Zenon, <1>1, <2>1, ChainTypes DEF Clean
    <2>7. mostWork'[t] # NoBlock => Clean(mostWork[t])' /\ Work[tip] <= Work[mostWork'[t]]
      BY Zenon, <2>2, <2>4, <2>5 DEF Clean
    <2> QED
      BY Zenon, <1>1, <2>1, <2>6, <2>7
  <1> QED
    BY Zenon, <1>2, <1>4, <1>5 DEF WorkInv

\* A step that fails to undo a block ends the promise; one that goes back to
\* the target keeps a clean chain.
LEMMA StepBackKeepsWork ==
  ASSUME OneThread, TreeInv, WorkInv, NEW t \in Threads, StepCannotDisconnect(t) \/ StepBack(t)
  PROVE  WorkInv' /\ (health' = "ok" => health = "ok" /\ Work[tip] <= Work[tip'])
  <1>1. /\ UNCHANGED <<nStatus, candidates>>
        /\ pc' = [pc EXCEPT ![t] = "idle"] /\ mostWork' = [mostWork EXCEPT ![t] = NoBlock]
        /\ pc[t] = "step"
    BY Zenon DEF StepCannotDisconnect, StepBack, ReturnFromActivate
  <1>2. \A u \in Threads : u = t
    BY Zenon DEF OneThread
  <1>3. \A u \in Threads : mostWork'[u] = NoBlock
    BY Zenon, <1>1, <1>2, ChainTypes
  <1>4. BadNeverReceived' /\ IdleHasNoTarget'
    BY Zenon, <1>1, <1>3 DEF WorkInv, BadNeverReceived, IdleHasNoTarget
  <1>5. CASE StepCannotDisconnect(t)
    <2>1. PICK stuck : health' = UndoFailure(Highest(stuck))
      BY Zenon, <1>5 DEF StepCannotDisconnect
    <2>2. health' # "ok"
      BY Zenon, <2>1 DEF UndoFailure
    <2> QED
      BY Zenon, <1>4, <2>2 DEF WorkInv, ChainsHaveWork
  <1>6. CASE StepBack(t)
    <2>1. tip' = mostWork[t] /\ mostWork[t] \in Ancestors[tip] /\ health' = health
      BY Zenon, <1>6 DEF StepBack
    <2>2. mostWork[t] \in Blocks /\ tip \in Blocks
      BY Zenon, <2>1, ChainTypes, BelowIsChain
    <2>3. ASSUME health = "ok"
          PROVE  /\ Clean(mostWork[t]) /\ Work[tip] <= Work[mostWork[t]]
                 /\ \A c \in candidates : Work[mostWork[t]] <= Work[c]
      <3>1. /\ Clean(mostWork[t]) /\ Work[tip] <= Work[mostWork[t]]
            /\ \A c \in candidates : Work[tip] <= Work[c]
        BY Zenon, <2>2, <2>3, ChainTypes DEF WorkInv, ChainsHaveWork
      <3>2. Work[mostWork[t]] <= Work[tip] /\ Work[tip] \in Nat /\ Work[mostWork[t]] \in Nat
        BY Zenon, <2>1, <2>2, WorkGrows, TreeAssumption
      <3>3. Work[tip] = Work[mostWork[t]]
        BY <3>1, <3>2
      <3> QED
        BY Zenon, <3>1, <3>3
    <2>4. ChainsHaveWork'
      BY Zenon, <1>1, <1>3, <2>1, <2>3 DEF ChainsHaveWork, Clean
    <2> QED
      BY Zenon, <1>4, <2>1, <2>3, <2>4 DEF WorkInv
  <1> QED
    BY Zenon, <1>5, <1>6

\* A step forward: the new tip is on the chain of the target, which is clean.
LEMMA StepForwardKeepsWork ==
  ASSUME OneThread, TreeInv, WorkInv, NEW t \in Threads, StepForward(t)
  PROVE  /\ WorkInv'
         /\ health' = "ok" => health = "ok" /\
               \/ Work[tip] <= Work[tip']
               \/ StopsAt(t) \in Blocks /\ "FAILED_VALID" \in nStatus'[StopsAt(t)] \ nStatus[StopsAt(t)]
  <1> DEFINE stop == StopsAt(t)
             target == mostWork[t]
             missing == "DATA" \notin nStatus[stop]
             invalid == ~missing /\ stop \in BadConnect
  <1>1. /\ tip' = IF missing \/ invalid THEN Parent[stop] ELSE stop
        /\ tip' \in Ancestors[target]
        /\ \A x \in Ancestors[tip'] : x \in Ancestors[target]
        /\ \A x \in Blocks : (x = stop /\ invalid) \/ (Failed(nStatus', x) <=> Failed(nStatus, x))
        /\ invalid => "FAILED_VALID" \in nStatus'[stop]
        /\ missing \/ invalid => Work[tip'] <= Work[tip]
        /\ ~missing /\ ~invalid => Work[tip'] > Work[tip] \/ tip' = target
        /\ \A c \in candidates' : c \in candidates /\
              (tip' \in Ancestors[tip] \/ ~Worse(nSequenceId, c, tip'))
        /\ health' = IF missing THEN "aborted" ELSE health
        /\ \/ pc' = [pc EXCEPT ![t] = "idle"] /\ (missing \/ tip' = target)
              /\ mostWork' = [mostWork EXCEPT ![t] = NoBlock]
           \/ pc' = [pc EXCEPT ![t] = "activate"] /\ ~missing
              /\ mostWork' = [mostWork EXCEPT ![t] = IF invalid THEN NoBlock ELSE target]
    BY Zenon, ForwardOutcome
  <1>2. /\ target \in Blocks /\ tip \in Blocks /\ stop \in Ancestors[target]
        /\ stop \in Blocks \ {Genesis}
    BY Zenon, StopFacts DEF StepForward
  <1>3. /\ \A x \in Blocks : "TRANSACTIONS" \in nStatus'[x] => "TRANSACTIONS" \in nStatus[x]
    <2>1. \A c \in Blocks : nStatus'[c] \cap {"TRANSACTIONS", "FAILED_CHILD", "DATA"}
                            = nStatus[c] \cap {"TRANSACTIONS", "FAILED_CHILD", "DATA"}
      BY Zenon, ForwardFacts
    <2> QED
      BY Zenon, <2>1
  <1> HIDE DEF stop
  <1>4. \A u \in Threads : u = t
    BY Zenon DEF OneThread
  <1>5. tip' \in Blocks
    BY Zenon, <1>1, <1>2, BelowIsChain
  <1>6. BadNeverReceived'
    BY Zenon, <1>3, TreeAssumption DEF WorkInv, BadNeverReceived
  <1>7. /\ pc'[t] = "idle" => mostWork'[t] = NoBlock
        /\ mostWork'[t] # NoBlock => mostWork'[t] = target /\ ~invalid
    BY Zenon, <1>1, <1>2, ChainTypes
  <1>8. IdleHasNoTarget'
    BY Zenon, <1>4, <1>7 DEF IdleHasNoTarget
  <1>9. ASSUME health' = "ok"
        PROVE  /\ health = "ok" /\ ~missing /\ Clean(target) /\ Work[tip] <= Work[target]
               /\ \A c \in candidates : Work[tip] <= Work[c]
    <2>1. ~missing /\ health = "ok"
      BY Zenon, <1>1, <1>9
    <2> QED
      BY Zenon, <1>2, <2>1, TreeAssumption DEF WorkInv, ChainsHaveWork
  <1>10. ASSUME health' = "ok"
         PROVE  /\ Clean(tip)' /\ \A c \in candidates' : Work[tip'] <= Work[c]
                /\ mostWork'[t] # NoBlock => Clean(mostWork[t])' /\ Work[tip'] <= Work[mostWork'[t]]
    <2>1. invalid => stop \notin Ancestors[tip']
      BY Zenon, <1>1, <1>2, ParentBelow
    <2>2. Clean(tip)'
      <3> SUFFICES ASSUME NEW x \in Ancestors[tip'] PROVE ~Failed(nStatus', x)
        BY Zenon DEF Clean
      <3>1. x \in Blocks /\ x \in Ancestors[target]
        BY Zenon, <1>1, <1>5, BelowIsChain
      <3> QED
        BY Zenon, <1>1, <1>9, <1>10, <2>1, <3>1 DEF Clean
    <2>3. ASSUME NEW c \in candidates' PROVE Work[tip'] <= Work[c]
      <3>1. c \in candidates /\ c \in Blocks
        BY Zenon, <1>1, ChainTypes
      <3>2. CASE tip' \in Ancestors[tip]
        <4>1. Work[tip'] <= Work[tip] /\ Work[tip] <= Work[c]
          BY Zenon, <1>2, <1>9, <1>10, <3>1, <3>2, WorkGrows
        <4>2. Work[tip'] \in Nat /\ Work[tip] \in Nat /\ Work[c] \in Nat
          BY Zenon, <1>2, <1>5, <3>1, TreeAssumption
        <4> QED
          BY <4>1, <4>2
      <3>3. CASE ~Worse(nSequenceId, c, tip')
        BY Zenon, <1>5, <3>1, <3>3, NotWorseHasWork
      <3> QED
        BY Zenon, <1>1, <3>2, <3>3
    <2>4. ASSUME mostWork'[t] # NoBlock
          PROVE  Clean(mostWork[t])' /\ Work[tip'] <= Work[mostWork'[t]]
      <3>1. mostWork'[t] = target /\ ~invalid
        BY Zenon, <1>7, <2>4
      <3>2. Work[tip'] <= Work[target]
        BY Zenon, <1>1, <1>2, WorkGrows
      <3>3. \A x \in Ancestors[target] : ~Failed(nStatus', x)
        BY Zenon, <1>1, <1>2, <1>9, <1>10, <3>1, BelowIsChain DEF Clean
      <3> QED
        BY Zenon, <3>1, <3>2, <3>3 DEF Clean
    <2> QED
      BY Zenon, <2>2, <2>3, <2>4
  <1>11. ChainsHaveWork'
    BY Zenon, <1>4, <1>10 DEF ChainsHaveWork, Clean
  <1>12. ASSUME health' = "ok"
         PROVE  Work[tip] <= Work[tip'] \/ "FAILED_VALID" \in nStatus'[stop] \ nStatus[stop]
    <2>1. CASE invalid
      <3>1. ~Failed(nStatus, stop)
        BY Zenon, <1>2, <1>9, <1>12 DEF Clean
      <3> QED
        BY Zenon, <1>1, <2>1, <3>1 DEF Failed, FailedMask
    <2>2. CASE ~invalid
      <3>1. Work[tip'] > Work[tip] \/ tip' = target
        BY Zenon, <1>1, <1>9, <1>12, <2>2
      <3>2. Work[tip'] \in Nat /\ Work[tip] \in Nat
        BY Zenon, <1>2, <1>5, TreeAssumption
      <3> QED
        BY <1>9, <1>12, <3>1, <3>2
    <2> QED
      BY Zenon, <2>1, <2>2
  <1> QED
    BY Zenon, <1>2, <1>6, <1>8, <1>9, <1>11, <1>12 DEF WorkInv, stop

\* Every step keeps the invariant.
LEMMA WorkKept ==
  ASSUME OneThread, TreeInv, WorkInv, [Next]_vars
  PROVE  WorkInv'
  <1>1. ASSUME NEW b \in Blocks, ProcessNewBlockHeader(b) PROVE WorkInv'
    <2>1. UNCHANGED <<tip, mostWork, health, nStatus, candidates, pc>>
      BY Zenon, <1>1 DEF ProcessNewBlockHeader, threads
    <2> QED
      BY Zenon, <2>1, SameTipKeepsWork
  <1>2. ASSUME NEW b \in Blocks, PruneOneBlockFile(b) PROVE WorkInv'
    <2>1. UNCHANGED <<tip, mostWork, health, candidates, pc>>
          /\ nStatus' = Clear(nStatus, {b}, {"DATA", "UNDO"})
      BY Zenon, <1>2 DEF PruneOneBlockFile, threads
    <2>2. \A x \in Blocks : nStatus'[x] \subseteq nStatus[x]
      BY Zenon, <2>1, ChainTypes DEF Clear
    <2>3. \A x \in BadContext : "TRANSACTIONS" \in nStatus'[x] => "TRANSACTIONS" \in nStatus[x]
      BY Zenon, <2>2, TreeAssumption
    <2>4. \A x \in linked : Failed(nStatus', x) => Failed(nStatus, x)
      BY Zenon, <2>2, ChainTypes DEF Failed
    <2> QED
      BY Zenon, <2>1, <2>3, <2>4, SameTipKeepsWork
  <1>3. CASE UNCHANGED vars
    <2>1. UNCHANGED <<tip, mostWork, health, nStatus, candidates, pc>>
      BY Zenon, <1>3 DEF vars
    <2> QED
      BY Zenon, <2>1, SameTipKeepsWork
  <1>4. ASSUME NEW t \in Threads, ThreadStep(t) PROVE WorkInv'
    BY Zenon, <1>4, ChooseKeepsWork, StepBackKeepsWork, StepForwardKeepsWork
       DEF ThreadStep, ActivateBestChainStep
  <1> QED
    BY Zenon, <1>1, <1>2, <1>3, <1>4, BlockKeepsWork, InvalidateKeepsWork, ReconsiderKeepsWork,
       PreciousKeepsWork DEF Next

\* With one thread, the active chain loses work only in a step that found or
\* was told of an invalid block, or that failed to undo one: with any RPC
\* calls, any pruning and any order of arrival.
THEOREM WorkLostToInvalid ==
  ASSUME OneThread
  PROVE  Spec => WorkLostOnlyToInvalid
  <1> DEFINE Lost == Work[tip'] < Work[tip] /\ health' = "ok"
                     => \E b \in Blocks : "FAILED_VALID" \in nStatus'[b] \ nStatus[b]
  <1>1. TreeInv /\ WorkInv /\ [Next]_vars => [Lost]_vars
    <2> SUFFICES ASSUME TreeInv, WorkInv, Next PROVE Lost
      OBVIOUS
    <2>0. Work[tip] \in Nat
      BY Zenon, ChainTypes, TreeAssumption
    <2>1. CASE tip' = tip
      BY <2>0, <2>1
    <2>2. ASSUME NEW t \in Threads, StepCannotDisconnect(t) \/ StepBack(t) PROVE Lost
      <3>1. health' = "ok" => health = "ok" /\ Work[tip] <= Work[tip']
        BY Zenon, <2>2, StepBackKeepsWork
      <3>2. Work[tip'] \in Nat
        BY Zenon, StepKeepsTree, TreeAssumption DEF TreeInv, TypeOK
      <3> QED
        BY <2>0, <3>1, <3>2
    <2>3. ASSUME NEW t \in Threads, StepForward(t) PROVE Lost
      <3>1. health' = "ok" =>
               \/ Work[tip] <= Work[tip']
               \/ StopsAt(t) \in Blocks /\ "FAILED_VALID" \in nStatus'[StopsAt(t)] \ nStatus[StopsAt(t)]
        BY Zenon, <2>3, StepForwardKeepsWork
      <3>2. Work[tip'] \in Nat
        BY Zenon, StepKeepsTree, TreeAssumption DEF TreeInv, TypeOK
      <3> QED
        BY <2>0, <3>1, <3>2
    <2>4. ASSUME NEW t \in Threads, NEW b \in Blocks, InvalidateBlock(t, b), tip' # tip, health' = "ok"
          PROVE  Lost
      <3>1. b \in Ancestors[tip] /\ "FAILED_VALID" \in nStatus'[b] /\ health = "ok"
        BY Zenon, <2>4, InvalidateFacts
      <3>2. ~Failed(nStatus, b)
        BY Zenon, <3>1 DEF WorkInv, ChainsHaveWork, Clean
      <3>3. "FAILED_VALID" \notin nStatus[b]
        BY Zenon, <3>2 DEF Failed, FailedMask
      <3> QED
        BY Zenon, <3>1, <3>3
    <2>5. CASE health' # "ok"
      BY Zenon, <2>5
    <2> QED
      BY Zenon, <2>1, <2>2, <2>3, <2>4, <2>5
         DEF Next, ProcessNewBlockHeader, PruneOneBlockFile, ProcessNewBlock, ResetBlockFailureFlags,
             PreciousBlock, ThreadStep, ChooseTarget, ActivateBestChainStep
  <1>2. TreeInv /\ WorkInv /\ [Next]_vars => WorkInv'
    BY Zenon, WorkKept
  <1> QED
    BY <1>1, <1>2, InitWork, TreeInvHolds, PTL DEF Spec, WorkLostOnlyToInvalid

-----------------------------------------------------------------------------
(* The candidates and the best chain.                                       *)

\* ConnectBlock accepts every block of the chain that ends in c.
Sound(c) == Ancestors[c] \cap BadConnect = {}

\* Some candidate that can be activated is at least as good as b.
Dominated(b) == \E c \in candidates : Clean(c) /\ Sound(c) /\ ~Worse(nSequenceId, c, b)

\* No candidate is worse than the tip.
NoneWorse == \A c \in candidates : ~Worse(nSequenceId, c, tip)

\* A thread's target is the best clean candidate, from the search to the return.
TargetIsBest ==
  \A t \in Threads : mostWork[t] # NoBlock =>
    \A c \in candidates : Clean(c) => ~Worse(nSequenceId, mostWork[t], c)

\* Outside ActivateBestChain no clean candidate is better than the tip.
IdleIsBest ==
  (\A t \in Threads : pc[t] = "idle") =>
    \A c \in candidates : Clean(c) => ~Worse(nSequenceId, tip, c)

\* A linked block that is no candidate failed, or a candidate is as good that
\* will not be found invalid: to give up the branch that is being activated
\* does not uncover a chain that was forgotten.
Covered == \A b \in linked \ candidates : Failed(nStatus, b) \/ Dominated(b)

BestInv ==
  health = "ok" =>
    /\ Sound(tip) /\ NoneWorse /\ TargetIsBest /\ IdleIsBest
    /\ ~fReconsiderAbove => Covered

\* Genesis alone.
LEMMA InitBest == Init => BestInv
  <1> SUFFICES ASSUME Init PROVE BestInv
    OBVIOUS
  <1>1. Ancestors[Genesis] = {Genesis} /\ Genesis \notin BadConnect /\ Genesis \in Blocks
    BY Zenon, TreeAssumption
  <1>2. nSequenceId \in [Blocks -> Int]
    BY DEF Init
  <1>3. tip = Genesis /\ candidates = {Genesis} /\ linked = {Genesis}
        /\ \A t \in Threads : mostWork[t] = NoBlock
    BY Zenon DEF Init
  <1>4. ~Worse(nSequenceId, Genesis, Genesis)
    BY Zenon, <1>1, <1>2, WorseIsOrder
  <1> QED
    BY Zenon, <1>1, <1>3, <1>4 DEF BestInv, Sound, NoneWorse, TargetIsBest, IdleIsBest, Covered

\* Not being worse is a total preorder.
LEMMA NotWorseOrder ==
  ASSUME NEW seq \in [Blocks -> Int], NEW x \in Blocks, NEW y \in Blocks, NEW z \in Blocks
  PROVE  /\ ~Worse(seq, x, x)
         /\ Worse(seq, x, y) => ~Worse(seq, y, x)
         /\ ~Worse(seq, x, y) /\ ~Worse(seq, y, z) => ~Worse(seq, x, z)
         /\ ~Worse(seq, x, y) /\ ~Worse(seq, y, x) => x = y
  BY Zenon, WorseIsOrder

\* What is not worse than a block is not worse than a block below it.
LEMMA NotWorseBelow ==
  ASSUME NEW seq, NEW c \in Blocks, NEW b \in Blocks, NEW a \in Ancestors[b], ~Worse(seq, c, b)
  PROVE  ~Worse(seq, c, a)
  <1>1. CASE a = b
    BY Zenon, <1>1
  <1>2. CASE a # b
    <2>1. a \in Blocks /\ Work[a] < Work[b]
      BY Zenon, <1>2, WorkGrows
    <2>2. Work[b] <= Work[c]
      BY Zenon, NotWorseHasWork
    <2>3. Work[a] \in Nat /\ Work[b] \in Nat /\ Work[c] \in Nat
      BY Zenon, <2>1, TreeAssumption
    <2> QED
      BY <2>1, <2>2, <2>3 DEF Worse
  <1> QED
    BY Zenon, <1>1, <1>2

\* Without pruning, a clean linked chain can be activated.
LEMMA CleanIsUsable ==
  ASSUME TreeInv, ProcessedHasData, NEW c \in linked, Clean(c)
  PROVE  Blocking(c) = {}
  <1>1. \A x \in Ancestors[c] : x \in Blocks /\ "DATA" \in nStatus[x]
    BY Zenon, ChainTypes DEF ProcessedHasData
  <1> QED
    BY Zenon, <1>1 DEF Blocking, Clean

\* A clean and sound chain is a candidate, or a candidate is as good.
LEMMA CoverAt ==
  ASSUME TreeInv, Covered, NEW b \in linked, Clean(b), Sound(b)
  PROVE  Dominated(b)
  <1>1. b \in Blocks /\ b \in Ancestors[b] /\ nSequenceId \in [Blocks -> Int]
    BY Zenon, ChainTypes, BelowIsChain
  <1>2. CASE b \in candidates
    BY Zenon, <1>1, <1>2, NotWorseOrder DEF Dominated
  <1>3. CASE b \notin candidates
    BY Zenon, <1>1, <1>3 DEF Covered, Clean
  <1> QED
    BY Zenon, <1>2, <1>3

\* A step that leaves the chains and the candidates, and flags only blocks
\* that are not linked, keeps the invariant.
LEMMA SameChainsKeepBest ==
  ASSUME TreeInv, BestInv,
         UNCHANGED <<tip, linked, candidates, nSequenceId, mostWork, health, fReconsiderAbove>>,
         \A x \in linked : Failed(nStatus', x) <=> Failed(nStatus, x),
         pc' = pc \/ \E t \in Threads : pc'[t] = "activate"
  PROVE  BestInv'
  <1> SUFFICES ASSUME health = "ok" PROVE BestInv'
    BY Zenon DEF BestInv
  <1>1. \A c \in linked : Clean(c)' <=> Clean(c)
    BY Zenon, ChainTypes DEF Clean
  <1>2. Sound(tip)' /\ NoneWorse'
    BY Zenon DEF BestInv, Sound, NoneWorse
  <1>3. TargetIsBest'
    BY Zenon, <1>1, ChainTypes DEF BestInv, TargetIsBest
  <1>4. IdleIsBest'
    BY Zenon, <1>1, ChainTypes DEF BestInv, IdleIsBest
  <1>5. ASSUME ~fReconsiderAbove PROVE Covered'
    <2>1. \A b \in linked : Dominated(b) => Dominated(b)'
      BY Zenon, <1>1, ChainTypes DEF Dominated
    <2> QED
      BY Zenon, <1>5, <2>1 DEF BestInv, Covered
  <1> QED
    BY Zenon, <1>2, <1>3, <1>4, <1>5 DEF BestInv

\* A new block and what it links become candidates, or the tip is better.
LEMMA ReceivedKeepsBest ==
  ASSUME OneThread, TreeInv, ProcessedHasData, WorkInv, BestInv, TreeInv',
         NEW t \in Threads, NEW b \in Blocks \ {Genesis}, NEW fRequested \in BOOLEAN,
         ~NotProcessed(b, fRequested), ReceivedBlockTransactions(b), Enter(t),
         UNCHANGED <<tip, mostWork, health, fReconsiderAbove>>,
         pc' = [pc EXCEPT ![t] = "activate"]
  PROVE  BestInv'
  <1> SUFFICES ASSUME health = "ok" PROVE BestInv'
    BY Zenon DEF BestInv
  <1> DEFINE queue == IF ParentLinked(b) THEN NowLinked(b) ELSE {}
  <1>1. candidates' = candidates \cup {x \in queue : ~Worse(nSequenceId', x, tip)}
    BY Zenon, ReceivedCandidates
  <1>2. /\ linked' = linked \cup queue
        /\ \A x \in Blocks \ queue : nSequenceId'[x] = nSequenceId[x]
        /\ nSequenceId' \in [Blocks -> Int]
        /\ nStatus' = Raise(nStatus, {b}, {"DATA", "TRANSACTIONS"})
    BY Zenon, ReceivedFacts
  <1>3. queue \subseteq Blocks /\ \A x \in queue : x \notin linked
    BY Zenon, ReceivedIsNew DEF NowLinked
  <1> HIDE DEF queue
  <1>4. \A x \in linked : nSequenceId'[x] = nSequenceId[x]
    BY Zenon, <1>2, <1>3, ChainTypes
  <1>5. \A x, y \in linked : Worse(nSequenceId', x, y) <=> Worse(nSequenceId, x, y)
    BY Zenon, <1>4 DEF Worse
  <1>6. \A x \in Blocks : Failed(nStatus', x) <=> Failed(nStatus, x)
    <2> TAKE x \in Blocks
    <2>1. nStatus'[x] = nStatus[x] \cup {"DATA", "TRANSACTIONS"} \/ nStatus'[x] = nStatus[x]
      BY Zenon, <1>2, ChainTypes DEF Raise
    <2> QED
      BY Zenon, <2>1 DEF Failed, FailedMask
  <1>7. \A c \in linked : Clean(c)' <=> Clean(c)
    BY Zenon, <1>6, ChainTypes DEF Clean
  <1>8. \A u \in Threads : mostWork[u] = NoBlock
    BY Zenon, EnterHasNoTarget DEF WorkInv
  <1>9. TargetIsBest' /\ IdleIsBest' /\ Sound(tip)'
    <2>1. pc'[t] = "activate"
      BY Zenon, ChainTypes
    <2> QED
      BY Zenon, <1>8, <2>1 DEF TargetIsBest, IdleIsBest, BestInv, Sound
  <1>10. NoneWorse'
    <2> SUFFICES ASSUME NEW c \in candidates' PROVE ~Worse(nSequenceId', c, tip)
      BY Zenon DEF NoneWorse
    <2>1. CASE c \in candidates
      BY Zenon, <1>5, <2>1, ChainTypes DEF BestInv, NoneWorse
    <2> QED
      BY Zenon, <1>1, <2>1
  <1>11. ASSUME ~fReconsiderAbove PROVE Covered'
    <2>1. \A x \in linked : Dominated(x) => Dominated(x)'
      BY Zenon, <1>1, <1>5, <1>7, ChainTypes DEF Dominated
    <2>2. PICK c \in candidates : Clean(c) /\ Sound(c) /\ ~Worse(nSequenceId, c, tip)
      BY Zenon, <1>11, ChainTypes, CoverAt DEF BestInv, WorkInv, ChainsHaveWork, Dominated
    <2>3. c \in candidates' /\ Clean(c)' /\ ~Worse(nSequenceId', c, tip) /\ c \in Blocks
      BY Zenon, <1>1, <1>5, <1>7, <2>2, ChainTypes
    <2>4. ASSUME NEW x \in queue, x \notin candidates' PROVE Dominated(x)'
      <3>1. Worse(nSequenceId', x, tip) /\ x \in Blocks
        BY Zenon, <1>1, <1>3, <2>4
      <3>2. ~Worse(nSequenceId', c, x)
        BY Zenon, <1>2, <2>3, <3>1, ChainTypes, NotWorseOrder
      <3> QED
        BY Zenon, <2>2, <2>3, <3>2 DEF Dominated, Sound
    <2> SUFFICES ASSUME NEW x \in linked' \ candidates'
                 PROVE  Failed(nStatus', x) \/ Dominated(x)'
      BY Zenon DEF Covered
    <2>5. CASE x \in linked
      <3>1. x \notin candidates
        BY Zenon, <1>1
      <3>2. Failed(nStatus, x) \/ Dominated(x)
        BY Zenon, <1>11, <2>5, <3>1 DEF BestInv, Covered
      <3> QED
        BY Zenon, <1>6, <2>1, <2>5, <3>2, ChainTypes
    <2> QED
      BY Zenon, <1>2, <2>4, <2>5
  <1> QED
    BY Zenon, <1>9, <1>10, <1>11 DEF BestInv

\* ProcessNewBlock.
LEMMA BlockKeepsBest ==
  ASSUME OneThread, TreeInv, ProcessedHasData, WorkInv, BestInv, TreeInv',
         NEW t \in Threads, NEW b \in Blocks, NEW fRequested \in BOOLEAN,
         ProcessNewBlock(t, b, fRequested)
  PROVE  BestInv'
  <1>1. /\ UNCHANGED <<tip, mostWork, health, fReconsiderAbove>> /\ b # Genesis /\ Enter(t)
        /\ pc' = pc \/ pc' = [pc EXCEPT ![t] = "activate"]
    BY Zenon DEF ProcessNewBlock, manual
  <1>2. pc' = pc \/ pc'[t] = "activate"
    BY Zenon, <1>1, ChainTypes
  <1>3. CASE UNCHANGED <<nStatus, linked, candidates, nSequenceId>>
    BY Zenon, <1>1, <1>2, <1>3, SameChainsKeepBest
  <1>4. CASE /\ b \in BadContext /\ nStatus' = MarkInvalid(nStatus, b)
             /\ UNCHANGED <<linked, candidates, nSequenceId>>
    <2>1. b \notin linked
      BY Zenon, <1>4, ChainTypes DEF WorkInv, BadNeverReceived
    <2>2. \A x \in Blocks : nStatus'[x] = IF x = b THEN nStatus[x] \cup {"FAILED_VALID"} ELSE nStatus[x]
      BY Zenon, <1>4, ChainTypes DEF MarkInvalid, Raise
    <2>3. \A x \in linked : Failed(nStatus', x) <=> Failed(nStatus, x)
      BY Zenon, <2>1, <2>2, ChainTypes DEF Failed
    <2> QED
      BY Zenon, <1>1, <1>2, <1>4, <2>3, SameChainsKeepBest
  <1>5. CASE /\ ~NotProcessed(b, fRequested) /\ ReceivedBlockTransactions(b)
             /\ pc' = [pc EXCEPT ![t] = "activate"]
    BY Zenon, <1>1, <1>5, ReceivedKeepsBest
  <1> QED
    BY Zenon, <1>3, <1>4, <1>5 DEF ProcessNewBlock, ids

\* invalidateblock makes every rival of the new tip a candidate again.
LEMMA InvalidateKeepsBest ==
  ASSUME OneThread, TreeInv, ProcessedHasData, WorkInv, BestInv, TreeInv', WorkInv',
         NEW t \in Threads, NEW b \in Blocks, InvalidateBlock(t, b)
  PROVE  BestInv'
  <1> SUFFICES ASSUME health' = "ok" PROVE BestInv'
    BY Zenon DEF BestInv
  <1>1. /\ health = "ok" /\ Enter(t)
        /\ mostWork' = mostWork /\ pc' = [pc EXCEPT ![t] = "activate"]
        /\ nSequenceId' = nSequenceId /\ linked' = linked
        /\ tip' \in Blocks /\ tip' \in Ancestors[tip]
        /\ \A x \in Blocks : "TRANSACTIONS" \in nStatus'[x] <=> "TRANSACTIONS" \in nStatus[x]
    BY Zenon, InvalidateFacts
  <1>2. PICK erased \in SUBSET candidates : candidates' = erased \cup {x \in mapBlockIndex :
                     IsValid(nStatus', x) /\ x \in linked /\ ~Worse(nSequenceId, x, tip')}
    BY Zenon, InvalidateFacts
  <1>3. TargetIsBest' /\ IdleIsBest'
    <2>1. \A u \in Threads : mostWork[u] = NoBlock
      BY Zenon, <1>1, EnterHasNoTarget DEF WorkInv
    <2>2. pc'[t] = "activate"
      BY Zenon, <1>1, ChainTypes
    <2> QED
      BY Zenon, <1>1, <2>1, <2>2 DEF TargetIsBest, IdleIsBest
  <1>4. Sound(tip)'
    <2>1. Ancestors[tip'] \subseteq Ancestors[tip]
      BY Zenon, <1>1, ChainTypes, BelowIsChain
    <2> QED
      BY Zenon, <1>1, <2>1 DEF BestInv, Sound
  <1>5. NoneWorse'
    <2> SUFFICES ASSUME NEW c \in candidates' PROVE ~Worse(nSequenceId, c, tip')
      BY Zenon, <1>1 DEF NoneWorse
    <2>1. CASE c \in candidates
      BY Zenon, <1>1, <2>1, ChainTypes, NotWorseBelow DEF BestInv, NoneWorse
    <2> QED
      BY Zenon, <1>2, <2>1
  <1>6. Covered'
    <2>1. tip' \in linked /\ linked \subseteq mapBlockIndex
      BY Zenon, <1>1, ChainTypes DEF TreeInv, TypeOK
    <2>2. Clean(tip)'
      BY Zenon DEF WorkInv, ChainsHaveWork
    <2>3. ~Failed(nStatus', tip')
      BY Zenon, <1>1, <2>2, BelowIsChain DEF Clean
    <2>4. tip' \in candidates'
      BY Zenon, <1>1, <1>2, <2>1, <2>3, ChainTypes, NotWorseOrder DEF IsValid
    <2> SUFFICES ASSUME NEW x \in linked \ candidates', ~Failed(nStatus', x) PROVE Dominated(x)'
      BY Zenon, <1>1 DEF Covered
    <2>5. x \in mapBlockIndex /\ x \in Blocks /\ IsValid(nStatus', x)
      BY Zenon, <1>1, <2>1, ChainTypes DEF IsValid
    <2>6. Worse(nSequenceId, x, tip')
      BY Zenon, <1>2, <2>5
    <2>7. ~Worse(nSequenceId, tip', x)
      BY Zenon, <1>1, <2>5, <2>6, ChainTypes, NotWorseOrder
    <2> QED
      BY Zenon, <1>1, <1>4, <2>2, <2>4, <2>7 DEF Dominated
  <1> QED
    BY Zenon, <1>3, <1>4, <1>5, <1>6 DEF BestInv

\* reconsiderblock makes candidates of the blocks it clears, unless the tip
\* is better.
LEMMA ReconsiderKeepsBest ==
  ASSUME OneThread, TreeInv, WorkInv, BestInv, NEW t \in Threads, NEW b \in Blocks,
         ResetBlockFailureFlags(t, b)
  PROVE  BestInv'
  <1> SUFFICES ASSUME health' = "ok" PROVE BestInv'
    BY Zenon DEF BestInv
  <1> DEFINE cleared == {x \in mapBlockIndex : b \in Ancestors[x] /\ ~IsValid(nStatus, x)}
  <1>1. /\ Enter(t) /\ UNCHANGED <<tip, mostWork, health, linked, nSequenceId, mapBlockIndex>>
        /\ pc' = [pc EXCEPT ![t] = "activate"]
        /\ \A x \in Blocks : nStatus'[x] = IF x \in cleared \cup Ancestors[b]
                                           THEN nStatus[x] \ FailedMask ELSE nStatus[x]
        /\ candidates' = candidates \cup {x \in cleared :
              "TRANSACTIONS" \in nStatus[x] /\ x \in linked /\ Worse(nSequenceId, tip, x)}
        /\ fReconsiderAbove' = (fReconsiderAbove \/ \E a \in Ancestors[b] \ {b} : Failed(nStatus, a))
    BY Zenon, ReconsiderFacts
  <1>2. b \in mapBlockIndex => (~IsValid(nStatus, b) => b \in cleared)
    BY Zenon, BelowIsChain
  <1> HIDE DEF cleared
  <1>3. TargetIsBest' /\ IdleIsBest'
    <2>1. \A u \in Threads : mostWork[u] = NoBlock
      BY Zenon, <1>1, EnterHasNoTarget DEF WorkInv
    <2>2. pc'[t] = "activate"
      BY Zenon, <1>1, ChainTypes
    <2> QED
      BY Zenon, <1>1, <2>1, <2>2 DEF TargetIsBest, IdleIsBest
  <1>4. Sound(tip)'
    BY Zenon, <1>1 DEF BestInv, Sound
  <1>5. NoneWorse'
    <2> SUFFICES ASSUME NEW c \in candidates' PROVE ~Worse(nSequenceId, c, tip)
      BY Zenon, <1>1 DEF NoneWorse
    <2>1. CASE c \in candidates
      BY Zenon, <1>1, <2>1 DEF BestInv, NoneWorse
    <2>2. CASE c \in linked /\ Worse(nSequenceId, tip, c)
      BY Zenon, <2>2, ChainTypes, NotWorseOrder
    <2> QED
      BY Zenon, <1>1, <2>1, <2>2
  <1>6. ASSUME ~fReconsiderAbove' PROVE Covered'
    <2>1. ~fReconsiderAbove /\ Covered /\ \A a \in Ancestors[b] \ {b} : ~Failed(nStatus, a)
      BY Zenon, <1>1, <1>6 DEF BestInv
    <2>2. \A c \in linked : Clean(c) => Clean(c)'
      <3>1. \A x \in linked : Failed(nStatus', x) => Failed(nStatus, x)
        BY Zenon, <1>1, ChainTypes DEF Failed
      <3> QED
        BY Zenon, <3>1, ChainTypes, CleanKept
    <2>3. \A x \in linked : Dominated(x) => Dominated(x)'
      BY Zenon, <1>1, <2>2, ChainTypes DEF Dominated, Sound
    <2>4. PICK c \in candidates : Clean(c) /\ Sound(c) /\ ~Worse(nSequenceId, c, tip)
      BY Zenon, <1>1, <2>1, ChainTypes, CoverAt DEF BestInv, WorkInv, ChainsHaveWork, Dominated
    <2> SUFFICES ASSUME NEW x \in linked \ candidates', ~Failed(nStatus', x) PROVE Dominated(x)'
      BY Zenon, <1>1 DEF Covered
    <2>5. x \notin candidates /\ x \in Blocks /\ x \in mapBlockIndex /\ "TRANSACTIONS" \in nStatus[x]
      BY Zenon, <1>1, ChainTypes DEF TreeInv, TypeOK
    <2>6. CASE Dominated(x)
      BY Zenon, <2>3, <2>6
    <2>7. CASE Failed(nStatus, x)
      <3>1. x \in cleared \cup Ancestors[b]
        BY Zenon, <1>1, <2>5, <2>7 DEF Failed
      <3>2. x \in cleared
        BY Zenon, <1>2, <2>1, <2>5, <2>7, <3>1 DEF IsValid
      <3>3. ~Worse(nSequenceId, tip, x)
        BY Zenon, <1>1, <2>5, <3>2
      <3>4. ~Worse(nSequenceId, c, x)
        BY Zenon, <2>4, <2>5, <3>3, ChainTypes, NotWorseOrder
      <3> QED
        BY Zenon, <1>1, <2>2, <2>4, <3>4, ChainTypes DEF Dominated, Sound
    <2> QED
      BY Zenon, <2>1, <2>5, <2>6, <2>7 DEF Covered
  <1> QED
    BY Zenon, <1>1, <1>3, <1>4, <1>5, <1>6 DEF BestInv

\* Without pruning the search meets no chain with missing data.
LEMMA NothingMissing ==
  ASSUME TreeInv, ProcessedHasData
  PROVE  \A c \in Discarded : Failed(nStatus, Highest(Blocking(c))) /\ c \in DiscardedFailed
  <1> TAKE c \in Discarded
  <1>1. c \in candidates /\ Blocking(c) # {} /\ Blocking(c) \in SUBSET Blocks
    BY Zenon, ChainTypes, BelowIsChain DEF Discarded, UsableCandidates, Blocking
  <1>2. Highest(Blocking(c)) \in Blocking(c)
    BY Zenon, <1>1, HighestChosen
  <1>3. Highest(Blocking(c)) \in Ancestors[c] /\ Highest(Blocking(c)) \in Blocks
    BY Zenon, <1>1, <1>2 DEF Blocking
  <1>4. "DATA" \in nStatus[Highest(Blocking(c))]
    BY Zenon, <1>1, <1>3, ChainTypes DEF ProcessedHasData
  <1>5. Failed(nStatus, Highest(Blocking(c)))
    BY Zenon, <1>2, <1>4 DEF Blocking
  <1> QED
    BY Zenon, <1>5 DEF DiscardedFailed

\* Without pruning the search discards only blocks that it flags.
LEMMA DiscardedFail ==
  ASSUME TreeInv, ProcessedHasData, Discard
  PROVE  \A x \in candidates \ candidates' : Failed(nStatus', x)
  <1> DEFINE failing == UNION {PathAbove(c) : c \in DiscardedFailed}
  <1>1. /\ nStatus' = Raise(nStatus, failing, {"FAILED_CHILD"})
        /\ candidates' = candidates \ UNION {PathAbove(c) \cup {Highest(Blocking(c))} : c \in Discarded}
    BY Zenon DEF Discard
  <1> SUFFICES ASSUME NEW x \in candidates \ candidates' PROVE Failed(nStatus', x)
    OBVIOUS
  <1>2. PICK c \in Discarded : x \in PathAbove(c) \cup {Highest(Blocking(c))}
    BY Zenon, <1>1
  <1>3. x \in Blocks
    BY Zenon, ChainTypes
  <1>4. x \in failing \/ Failed(nStatus, x)
    BY Zenon, <1>2, NothingMissing
  <1> HIDE DEF failing
  <1>5. nStatus'[x] = IF x \in failing THEN nStatus[x] \cup {"FAILED_CHILD"} ELSE nStatus[x]
    BY Zenon, <1>1, <1>3, ChainTypes DEF Raise
  <1> QED
    BY Zenon, <1>4, <1>5 DEF Failed, FailedMask

\* The top of the loop of ActivateBestChain.
LEMMA ChooseKeepsBest ==
  ASSUME OneThread, TreeInv, ProcessedHasData, WorkInv, BestInv, NEW t \in Threads, ChooseTarget(t)
  PROVE  BestInv'
  <1> SUFFICES ASSUME health' = "ok" PROVE BestInv'
    BY Zenon DEF BestInv
  <1> DEFINE target == IF mostWork[t] = NoBlock THEN FindMostWorkChain ELSE mostWork[t]
  <1>1. /\ UNCHANGED <<tip, linked, health, nSequenceId, fReconsiderAbove>>
        /\ candidates' \subseteq candidates
        /\ \A x \in Blocks : nStatus[x] \subseteq nStatus'[x]
        /\ \A c \in Blocks : Clean(c) => Clean(c)'
        /\ \/ /\ target \in {NoBlock, tip} /\ pc' = [pc EXCEPT ![t] = "idle"]
              /\ mostWork' = [mostWork EXCEPT ![t] = NoBlock]
           \/ /\ pc' = [pc EXCEPT ![t] = "step"]
              /\ mostWork' = [mostWork EXCEPT ![t] = target]
    BY Zenon, ChooseFacts
  <1>2. \A x \in candidates \ candidates' : Failed(nStatus', x)
    BY Zenon, DiscardedFail DEF ChooseTarget
  <1>3. \A x \in Blocks : Failed(nStatus, x) => Failed(nStatus', x)
    BY Zenon, <1>1 DEF Failed
  <1>4. \A c \in Blocks : Clean(c)' => Clean(c)
    BY Zenon, <1>3, BelowIsChain DEF Clean
  <1>5. ASSUME NEW c \in candidates', Clean(c)'
        PROVE  c \in candidates /\ Clean(c) /\ c \in UsableCandidates /\ c \in Blocks
    BY Zenon, <1>1, <1>4, <1>5, ChainTypes, CleanIsUsable DEF UsableCandidates
  <1>6. ASSUME NEW c \in candidates', Clean(c)'
        PROVE  target # NoBlock /\ ~Worse(nSequenceId, target, c)
    <2>1. CASE mostWork[t] = NoBlock
      <3>1. /\ FindMostWorkChain \in UsableCandidates
            /\ c = FindMostWorkChain \/ Worse(nSequenceId, c, FindMostWorkChain)
        BY Zenon, <1>5, <1>6, FindFacts
      <3>2. FindMostWorkChain \in Blocks
        BY Zenon, <3>1, ChainTypes DEF UsableCandidates
      <3> QED
        BY <1>5, <1>6, <2>1, <3>1, <3>2, ChainTypes, NotWorseOrder
    <2>2. CASE mostWork[t] # NoBlock
      BY Zenon, <1>1, <1>5, <1>6, <2>2 DEF BestInv, TargetIsBest
    <2> QED
      BY Zenon, <2>1, <2>2
  <1> HIDE DEF target
  <1>7. \A u \in Threads : u = t
    BY Zenon DEF OneThread
  <1>8. TargetIsBest'
    <2>1. mostWork'[t] = NoBlock \/ mostWork'[t] = target
      BY Zenon, <1>1, ChainTypes
    <2> QED
      BY Zenon, <1>1, <1>6, <1>7, <2>1 DEF TargetIsBest
  <1>9. IdleIsBest'
    <2>1. pc'[t] = "idle" => target \in {NoBlock, tip}
      BY Zenon, <1>1, ChainTypes
    <2> QED
      BY Zenon, <1>1, <1>6, <2>1 DEF IdleIsBest
  <1>10. Sound(tip)' /\ NoneWorse'
    BY Zenon, <1>1 DEF BestInv, Sound, NoneWorse
  <1>11. ASSUME ~fReconsiderAbove PROVE Covered'
    <2>1. ASSUME NEW x \in linked, Dominated(x) PROVE Dominated(x)'
      <3>1. PICK c \in candidates : Clean(c) /\ Sound(c) /\ ~Worse(nSequenceId, c, x)
        BY Zenon, <2>1 DEF Dominated
      <3>2. Clean(c)' /\ c \in Ancestors[c]
        BY Zenon, <1>1, <3>1, ChainTypes, BelowIsChain
      <3>3. c \in candidates'
        BY Zenon, <1>2, <3>2 DEF Clean
      <3> QED
        BY Zenon, <1>1, <3>1, <3>2, <3>3 DEF Dominated, Sound
    <2> QED
      BY Zenon, <1>1, <1>2, <1>3, <1>11, <2>1, ChainTypes DEF BestInv, Covered
  <1> QED
    BY Zenon, <1>1, <1>8, <1>9, <1>10, <1>11 DEF BestInv

\* A step that fails ends the promise; one that goes back reaches the target.
LEMMA StepBackKeepsBest ==
  ASSUME OneThread, TreeInv, WorkInv, BestInv, NEW t \in Threads,
         StepCannotDisconnect(t) \/ StepBack(t)
  PROVE  BestInv'
  <1>1. /\ UNCHANGED <<nStatus, candidates, linked, nSequenceId, fReconsiderAbove>>
        /\ pc' = [pc EXCEPT ![t] = "idle"] /\ mostWork' = [mostWork EXCEPT ![t] = NoBlock]
    BY Zenon DEF StepCannotDisconnect, StepBack, ReturnFromActivate, ids, manual
  <1>2. \A u \in Threads : u = t
    BY Zenon DEF OneThread
  <1>3. \A u \in Threads : mostWork'[u] = NoBlock
    BY Zenon, <1>1, <1>2, ChainTypes
  <1>4. CASE StepCannotDisconnect(t)
    <2>1. PICK stuck : health' = UndoFailure(Highest(stuck))
      BY Zenon, <1>4 DEF StepCannotDisconnect
    <2>2. health' # "ok"
      BY Zenon, <2>1 DEF UndoFailure
    <2> QED
      BY Zenon, <2>2 DEF BestInv
  <1>5. CASE StepBack(t)
    <2> SUFFICES ASSUME health' = "ok" PROVE BestInv'
      BY Zenon DEF BestInv
    <2>1. tip' = mostWork[t] /\ mostWork[t] \in Ancestors[tip] /\ health' = health
      BY Zenon, <1>5 DEF StepBack
    <2>2. mostWork[t] \in Blocks /\ tip \in Blocks /\ Ancestors[tip'] \subseteq Ancestors[tip]
      BY Zenon, <2>1, ChainTypes, BelowIsChain
    <2>3. \A c \in linked : Clean(c)' <=> Clean(c)
      BY Zenon, <1>1 DEF Clean
    <2>4. TargetIsBest' /\ Sound(tip)'
      BY Zenon, <1>3, <2>1, <2>2 DEF TargetIsBest, BestInv, Sound
    <2>5. IdleIsBest'
      BY Zenon, <1>1, <2>1, <2>2, <2>3, ChainTypes DEF IdleIsBest, BestInv, TargetIsBest
    <2>6. NoneWorse'
      BY Zenon, <1>1, <2>1, <2>2, ChainTypes, NotWorseBelow DEF NoneWorse, BestInv
    <2>7. ASSUME ~fReconsiderAbove PROVE Covered'
      <3>1. \A x \in linked : Dominated(x) => Dominated(x)'
        BY Zenon, <1>1, <2>3, ChainTypes DEF Dominated, Sound
      <3> QED
        BY Zenon, <1>1, <2>1, <2>7, <3>1 DEF BestInv, Covered
    <2> QED
      BY Zenon, <1>1, <2>4, <2>5, <2>6, <2>7 DEF BestInv
  <1> QED
    BY Zenon, <1>4, <1>5

\* A step forward: what it forgets is worse than the new tip, for which a
\* candidate stands that no invalid block can take away.
LEMMA StepForwardKeepsBest ==
  ASSUME OneThread, TreeInv, ProcessedHasData, WorkInv, BestInv, NEW t \in Threads, StepForward(t)
  PROVE  BestInv'
  <1> SUFFICES ASSUME health' = "ok" PROVE BestInv'
    BY Zenon DEF BestInv
  <1> DEFINE stop == StopsAt(t)
             target == mostWork[t]
             missing == "DATA" \notin nStatus[stop]
             invalid == ~missing /\ stop \in BadConnect
  <1>1. /\ tip' \in Ancestors[target]
        /\ \A x \in Ancestors[tip'] : x \in Ancestors[target] /\
              (x \in Ancestors[tip] \/ (x \notin BadConnect /\ "DATA" \in nStatus[x]))
        /\ \A x \in Blocks : (x = stop /\ invalid) \/ (Failed(nStatus', x) <=> Failed(nStatus, x))
        /\ invalid => "FAILED_VALID" \in nStatus'[stop]
        /\ \A c \in candidates :
              c \in candidates' \/ (c = stop /\ invalid) \/ Worse(nSequenceId, c, tip')
        /\ \A c \in candidates' : /\ c \in candidates
                                  /\ tip' \in Ancestors[tip] \/ ~Worse(nSequenceId, c, tip')
        /\ health' = IF missing THEN "aborted" ELSE health
        /\ \/ pc' = [pc EXCEPT ![t] = "idle"] /\ (missing \/ tip' = target)
              /\ mostWork' = [mostWork EXCEPT ![t] = NoBlock]
           \/ pc' = [pc EXCEPT ![t] = "activate"] /\ ~missing
              /\ mostWork' = [mostWork EXCEPT ![t] = IF invalid THEN NoBlock ELSE target]
    BY Zenon, ForwardOutcome
  <1>2. /\ target \in Blocks /\ tip \in Blocks /\ stop \in Blocks
    BY Zenon, StopFacts DEF StepForward
  <1>3. UNCHANGED <<linked, nSequenceId, fReconsiderAbove>>
    BY Zenon DEF StepForward, ids, manual
  <1>4. invalid => stop \in BadConnect
    OBVIOUS
  <1>5. ~missing /\ health = "ok"
    BY Zenon, <1>1
  <1> HIDE DEF stop, invalid, missing
  <1>6. target \in linked /\ target # NoBlock
    BY Zenon, <1>2, ChainTypes DEF TreeInv, ChainsAreLinked
  <1>7. tip' \in Blocks /\ tip' \in linked /\ tip' \in Ancestors[tip']
    BY Zenon, <1>1, <1>6, ChainTypes, BelowIsChain
  <1>8. Sound(tip') /\ Clean(tip')
    <2>1. Clean(target)
      BY Zenon, <1>5, <1>6 DEF WorkInv, ChainsHaveWork
    <2> QED
      BY Zenon, <1>1, <1>5, <2>1 DEF BestInv, Sound, Clean
  <1>9. \A x \in Blocks : Failed(nStatus, x) => Failed(nStatus', x)
    BY Zenon, <1>1 DEF Failed, FailedMask
  <1>10. \A c \in Blocks : Clean(c)' => Clean(c)
    BY Zenon, <1>9, BelowIsChain DEF Clean
  <1>11. ASSUME NEW c \in Blocks, Clean(c), Sound(c) PROVE Clean(c)' /\ ~(c = stop /\ invalid)
    <2>1. \A x \in Ancestors[c] : x \in Blocks /\ ~(x = stop /\ invalid)
      BY Zenon, <1>4, <1>11, BelowIsChain DEF Sound
    <2> QED
      BY Zenon, <1>1, <1>11, <2>1, BelowIsChain DEF Clean
  <1>12. NoneWorse'
    <2> SUFFICES ASSUME NEW c \in candidates' PROVE ~Worse(nSequenceId, c, tip')
      BY Zenon, <1>3 DEF NoneWorse
    <2>1. c \in candidates /\ c \in Blocks /\ ~Worse(nSequenceId, c, tip)
      BY Zenon, <1>1, <1>5, ChainTypes DEF BestInv, NoneWorse
    <2> QED
      BY Zenon, <1>1, <1>2, <2>1, NotWorseBelow
  <1>13. \A u \in Threads : u = t
    BY Zenon DEF OneThread
  <1>14. ASSUME NEW c \in candidates', Clean(c)' PROVE ~Worse(nSequenceId, target, c)
    <2>1. c \in candidates /\ Clean(c)
      BY Zenon, <1>1, <1>10, <1>14, ChainTypes
    <2> QED
      BY Zenon, <1>5, <1>6, <2>1 DEF BestInv, TargetIsBest
  <1>15. TargetIsBest'
    <2>1. mostWork'[t] = NoBlock \/ mostWork'[t] = target
      BY Zenon, <1>1, ChainTypes
    <2> QED
      BY Zenon, <1>3, <1>13, <1>14, <2>1 DEF TargetIsBest
  <1>16. IdleIsBest'
    <2>1. pc'[t] = "idle" => tip' = target
      BY Zenon, <1>1, <1>5, ChainTypes
    <2> QED
      BY Zenon, <1>3, <1>14, <2>1 DEF IdleIsBest
  <1>17. ASSUME ~fReconsiderAbove PROVE Covered'
    <2>1. Dominated(tip') /\ Covered
      BY Zenon, <1>5, <1>7, <1>8, <1>17, CoverAt DEF BestInv
    <2>2. PICK d \in candidates : Clean(d) /\ Sound(d) /\ ~Worse(nSequenceId, d, tip')
      BY Zenon, <2>1 DEF Dominated
    <2>3. d \in Blocks /\ d \in candidates' /\ Clean(d)'
      BY <1>1, <1>11, <2>2, ChainTypes
    <2>4. ASSUME NEW x \in linked, ~Worse(nSequenceId, tip', x) PROVE Dominated(x)'
      <3>1. ~Worse(nSequenceId, d, x)
        BY Zenon, <1>7, <2>2, <2>3, <2>4, ChainTypes, NotWorseOrder
      <3> QED
        BY Zenon, <1>3, <2>2, <2>3, <3>1 DEF Dominated, Sound
    <2> SUFFICES ASSUME NEW x \in linked \ candidates', ~Failed(nStatus', x) PROVE Dominated(x)'
      BY Zenon, <1>3 DEF Covered
    <2>5. x \in Blocks /\ ~Failed(nStatus, x) /\ ~(x = stop /\ invalid)
      BY Zenon, <1>1, <1>9, ChainTypes DEF Failed, FailedMask
    <2>6. CASE x \in candidates
      <3>1. Worse(nSequenceId, x, tip')
        BY Zenon, <1>1, <2>5, <2>6
      <3>2. ~Worse(nSequenceId, tip', x)
        BY Zenon, <1>7, <2>5, <3>1, ChainTypes, NotWorseOrder
      <3> QED
        BY Zenon, <2>4, <3>2
    <2>7. CASE x \notin candidates
      <3>1. PICK c \in candidates : Clean(c) /\ Sound(c) /\ ~Worse(nSequenceId, c, x)
        BY Zenon, <2>1, <2>5, <2>7 DEF Covered, Dominated
      <3>2. c \in Blocks /\ Clean(c)' /\ ~(c = stop /\ invalid)
        BY Zenon, <1>11, <3>1, ChainTypes
      <3>3. CASE c \in candidates'
        BY Zenon, <1>3, <3>1, <3>2, <3>3 DEF Dominated, Sound
      <3>4. CASE Worse(nSequenceId, c, tip')
        <4>1. ~Worse(nSequenceId, tip', c)
          BY Zenon, <1>7, <3>2, <3>4, ChainTypes, NotWorseOrder
        <4>2. ~Worse(nSequenceId, tip', x)
          BY Zenon, <1>7, <2>5, <3>1, <3>2, <4>1, ChainTypes, NotWorseOrder
        <4> QED
          BY Zenon, <2>4, <4>2
      <3> QED
        BY Zenon, <1>1, <3>2, <3>3, <3>4
    <2> QED
      BY Zenon, <2>6, <2>7
  <1>18. Sound(tip)'
    BY Zenon, <1>8 DEF Sound
  <1> QED
    BY Zenon, <1>3, <1>12, <1>15, <1>16, <1>17, <1>18 DEF BestInv

\* preciousblock is not called.
NoPrecious == MaxManual = 0 \/ "precious" \notin ManualOps

\* Every step keeps the invariant.
LEMMA BestKept ==
  ASSUME OneThread, MaxPrune = 0, NoPrecious, TreeInv, ProcessedHasData, WorkInv, BestInv, [Next]_vars
  PROVE  BestInv'
  <1>0. TreeInv' /\ WorkInv'
    BY Zenon, StepKeepsTree, WorkKept
  <1>1. CASE /\ UNCHANGED <<tip, linked, candidates, nSequenceId, mostWork, health, fReconsiderAbove>>
             /\ UNCHANGED <<nStatus, pc>>
    BY Zenon, <1>1, SameChainsKeepBest
  <1>2. ASSUME NEW b \in Blocks, PruneOneBlockFile(b) PROVE FALSE
    BY <1>2 DEF PruneOneBlockFile, TreeInv, TypeOK
  <1>3. ASSUME NEW t \in Threads, NEW b \in Blocks, PreciousBlock(t, b) PROVE FALSE
    <2>1. ManualOp(t, "precious", b)
      BY Zenon, <1>3 DEF PreciousBlock
    <2>2. CASE MaxManual = 0
      BY Zenon, <2>1, <2>2, NoManualOps
    <2>3. CASE "precious" \notin ManualOps
      BY Zenon, <2>1, <2>3 DEF ManualOp
    <2> QED
      BY Zenon, <2>2, <2>3 DEF NoPrecious
  <1>4. ASSUME NEW t \in Threads, ThreadStep(t) PROVE BestInv'
    BY Zenon, <1>4, ChooseKeepsBest, StepBackKeepsBest, StepForwardKeepsBest
       DEF ThreadStep, ActivateBestChainStep
  <1>5. ASSUME NEW b \in Blocks, ProcessNewBlockHeader(b) PROVE BestInv'
    BY Zenon, <1>1, <1>5 DEF ProcessNewBlockHeader, threads, ids, manual
  <1>6. CASE UNCHANGED vars
    BY Zenon, <1>1, <1>6 DEF vars
  <1> QED
    BY Zenon, <1>0, <1>2, <1>3, <1>4, <1>5, <1>6, BlockKeepsBest, InvalidateKeepsBest, ReconsiderKeepsBest
       DEF Next

\* Only reconsiderblock raises fReconsiderAbove.
LEMMA FlagKept ==
  ASSUME [Next]_vars, \A t \in Threads : \A op, b : ~ManualOp(t, op, b)
  PROVE  fReconsiderAbove' = fReconsiderAbove
  <1>1. ASSUME NEW b \in Blocks, ProcessNewBlockHeader(b) \/ PruneOneBlockFile(b)
        PROVE  fReconsiderAbove' = fReconsiderAbove
    BY Zenon, <1>1 DEF ProcessNewBlockHeader, PruneOneBlockFile, manual
  <1>2. ASSUME NEW t \in Threads, NEW b \in Blocks, NEW fRequested \in BOOLEAN,
               ProcessNewBlock(t, b, fRequested)
        PROVE  fReconsiderAbove' = fReconsiderAbove
    BY Zenon, <1>2 DEF ProcessNewBlock, manual
  <1>3. ASSUME NEW t \in Threads, NEW b \in Blocks,
               InvalidateBlock(t, b) \/ ResetBlockFailureFlags(t, b) \/ PreciousBlock(t, b)
        PROVE  FALSE
    BY Zenon, <1>3 DEF InvalidateBlock, ResetBlockFailureFlags, PreciousBlock
  <1>4. ASSUME NEW t \in Threads, ThreadStep(t) PROVE fReconsiderAbove' = fReconsiderAbove
    BY Zenon, <1>4
       DEF ThreadStep, ChooseTarget, ActivateBestChainStep, StepCannotDisconnect, StepBack, StepForward, manual
  <1> QED
    BY Zenon, <1>1, <1>2, <1>3, <1>4 DEF Next, vars, manual

\* With RPC calls too a failure has a failed block below it, as long as
\* reconsiderblock is not given a block above a failed one.
LEMMA FailureExplained ==
  ASSUME TreeInv, ~fReconsiderAbove => FailedHasInvalidAncestor, [Next]_vars
  PROVE  ~fReconsiderAbove' => FailedHasInvalidAncestor'
  <1> SUFFICES ASSUME ~fReconsiderAbove' PROVE FailedHasInvalidAncestor'
    OBVIOUS
  <1>0. nStatus \in [Blocks -> SUBSET Flags] /\ mapBlockIndex \subseteq Blocks
    BY Zenon DEF TreeInv, TypeOK
  <1>1. CASE \A t \in Threads : \A op, b : ~ManualOp(t, op, b)
    <2>1. fReconsiderAbove' = fReconsiderAbove
      BY Zenon, <1>1, FlagKept
    <2> QED
      BY Zenon, <1>1, <2>1, FailureKept
  <1>2. ASSUME NEW t \in Threads, NEW op, NEW b, ManualOp(t, op, b)
        PROVE  FailedHasInvalidAncestor /\ mapBlockIndex' = mapBlockIndex
    BY Zenon, <1>2 DEF ManualOp
  <1>3. ASSUME NEW t \in Threads, NEW b \in Blocks, InvalidateBlock(t, b) PROVE FailedHasInvalidAncestor'
    <2>1. FailedHasInvalidAncestor /\ mapBlockIndex' = mapBlockIndex
      BY Zenon, <1>2, <1>3 DEF InvalidateBlock
    <2>2. PICK walked : /\ nStatus' = Raise(MarkInvalid(nStatus, b), walked, {"FAILED_CHILD"})
                        /\ \A x \in walked : b \in Ancestors[x]
      BY Zenon, <1>3 DEF InvalidateBlock
    <2> DEFINE status == MarkInvalid(nStatus, b)
    <2>3. /\ status \in [Blocks -> SUBSET Flags]
          /\ \A x \in Blocks : status[x] = IF x = b THEN nStatus[x] \cup {"FAILED_VALID"} ELSE nStatus[x]
      BY Zenon, <1>0 DEF MarkInvalid, Raise, Flags
    <2> HIDE DEF status
    <2>4. \A x \in Blocks : nStatus'[x] = IF x \in walked THEN status[x] \cup {"FAILED_CHILD"} ELSE status[x]
      BY Zenon, <2>2, <2>3 DEF Raise, status
    <2>5. \A x \in Blocks : nStatus[x] \subseteq nStatus'[x]
      BY Zenon, <2>3, <2>4
    <2>6. "FAILED_VALID" \in nStatus'[b]
      BY Zenon, <2>3, <2>4
    <2>7. \A x \in Blocks : b \notin Ancestors[x] => nStatus'[x] = nStatus[x]
      BY Zenon, <2>2, <2>3, <2>4, BelowIsChain
    <2> QED
      BY Zenon, <1>0, <2>1, <2>5, <2>6, <2>7, BelowIsChain
         DEF FailedHasInvalidAncestor, HasInvalidAncestor, Failed
  <1>4. ASSUME NEW t \in Threads, NEW b \in Blocks, ResetBlockFailureFlags(t, b)
        PROVE  FailedHasInvalidAncestor'
    <2>1. FailedHasInvalidAncestor /\ mapBlockIndex' = mapBlockIndex
      BY Zenon, <1>2, <1>4 DEF ResetBlockFailureFlags
    <2> DEFINE cleared == {x \in mapBlockIndex : b \in Ancestors[x] /\ ~IsValid(nStatus, x)}
    <2>2. /\ \A x \in Blocks : nStatus'[x] = IF x \in cleared \cup Ancestors[b]
                                             THEN nStatus[x] \ FailedMask ELSE nStatus[x]
          /\ \A a \in Ancestors[b] \ {b} : ~Failed(nStatus, a)
      BY Zenon, <1>4, ReconsiderFacts
    <2>3. \A x \in cleared : b \in Ancestors[x]
      OBVIOUS
    <2>4. \A x \in mapBlockIndex \ cleared : b \in Ancestors[x] => ~Failed(nStatus, x)
      BY Zenon DEF IsValid
    <2> HIDE DEF cleared
    <2> SUFFICES ASSUME NEW c \in mapBlockIndex, Failed(nStatus', c) PROVE HasInvalidAncestor(c)'
      BY Zenon, <2>1 DEF FailedHasInvalidAncestor
    <2>5. c \in Blocks /\ c \notin cleared /\ Failed(nStatus, c)
      BY Zenon, <1>0, <2>2 DEF Failed
    <2>6. b \notin Ancestors[c]
      BY Zenon, <2>4, <2>5
    <2>7. PICK a \in Ancestors[c] : "FAILED_VALID" \in nStatus[a]
      BY Zenon, <2>1, <2>5 DEF FailedHasInvalidAncestor, HasInvalidAncestor
    <2>8. a \in Blocks /\ Ancestors[a] \subseteq Ancestors[c] /\ Failed(nStatus, a)
      BY Zenon, <2>5, <2>7, BelowIsChain DEF Failed, FailedMask
    <2>9. a \notin cleared \cup Ancestors[b]
      BY Zenon, <2>2, <2>3, <2>6, <2>7, <2>8
    <2> QED
      BY Zenon, <2>2, <2>7, <2>8, <2>9 DEF HasInvalidAncestor
  <1>5. ASSUME NEW t \in Threads, NEW b \in Blocks, PreciousBlock(t, b) PROVE FailedHasInvalidAncestor'
    <2>1. FailedHasInvalidAncestor /\ mapBlockIndex' = mapBlockIndex /\ nStatus' = nStatus
      BY Zenon, <1>2, <1>5 DEF PreciousBlock
    <2> QED
      BY Zenon, <2>1 DEF FailedHasInvalidAncestor, HasInvalidAncestor
  <1>6. ASSUME NEW t \in Threads, NEW op, NEW b, ManualOp(t, op, b)
        PROVE  FailedHasInvalidAncestor'
    <2>1. nManual \in 0 .. MaxManual
      BY Zenon DEF TreeInv, TypeOK
    <2>2. nManual' # nManual
      <3>1. nManual' = nManual + 1
        BY Zenon, <1>6 DEF ManualOp
      <3> QED
        BY <2>1, <3>1
    <2>3. \E u \in Threads, c \in Blocks :
             InvalidateBlock(u, c) \/ ResetBlockFailureFlags(u, c) \/ PreciousBlock(u, c)
      BY Zenon, <2>2
         DEF Next, vars, manual, ProcessNewBlockHeader, PruneOneBlockFile, ProcessNewBlock,
             ThreadStep, ChooseTarget, ActivateBestChainStep, StepCannotDisconnect, StepBack, StepForward
    <2> QED
      BY Zenon, <1>3, <1>4, <1>5, <2>3
  <1> QED
    BY Zenon, <1>1, <1>6

\* A failed flag is explained by a block at or below it that failed itself,
\* with any RPC calls, prunings and threads, as long as reconsiderblock is not
\* given a block above a failed one.
THEOREM FailuresStayExplained == Spec => [](~fReconsiderAbove => FailedHasInvalidAncestor)
  <1>1. Init => FailedHasInvalidAncestor
    <2> SUFFICES ASSUME Init PROVE ~Failed(nStatus, Genesis) /\ mapBlockIndex = {Genesis}
      BY Zenon DEF FailedHasInvalidAncestor
    <2> QED
      BY Zenon, TreeAssumption DEF Init, Failed, FailedMask
  <1>2. TreeInv /\ (~fReconsiderAbove => FailedHasInvalidAncestor) /\ [Next]_vars
        => (~fReconsiderAbove => FailedHasInvalidAncestor)'
    BY Zenon, FailureExplained
  <1> QED
    BY <1>1, <1>2, TreeInvHolds, PTL DEF Spec

\* All that the results below rest on, without pruning and with one thread.
QuietInv ==
  /\ TreeInv /\ ProcessedHasData /\ WorkInv /\ BestInv
  /\ ~fReconsiderAbove => FailedHasInvalidAncestor

\* The invariant is inductive.
LEMMA QuietInvHolds ==
  ASSUME OneThread, MaxPrune = 0, NoPrecious
  PROVE  Spec => []QuietInv
  <1>1. TreeInv /\ ProcessedHasData /\ [Next]_vars => ProcessedHasData'
    BY Zenon, DataKept
  <1>2. TreeInv /\ WorkInv /\ [Next]_vars => WorkInv'
    BY Zenon, WorkKept
  <1>3. TreeInv /\ ProcessedHasData /\ WorkInv /\ BestInv /\ [Next]_vars => BestInv'
    BY Zenon, BestKept
  <1> QED
    BY <1>1, <1>2, <1>3, InitData, InitWork, InitBest, TreeInvHolds, FailuresStayExplained, PTL
       DEF Spec, QuietInv

\* Once the activation has returned, no usable linked chain is better than
\* the tip.
LEMMA QuietTipIsBest ==
  ASSUME QuietInv, ~fReconsiderAbove, Quiet, NEW b \in linked, Worse(nSequenceId, tip, b)
  PROVE  Blocking(b) # {}
  <1> SUFFICES ASSUME Blocking(b) = {} PROVE FALSE
    OBVIOUS
  <1>1. /\ TreeInv /\ Clean(tip) /\ Covered
        /\ \A c \in candidates : Clean(c) => ~Worse(nSequenceId, tip, c)
    BY Zenon DEF QuietInv, WorkInv, ChainsHaveWork, BestInv, IdleIsBest, Quiet
  <1>2. b \in Blocks /\ Clean(b) /\ b \in Ancestors[b]
    BY Zenon, <1>1, ChainTypes, UsableIsClean, BelowIsChain
  <1>3. b \notin candidates
    BY Zenon, <1>1, <1>2
  <1>4. PICK c \in candidates : Clean(c) /\ ~Worse(nSequenceId, c, b)
    BY Zenon, <1>1, <1>2, <1>3 DEF Covered, Dominated, Clean
  <1> QED
    BY Zenon, <1>1, <1>2, <1>4, ChainTypes, NotWorseOrder

\* With one thread and without pruning, invalidateblock and reconsiderblock,
\* in any order and number, leave the best usable linked chain active and no
\* failure unexplained, as long as no block above a failed one is
\* reconsidered: the activation never forgets a chain that it falls back on.
THEOREM RpcsUndone ==
  ASSUME OneThread, MaxPrune = 0, NoPrecious
  PROVE  Spec => []ManualOpsUndone
  <1>1. QuietInv => ManualOpsUndone
    BY Zenon, QuietTipIsBest DEF QuietInv, ManualOpsUndone
  <1> QED
    BY <1>1, QuietInvHolds, PTL

\* Under the same assumptions the asserts of CheckBlockIndex on
\* setBlockIndexCandidates hold whenever the activation has returned.
THEOREM CandidatesCorrect ==
  ASSUME OneThread, MaxPrune = 0, NoPrecious
  PROVE  Spec => []QuietCandidatesExact
  <1>1. ASSUME QuietInv, Quiet, ~fReconsiderAbove, NEW b \in mapBlockIndex
        PROVE  IF ~Worse(nSequenceId, b, tip) /\ b \in linked
               THEN ~HasInvalidAncestor(b) /\ (HasAllData(b) \/ b = tip) => b \in candidates
               ELSE b \notin candidates
    <2>1. /\ TreeInv /\ Covered /\ NoneWorse /\ FailedHasInvalidAncestor
          /\ \A c \in candidates : Clean(c) => ~Worse(nSequenceId, tip, c)
      BY Zenon, <1>1 DEF QuietInv, BestInv, IdleIsBest, Quiet
    <2>2. CASE ~(~Worse(nSequenceId, b, tip) /\ b \in linked)
      BY Zenon, <2>1, <2>2, ChainTypes DEF NoneWorse
    <2>3. ASSUME ~Worse(nSequenceId, b, tip), b \in linked, ~HasInvalidAncestor(b), b \notin candidates
          PROVE  FALSE
      <3>1. b \in Blocks /\ tip \in Blocks
        BY Zenon, <2>1, <2>3, ChainTypes
      <3>2. ~Failed(nStatus, b)
        BY Zenon, <2>1, <2>3 DEF FailedHasInvalidAncestor
      <3>3. PICK c \in candidates : Clean(c) /\ ~Worse(nSequenceId, c, b)
        BY Zenon, <2>1, <2>3, <3>2 DEF Covered, Dominated
      <3>4. c \in Blocks /\ ~Worse(nSequenceId, tip, c) /\ ~Worse(nSequenceId, c, tip)
        BY Zenon, <2>1, <3>3, ChainTypes DEF NoneWorse
      <3>5. c = tip
        BY Zenon, <2>1, <3>1, <3>4, ChainTypes, NotWorseOrder
      <3>6. b = tip
        BY Zenon, <2>1, <2>3, <3>1, <3>3, <3>5, ChainTypes, NotWorseOrder
      <3> QED
        BY Zenon, <2>3, <3>5, <3>6
    <2> QED
      BY Zenon, <2>2, <2>3
  <1>2. QuietInv => QuietCandidatesExact
    BY Zenon, <1>1 DEF QuietCandidatesExact, CandidatesExact
  <1> QED
    BY <1>2, QuietInvHolds, PTL

-----------------------------------------------------------------------------
(* Without RPC calls and pruning: stored blocks, linked or waiting.         *)

\* A block on disk has been received: WriteBlockToDisk and
\* ReceivedBlockTransactions go together.
DataIsProcessed ==
  \A b \in Blocks : "DATA" \in nStatus[b] => "TRANSACTIONS" \in nStatus[b]

\* A block that waits for its parent is not linked.
WaitingIsUnlinked == \A p \in unlinked : p[2] \notin linked

StoreInv == DataIsProcessed /\ WaitingIsUnlinked

\* Genesis is stored, and nothing waits.
LEMMA InitStore == Init => StoreInv
  BY Zenon DEF Init, StoreInv, DataIsProcessed, WaitingIsUnlinked

\* The two flags are set together, and BLOCK_VALID_TRANSACTIONS is never cleared.
LEMMA StoredKept ==
  ASSUME MaxManual = 0, TreeInv, DataIsProcessed, [Next]_vars
  PROVE  DataIsProcessed'
  <1>0. nStatus \in [Blocks -> SUBSET Flags]
    BY Zenon DEF TreeInv, TypeOK
  <1>1. CASE nStatus' = nStatus
    BY Zenon, <1>1 DEF DataIsProcessed
  <1>2. ASSUME NEW b \in Blocks, PruneOneBlockFile(b) PROVE DataIsProcessed'
    BY Zenon, <1>0, <1>2 DEF PruneOneBlockFile, Clear, DataIsProcessed
  <1>3. ASSUME NEW t \in Threads, NEW b \in Blocks, NEW fRequested \in BOOLEAN,
               ProcessNewBlock(t, b, fRequested)
        PROVE  DataIsProcessed'
    <2>1. CASE nStatus' = Raise(nStatus, {b}, {"FAILED_VALID"})
      BY Zenon, <2>1 DEF DataIsProcessed, Raise
    <2>2. CASE nStatus' = Raise(nStatus, {b}, {"DATA", "TRANSACTIONS"})
      BY Zenon, <2>2 DEF DataIsProcessed, Raise
    <2> QED
      BY Zenon, <1>1, <1>3, <2>1, <2>2 DEF ProcessNewBlock, ReceivedBlockTransactions, MarkInvalid
  <1>4. ASSUME NEW t \in Threads, ThreadStep(t) PROVE DataIsProcessed'
    <2>1. CASE Discard
      BY Zenon, <2>1 DEF Discard, Raise, DataIsProcessed
    <2>2. CASE StepForward(t)
      <3>1. \A c \in Blocks : nStatus'[c] \cap {"TRANSACTIONS", "FAILED_CHILD", "DATA"}
                              = nStatus[c] \cap {"TRANSACTIONS", "FAILED_CHILD", "DATA"}
        BY Zenon, <2>2, ForwardFacts
      <3> QED
        BY Zenon, <3>1 DEF DataIsProcessed
    <2> QED
      BY Zenon, <1>1, <1>4, <2>1, <2>2
         DEF ThreadStep, ChooseTarget, ActivateBestChainStep, StepCannotDisconnect, StepBack
  <1> QED
    BY ZenonT(30), <1>1, <1>2, <1>3, <1>4, NoManualOps
       DEF Next, vars, ProcessNewBlockHeader, InvalidateBlock, ResetBlockFailureFlags, PreciousBlock

\* Without pruning, what is put into mapBlocksUnlinked is not linked, and
\* what is linked is taken out of it.
LEMMA WaitingKept ==
  ASSUME MaxPrune = 0, TreeInv, ProcessedHasData, WaitingIsUnlinked, [Next]_vars
  PROVE  WaitingIsUnlinked'
  <1>1. CASE linked' = linked /\ unlinked' \subseteq unlinked
    BY Zenon, <1>1 DEF WaitingIsUnlinked
  <1>2. ASSUME NEW t \in Threads, NEW b \in Blocks, NEW fRequested \in BOOLEAN,
               ProcessNewBlock(t, b, fRequested), ~(linked' = linked /\ unlinked' \subseteq unlinked)
        PROVE  WaitingIsUnlinked'
    <2>1. b # Genesis /\ ~NotProcessed(b, fRequested) /\ ReceivedBlockTransactions(b)
      BY Zenon, <1>2 DEF ProcessNewBlock
    <2>2. "TRANSACTIONS" \notin nStatus[b] /\ b \notin linked
      BY Zenon, <2>1, ReceivedIsNew
    <2>3. CASE ~ParentLinked(b)
      <3>1. linked' = linked /\ \A p \in unlinked' : p \in unlinked \/ p = <<Parent[b], b>>
        BY Zenon, <2>1, <2>3, ReceivedFacts
      <3> QED
        BY <2>2, <3>1 DEF WaitingIsUnlinked
    <2>4. CASE ParentLinked(b)
      <3>1. linked' = linked \cup NowLinked(b) /\ unlinked' = {p \in unlinked : p[1] \notin NowLinked(b)}
        BY Zenon, <2>1, <2>4 DEF ReceivedBlockTransactions
      <3>2. ASSUME NEW p \in unlinked', p[2] \in NowLinked(b) PROVE FALSE
        <4>1. PICK x \in mapBlockIndex \ {Genesis} : p = <<Parent[x], x>> /\ "TRANSACTIONS" \in nStatus[x]
          BY Zenon, <3>1 DEF TreeInv, WaitingIsProcessed
        <4>2. x \in NowLinked(b) /\ Parent[x] \notin NowLinked(b) /\ x # b /\ x \in Blocks \ {Genesis}
          BY Zenon, <2>2, <3>1, <3>2, <4>1 DEF TreeInv, TypeOK
        <4>3. Parent[x] \in Blocks /\ Ancestors[x] = Ancestors[Parent[x]] \cup {x}
          BY Zenon, <4>2, ParentBelow
        <4>4. Parent[x] \in NowLinked(b)
          BY Zenon, <4>2, <4>3 DEF NowLinked
        <4> QED
          BY Zenon, <4>2, <4>4
      <3> QED
        BY Zenon, <3>1, <3>2 DEF WaitingIsUnlinked
    <2> QED
      BY Zenon, <2>3, <2>4
  <1>3. ASSUME NEW t \in Threads, ChooseTarget(t), Discard PROVE WaitingIsUnlinked'
    <2>1. DiscardedMissing = {}
      BY Zenon, NothingMissing DEF DiscardedMissing
    <2>2. WaitAgain = {}
      BY Zenon, <2>1 DEF WaitAgain
    <2>3. unlinked' \subseteq unlinked /\ linked' = linked
      BY Zenon, <1>3, <2>2 DEF Discard, ChooseTarget
    <2> QED
      BY Zenon, <1>1, <2>3
  <1>4. ASSUME NEW b \in Blocks, PruneOneBlockFile(b) PROVE FALSE
    BY <1>4 DEF PruneOneBlockFile, TreeInv, TypeOK
  <1>5. ASSUME NEW b \in Blocks, ProcessNewBlockHeader(b) PROVE WaitingIsUnlinked'
    BY Zenon, <1>1, <1>5 DEF ProcessNewBlockHeader
  <1>6. ASSUME NEW t \in Threads, NEW b \in Blocks,
               InvalidateBlock(t, b) \/ ResetBlockFailureFlags(t, b) \/ PreciousBlock(t, b)
        PROVE  WaitingIsUnlinked'
    BY Zenon, <1>1, <1>6 DEF InvalidateBlock, ResetBlockFailureFlags, PreciousBlock, ManualOp
  <1>7. ASSUME NEW t \in Threads, ThreadStep(t) PROVE WaitingIsUnlinked'
    BY Zenon, <1>1, <1>3, <1>7
       DEF ThreadStep, ChooseTarget, ActivateBestChainStep, StepCannotDisconnect, StepBack, StepForward
  <1> QED
    BY Zenon, <1>1, <1>2, <1>4, <1>5, <1>6, <1>7 DEF Next, vars

\* Without RPC calls and pruning, exactly the blocks whose data arrived before
\* that of an ancestor wait in mapBlocksUnlinked, with any number of threads:
\* the asserts of CheckBlockIndex on foundInUnlinked.
THEOREM UnlinkedCorrect ==
  ASSUME MaxManual = 0, MaxPrune = 0
  PROVE  Spec => []UnlinkedExact
  <1>1. TreeInv /\ LinkInv /\ [Next]_vars => LinkInv'
    BY Zenon, LinkKept
  <1>2. TreeInv /\ LinkInv /\ StoreInv /\ [Next]_vars => StoreInv'
    BY Zenon, StoredKept, WaitingKept DEF StoreInv, LinkInv
  <1>3. ASSUME TreeInv, LinkInv, StoreInv, FailedHasInvalidAncestor, NEW b \in mapBlockIndex \ {Genesis}
        PROVE  /\ "DATA" \in nStatus[b] /\ b \notin linked /\ ~HasInvalidAncestor(b)
                    => <<Parent[b], b>> \in unlinked
               /\ <<Parent[b], b>> \in unlinked => "DATA" \in nStatus[b] /\ ~HasAllData(b)
               /\ b \in linked => HasAllData(b)
    <2>1. /\ b \in Blocks \ {Genesis} /\ Parent[b] \in Blocks /\ Parent[b] \in mapBlockIndex
          /\ Ancestors[Parent[b]] \subseteq Ancestors[b] /\ Ancestors[b] \subseteq Blocks
      BY Zenon, <1>3, ParentBelow, BelowIsChain DEF TreeInv, TypeOK, IndexClosed
    <2>2. ASSUME "DATA" \in nStatus[b], b \notin linked, ~HasInvalidAncestor(b)
          PROVE  <<Parent[b], b>> \in unlinked
      <3>1. ~Failed(nStatus, Parent[b])
        BY Zenon, <1>3, <2>1, <2>2 DEF FailedHasInvalidAncestor, HasInvalidAncestor
      <3> QED
        BY Zenon, <1>3, <2>1, <2>2, <3>1 DEF LinkInv, ProcessedWaits, StoreInv, DataIsProcessed
    <2>3. ASSUME <<Parent[b], b>> \in unlinked PROVE "DATA" \in nStatus[b] /\ ~HasAllData(b)
      <3>1. PICK x \in mapBlockIndex : <<Parent[b], b>> = <<Parent[x], x>> /\ "TRANSACTIONS" \in nStatus[x]
        BY Zenon, <1>3, <2>3 DEF TreeInv, WaitingIsProcessed
      <3>2. "DATA" \in nStatus[b]
        BY Zenon, <1>3, <2>1, <3>1 DEF LinkInv, ProcessedHasData
      <3>3. b \notin linked
        BY Zenon, <1>3, <2>3 DEF StoreInv, WaitingIsUnlinked
      <3>4. PICK a \in Ancestors[b] : "TRANSACTIONS" \notin nStatus[a]
        BY Zenon, <1>3, <3>3 DEF LinkInv, LinkedIffProcessed
      <3> QED
        BY Zenon, <1>3, <2>1, <3>2, <3>4 DEF StoreInv, DataIsProcessed, HasAllData
    <2>4. b \in linked => HasAllData(b)
      BY Zenon, <1>3, <2>1, ChainTypes DEF LinkInv, ProcessedHasData, HasAllData
    <2> QED
      BY Zenon, <2>2, <2>3, <2>4
  <1>4. TreeInv /\ LinkInv /\ StoreInv /\ FailedHasInvalidAncestor => UnlinkedExact
    BY Zenon, <1>3 DEF UnlinkedExact
  <1> QED
    BY <1>1, <1>2, <1>4, InitLink, InitStore, TreeInvHolds, FailuresExplained, PTL DEF Spec

\* Without RPC calls and pruning and with one thread, whenever
\* ActivateBestChain has returned no chain of the index that has all its data
\* and no failed block is better than the active one: "the result is either
\* failure or an activated best chain".
THEOREM BestChainActivated ==
  ASSUME OneThread, MaxManual = 0, MaxPrune = 0
  PROVE  Spec => []BestChainIsActive
  <1>1. TreeInv /\ LinkInv /\ [Next]_vars => LinkInv'
    BY Zenon, LinkKept
  <1>2. TreeInv /\ DataIsProcessed /\ [Next]_vars => DataIsProcessed'
    BY Zenon, StoredKept
  <1>3. TreeInv /\ ~fReconsiderAbove /\ [Next]_vars => ~fReconsiderAbove'
    BY Zenon, NoManualOps, FlagKept
  <1>4. Init => DataIsProcessed /\ ~fReconsiderAbove
    BY Zenon DEF Init, DataIsProcessed
  <1>5. ASSUME QuietInv, LinkInv, DataIsProcessed, ~fReconsiderAbove, Quiet,
               NEW b \in mapBlockIndex, Worse(nSequenceId, tip, b), Blocking(b) = {}
        PROVE  FALSE
    <2>1. TreeInv /\ b \in Blocks /\ Ancestors[b] \subseteq Blocks
      BY Zenon, <1>5, BelowIsChain DEF QuietInv, TreeInv, TypeOK
    <2>2. \A a \in Ancestors[b] : "TRANSACTIONS" \in nStatus[a]
      BY Zenon, <1>5, <2>1, ChainTypes DEF Blocking, DataIsProcessed
    <2>3. b \in linked
      BY Zenon, <1>5, <2>2 DEF LinkInv, LinkedIffProcessed
    <2> QED
      BY Zenon, <1>5, <2>3, QuietTipIsBest
  <1>6. QuietInv /\ LinkInv /\ DataIsProcessed /\ ~fReconsiderAbove => BestChainIsActive
    BY Zenon, <1>5 DEF BestChainIsActive
  <1>7. NoPrecious
    BY Zenon DEF NoPrecious
  <1>8. Spec => []QuietInv
    BY Zenon, <1>7, QuietInvHolds
  <1> QED
    BY <1>1, <1>2, <1>3, <1>4, <1>6, <1>8, InitLink, TreeInvHolds, PTL DEF Spec
=============================================================================
