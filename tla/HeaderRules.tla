------------------------------ MODULE HeaderRules ------------------------------
(* The rules a header has to obey to enter the block index, beyond being    *)
(* known or having a failed ancestor (module BlockTree): the limit on       *)
(* successive blocks of one algorithm (AcceptBlockHeader), the target       *)
(* required of its algorithm (GetNextWorkRequired), its time and its        *)
(* version (ContextualCheckBlockHeader); and the header a miner is given    *)
(* (CreateNewBlock, TestBlockValidity).                                     *)
(*                                                                          *)
(* All the rules look at the ancestors of the header and at the clock only, *)
(* so the state is one branch of the block tree; the blocks on its side do  *)
(* not matter. Hashes meet their targets.                                   *)
EXTENDS ChainWork, Functions

CONSTANTS
    Slot1,                  \* the algorithm of the genesis block
    Slot3,                  \* the slot that changes from Qubit to Argon2d
    TimeArgon2dStart,       \* nTimeArgon2dStart
    ByteBits,               \* bits of a digit of a compact target: 8
    PoWAveragingInterval,   \* nPoWAveragingInterval
    PowTargetSpacing,       \* nPowTargetSpacing
    InitialPhase,           \* height at which targets become steadier: 1999
    MaxAdjustUp,            \* nMaxAdjustUp, per cent
    MaxAdjustDown,          \* nMaxAdjustDown, per cent
    Rule2Start,             \* nBlockSequentialAlgoRule2Start
    MaxCountV1,             \* nBlockSequentialAlgoMaxCountV1
    MaxCountV2,             \* nBlockSequentialAlgoMaxCountV2
    MajorityWindow,         \* nMajorityWindow
    MajorityReject,         \* nMajorityRejectBlockOutdated
    MedianTimeSpan,         \* nMedianTimeSpan: 11
    FutureLimit,            \* two hours
    Versions,               \* base versions of the headers that arrive
    TimeSteps,              \* their times, relative to the block before
    ClockStep,              \* how far the clock goes in a step
    MaxHeight, MaxClock     \* bounds of the exploration

VARIABLES
    branch,     \* the headers of the branch, oldest first
    now         \* GetAdjustedTime()

vars == <<branch, now>>

ASSUME RulesAssumption ==
    /\ Slot1 \in Algos /\ Slot3 \in Algos
    /\ MaxCountV1 \in Nat /\ MaxCountV2 \in Nat
    /\ PoWAveragingInterval \in Nat \ {0} /\ PowTargetSpacing \in Nat \ {0}
    /\ MedianTimeSpan \in Nat \ {0} /\ MajorityWindow \in Nat /\ MajorityReject \in Nat
    /\ Versions \subseteq Nat /\ TimeSteps \subseteq Int

--------------------------------------------------------------------------------
(* Targets.                                                                 *)

(* What GetCompact keeps of a target and SetCompact gives back: its three   *)
(* leading digits, or two when the third would set the sign.                *)
Compact(x) ==
    LET size == (NumBits(x) + ByteBits - 1) \div ByteBits
        cut(digits) == 2 ^ (ByteBits * Max({0, size - digits}))
        mantissa == IF size <= 3 THEN x * 2 ^ (ByteBits * (3 - size))
                    ELSE x \div cut(3)
        kept == IF mantissa >= 2 ^ (3 * ByteBits - 1) THEN 2 ELSE 3
    IN  (x \div cut(kept)) * cut(kept)

(* nPoWAveragingTargetTimespan().                                           *)
TargetTimespan == PoWAveragingInterval * PowTargetSpacing * NumAlgos

(* The block at which the walk over the blocks of algo ends, going back     *)
(* from the i-th: 0 when the branch is too short.                           *)
WalkBack(chain, i, algo) ==
    LET first[k \in 0..PoWAveragingInterval - 1] ==
            IF k = 0 THEN i
            ELSE GetLastBlockIndexForAlgo(chain, first[k - 1] - 1, algo)
    IN  first[PoWAveragingInterval - 1]

(* From there on, back over the blocks whose times are out of order. The    *)
(* slip stays with the first block.                                         *)
KeepFirst(chain, i, algo) ==
    IF GetLastBlockIndexForAlgo(chain, i - 1, algo) = 0 THEN 0 ELSE i
Unwarp(chain, i, algo) ==
    LET first[j \in 0..i] ==
            LET prev == GetLastBlockIndexForAlgo(chain, j - 1, algo)
            IN  CASE prev = 0 -> 0
                  [] prev # 0 /\ chain[prev].time > chain[j].time -> first[prev]
                  [] OTHER -> j
    IN  first[i]

(* The bounds of the timespan a retarget may use.                           *)
MinActualTimespan(height) ==
    (TargetTimespan * (100 - IF height < InitialPhase THEN 20 ELSE MaxAdjustUp))
        \div 100
MaxActualTimespan(height) ==
    (TargetTimespan * (100 + IF height < InitialPhase THEN 20 ELSE MaxAdjustDown))
        \div 100

(* The target in proportion to the time the blocks took, within the bounds. *)
Retarget(algo, old, timespan, height) ==
    LET actual == Min({MaxActualTimespan(height),
                       Max({MinActualTimespan(height), timespan})})
    IN  Compact(Min({PowLimit[algo], (old * actual) \div TargetTimespan}))

GetNextWorkRequired(chain, algo) ==
    LET last == Len(chain)
        prev == GetLastBlockIndexForAlgo(chain, last, algo)
        walked == WalkBack(chain, prev, algo)
        first == Unwarp(chain, walked, algo)
        changeOver == /\ algo = Slot3
                      /\ chain[last].time >= TimeArgon2dStart
                      /\ chain[first].time < TimeArgon2dStart
    IN  IF prev = 0 \/ walked = 0 \/ first = 0 \/ changeOver
        THEN Compact(PowLimit[algo])
        ELSE Retarget(algo, chain[prev].bits,
                      chain[prev].time - chain[first].time, last - 1)

--------------------------------------------------------------------------------
(* Times, versions and successive algorithms.                               *)

(* CBlockIndex::GetMedianTimePast: of the last n times, the one with index  *)
(* n / 2 when they are sorted.                                              *)
GetMedianTimePast(chain) ==
    LET n == Min({MedianTimeSpan, Len(chain)})
        last == Len(chain) - n + 1..Len(chain)
    IN  CHOOSE t \in {chain[i].time : i \in last} :
            /\ Cardinality({i \in last : chain[i].time < t}) <= n \div 2
            /\ Cardinality({i \in last : chain[i].time <= t}) > n \div 2

IsSuperMajority(minVersion, chain) ==
    LET oldest == Max({1, Len(chain) - MajorityWindow + 1})
    IN  Cardinality({i \in oldest..Len(chain) : chain[i].version >= minVersion})
            >= MajorityReject

(* The number of blocks of algo a new one would be the last of: nAlgoCount, *)
(* which starts at 1.                                                       *)
AlgoCount(chain, algo) ==
    1 + Len(chain) - Max({0} \cup {i \in 1..Len(chain) : chain[i].algo # algo})

MaxSeqCount(height) == IF height > Rule2Start THEN MaxCountV2 ELSE MaxCountV1

(* ContextualCheckBlockHeader, without the legacy rule: the main and the    *)
(* test network have no nLegacyBlocksBefore. The slip forgets version 4.    *)
TimeIsPlausible(chain, h) ==
    h.time > GetMedianTimePast(chain) /\ h.time <= now + FutureLimit

VersionAboveTwo(chain, h) ==
    h.version >= 2 /\ (h.version < 3 => ~IsSuperMajority(3, chain))
VersionIsCurrent(chain, h) ==
    /\ h.version >= 2
    /\ \A v \in {3, 4} : h.version < v => ~IsSuperMajority(v, chain)

ContextualCheckBlockHeader(chain, h) ==
    /\ h.bits = GetNextWorkRequired(chain, h.algo)
    /\ TimeIsPlausible(chain, h)
    /\ VersionIsCurrent(chain, h)

(* CheckProofOfWork: the range of the target.                               *)
CheckBlockHeader(h) == h.bits # 0 /\ h.bits <= PowLimit[h.algo]

HeaderIsAccepted(chain, h) ==
    /\ CheckBlockHeader(h)
    /\ AlgoCount(chain, h.algo) <= MaxSeqCount(Len(chain))
    /\ ContextualCheckBlockHeader(chain, h)

(* AddToBlockIndex: the new entry and its nChainWork.                       *)
AddToBlockIndex(chain, h) ==
    LET entry(work) == [algo |-> h.algo, time |-> h.time, version |-> h.version,
                        bits |-> h.bits, work |-> work]
        longer == Append(chain, entry(0))
    IN  Append(chain, entry(chain[Len(chain)].work + GetBlockProof(longer, Len(longer))))

--------------------------------------------------------------------------------
(* CreateNewBlock fills in the header; UpdateTime sets its time (the slip:  *)
(* from the clock alone).                                                   *)
TimeOfClock(chain) == now
UpdateTime(chain) == Max({GetMedianTimePast(chain) + 1, now})

CreateNewBlock(chain, algo) ==
    [algo |-> algo, time |-> UpdateTime(chain), version |-> 4,
     bits |-> GetNextWorkRequired(chain, algo)]

(* TestBlockValidity of a template: the part about the header.  The target  *)
(* is not checked on its own (fCheckPOW is false).                          *)
TestBlockValidity(chain, h) == ContextualCheckBlockHeader(chain, h)

--------------------------------------------------------------------------------
Genesis == [algo |-> Slot1, time |-> 0, version |-> 1,
            bits |-> Compact(PowLimit[Slot1]), work |-> 0]

Init ==
    /\ branch = <<[Genesis EXCEPT !.work = GetBlockProof(<<Genesis>>, 1)]>>
    /\ now = 0

(* A header for the end of the branch arrives: its target may be the        *)
(* required one or the limit.                                               *)
AcceptBlockHeader ==
    /\ Len(branch) <= MaxHeight
    /\ \E algo \in Algos, version \in Versions, step \in TimeSteps,
          bits \in {GetNextWorkRequired(branch, a) : a \in Algos}
                   \cup {Compact(PowLimit[a]) : a \in Algos} :
         LET h == [algo |-> algo, version |-> version, bits |-> bits,
                   time |-> branch[Len(branch)].time + step]
         IN  /\ HeaderIsAccepted(branch, h)
             /\ branch' = AddToBlockIndex(branch, h)
    /\ UNCHANGED now

(* The clock goes on, up to the bound.                                      *)
Tick ==
    /\ now' = Min({MaxClock, now + ClockStep})
    /\ UNCHANGED branch

Next == AcceptBlockHeader \/ Tick

Spec == Init /\ [][Next]_vars

--------------------------------------------------------------------------------
(* What a header of the branch consists of.                                 *)
TypeOK ==
    /\ now \in 0..MaxClock
    /\ branch \in Seq([algo : Algos, time : Int, version : Nat,
                       bits : 1..Max(Range(PowLimit)), work : Nat])

(* Of the other algorithms' blocks the target of an algorithm depends only  *)
(* on how many there are and, for Slot3 at the change of its algorithm, on  *)
(* the time of the last: the walk of GetNextWorkRequired over the whole     *)
(* branch finds the window that a direct look at the algorithm's own blocks *)
(* does, whose oldest block is not younger than the window's first.         *)
TargetsAreIndependent ==
    \A algo \in Algos :
        LET own == SelectSeq(branch, LAMBDA h : h.algo = algo)
            n == Len(own)
            starts == {i \in 2..n - PoWAveragingInterval + 1 :
                            own[i - 1].time <= own[i].time}
            first == own[Max(starts)].time
            changeOver == /\ algo = Slot3 /\ first < TimeArgon2dStart
                          /\ branch[Len(branch)].time >= TimeArgon2dStart
        IN  GetNextWorkRequired(branch, algo) =
                IF starts = {} \/ changeOver THEN Compact(PowLimit[algo])
                ELSE Retarget(algo, own[n].bits, own[n].time - first, Len(branch) - 1)

(* Once enough blocks of a version have made the older ones obsolete, no    *)
(* older one ever enters the branch again, though the window slides.        *)
UpgradesAreFinal ==
    \A i \in 1..Len(branch), v \in {3, 4} :
        IsSuperMajority(v, SubSeq(branch, 1, i)) =>
            \A j \in i + 1..Len(branch) : branch[j].version >= v

(* Every block adds to the work of its branch, in all three ways of         *)
(* computing it and where one gives way to the next: a branch that goes on  *)
(* from the end of another one is the better of the two.                    *)
WorkGrows ==
    /\ TypeOK
    /\ \A i \in 2..Len(branch) : branch[i].work > branch[i - 1].work

(* The root that the geometric mean takes is exact: CBigNum::nthRoot ends   *)
(* within its iterations, and on the largest number whose power fits, for   *)
(* the algorithms of the instance and for five, of the product, of its      *)
(* square and of the number before that.                                    *)
RootIsExact ==
    LET mix == MixedWork(branch, Len(branch))
    IN  \A n \in {NumAlgos, 5}, x \in {mix, mix ^ 2 - 1, mix ^ 2} :
            LET root == NthRoot(x, n)
            IN  root ^ n <= x /\ x < (root + 1) ^ n

(* A template that CreateNewBlock makes is valid on the branch it is made   *)
(* for, and the block is accepted when it comes back, as long as the        *)
(* algorithm is not at its limit and the median time leaves room below the  *)
(* limit on future times. (TestBlockValidity does not look at the limit on  *)
(* successive blocks: at that limit the template is valid and the block is  *)
(* refused.)                                                                *)
TemplatesAreMinable ==
    \A algo \in Algos :
        LET h == CreateNewBlock(branch, algo)
        IN  GetMedianTimePast(branch) < now + FutureLimit =>
                /\ TestBlockValidity(branch, h)
                /\ AlgoCount(branch, algo) <= MaxSeqCount(Len(branch)) =>
                        HeaderIsAccepted(branch, h)

================================================================================
