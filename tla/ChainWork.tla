------------------------------- MODULE ChainWork -------------------------------
(* The work of a block, as chain.cpp computes it for a chain mined with     *)
(* several algorithms: the work its own target stands for, mixed with that  *)
(* of the latest block of every other algorithm, which fades with its       *)
(* distance. Three ways of mixing follow each other along the chain: a mean *)
(* whose missing terms are the proof-of-work limit, a mean without missing  *)
(* terms, and a geometric mean taken with CBigNum::nthRoot.                 *)
(*                                                                          *)
(* A branch is the sequence of its headers, the genesis block first: the    *)
(* block at height h is branch[h + 1], and index 0 stands for no block.     *)
(* No operator of this module looks at any other block.                     *)
EXTENDS Integers, Sequences, FiniteSets, FiniteSetsExt, Folds

CONSTANTS
    Algos,              \* the algorithms, NUM_ALGOS in all
    PowLimit,           \* powLimit, a target for each algorithm
    UintBits,           \* width of arith_uint256: 256 in the code
    DecaySpan,          \* distance over which work fades, V1 and V2: 32
    DecaySpanV3,        \* ... in the geometric mean: 100
    DecayV2Start,       \* nBlockAlgoNormalisedWorkDecayV2Start
    GeometricStart,     \* nGeometricAverageWork_Start
    RootStartBits,      \* bits of the first approximation of a root: 8
    RootSteps           \* iterations of nthRoot: 20

NumAlgos == Cardinality(Algos)

(* A block at the limit is still worth a share for every algorithm: the     *)
(* limits of the main and the test network leave 16 bits of 256.            *)
ASSUME WorkAssumption ==
    /\ NumAlgos > 1
    /\ PowLimit \in [Algos -> Nat \ {0}]
    /\ \A a \in Algos : 2 ^ UintBits \div (PowLimit[a] + 1) >= NumAlgos
    /\ DecaySpan \in Nat \ {0} /\ DecaySpanV3 \in Nat \ {0}

(* GetLastBlockIndexForAlgo: from the i-th block of the branch downwards.   *)
GetLastBlockIndexForAlgo(branch, i, algo) ==
    LET same == {j \in 1..i : branch[j].algo = algo}
    IN  IF same = {} THEN 0 ELSE Max(same)

(* GetBlockProofBase: 2^256 / (target + 1), computed without 2^256.         *)
GetBlockProofBase(bits) ==
    IF bits = 0 THEN 0 ELSE (2 ^ UintBits - 1 - bits) \div (bits + 1) + 1

(* The work of the i-th block after distance steps back.                    *)
Decayed(branch, i, distance, span) ==
    (GetBlockProofBase(branch[i].bits) * (span - distance)) \div span

GetPrevWorkForAlgoWithDecayV1(branch, i, algo) ==
    LET j == GetLastBlockIndexForAlgo(branch, i - 1, algo)
        distance == i - 1 - j
    IN  IF j = 0 \/ distance > DecaySpan THEN PowLimit[algo]
        ELSE Max({PowLimit[algo], Decayed(branch, j, distance, DecaySpan)})

(* V2 and V3, which differ in the span.                                     *)
GetPrevWorkForAlgoWithDecay(branch, i, algo, span) ==
    LET j == GetLastBlockIndexForAlgo(branch, i - 1, algo)
        distance == i - 1 - j
    IN  IF j = 0 \/ distance > span THEN 0
        ELSE Decayed(branch, j, distance, span)

--------------------------------------------------------------------------------
(* CBigNum::nthRoot.                                                        *)

NumBits(x) == CHOOSE b \in 0..31 : x < 2 ^ b /\ (b = 0 \/ x >= 2 ^ (b - 1))

(* The bits of the root of x, from the i-th down, as long as the power      *)
(* stays within x.                                                          *)
RootByBits(x, n, bits) ==
    LET cur[i \in 0..bits] ==
            IF i = bits THEN 0
            ELSE LET next == cur[i + 1] + 2 ^ i
                 IN  IF next ^ n <= x THEN next ELSE cur[i + 1]
    IN  cur[0]

(* Division of CBigNum rounds towards zero.                                 *)
Quotient(a, b) == IF a >= 0 THEN a \div b ELSE -((-a) \div b)

(* The state of the loop of nthRoot: the approximation, the direction of    *)
(* the last step by one (nTerminate), and whether the loop has returned.    *)
(* The slip returns the approximation it is at, whichever way it came.      *)
RootStepTooHigh(x, n, s) ==
    LET delta == x \div s.cur ^ (n - 1) - s.cur
    IN  CASE s.done \/ delta = 0 -> [s EXCEPT !.done = TRUE]
          [] s.way # 0 -> [s EXCEPT !.done = TRUE]
          [] s.way = 0 /\ delta \in -n..-1 -> [s EXCEPT !.cur = @ - 1, !.way = -1]
          [] s.way = 0 /\ delta \in 1..n -> [s EXCEPT !.cur = @ + 1, !.way = 1]
          [] OTHER -> [s EXCEPT !.cur = @ + Quotient(delta, n), !.way = 0]
RootStep(x, n, s) ==
    LET delta == x \div s.cur ^ (n - 1) - s.cur
    IN  CASE s.done \/ delta = 0 -> [s EXCEPT !.done = TRUE]
          [] delta < 0 /\ s.way = 1 -> [s EXCEPT !.cur = @ - 1, !.done = TRUE]
          [] delta > 0 /\ s.way = -1 -> [s EXCEPT !.done = TRUE]
          [] delta < 0 /\ s.way # 1 /\ -delta <= n ->
                [s EXCEPT !.cur = @ - 1, !.way = -1]
          [] delta > 0 /\ s.way # -1 /\ delta <= n ->
                [s EXCEPT !.cur = @ + 1, !.way = 1]
          [] OTHER -> [s EXCEPT !.cur = @ + Quotient(delta, n), !.way = 0]

NthRoot(x, n) ==
    LET rootBits == (NumBits(x) + n - 1) \div n
        startBits == Min({RootStartBits, rootBits})
        upper == x \div 2 ^ ((rootBits - startBits) * n)
        start == RootByBits(upper, n, startBits)
        step[i \in 0..RootSteps] ==
            IF i = 0
            THEN [cur |-> start * 2 ^ (rootBits - startBits),
                  way |-> 0, done |-> FALSE]
            ELSE RootStep(x, n, step[i - 1])
    IN  IF x = 0 THEN 0
        ELSE IF rootBits = startBits THEN start
        ELSE step[RootSteps].cur

--------------------------------------------------------------------------------
(* GetBlockProof.                                                           *)

Others(branch, i) == Algos \ {branch[i].algo}

(* The product of which GetGeometricMeanPrevWork takes the root: an         *)
(* algorithm whose work has faded away is left out (the slip keeps it).     *)
MixKeepingZero(branch, i) ==
    FoldSet(LAMBDA a, p : p * GetPrevWorkForAlgoWithDecay(branch, i, a, DecaySpanV3),
            GetBlockProofBase(branch[i].bits), Others(branch, i))
MixedWork(branch, i) ==
    FoldSet(LAMBDA a, p :
                LET alt == GetPrevWorkForAlgoWithDecay(branch, i, a, DecaySpanV3)
                IN  IF alt # 0 THEN p * alt ELSE p,
            GetBlockProofBase(branch[i].bits), Others(branch, i))

GetGeometricMeanPrevWork(branch, i) ==
    NthRoot(MixedWork(branch, i), NumAlgos) * 2 ^ 8

GetBlockProof(branch, i) ==
    LET height == i - 1
        prevWork(a) == IF height >= DecayV2Start
                       THEN GetPrevWorkForAlgoWithDecay(branch, i, a, DecaySpan)
                       ELSE GetPrevWorkForAlgoWithDecayV1(branch, i, a)
    IN  IF height > GeometricStart THEN GetGeometricMeanPrevWork(branch, i)
        ELSE (GetBlockProofBase(branch[i].bits)
                + MapThenSumSet(prevWork, Others(branch, i))) \div NumAlgos

================================================================================
