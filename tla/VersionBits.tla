------------------------------ MODULE VersionBits ------------------------------
(* The deployment of a soft fork by signals in block versions               *)
(* (versionbits.cpp), on the branches of HeaderRules. A position of the     *)
(* branch stands for the block before the one whose state is asked for;     *)
(* position 0 is the null pointer.                                          *)
EXTENDS HeaderRules

CONSTANTS
    Period,         \* nMinerConfirmationWindow
    Threshold,      \* nRuleChangeActivationThreshold
    TimeStart,      \* nStartTime of the deployment
    TimeTimeout,    \* nTimeout
    Signalling      \* the versions in which its bit is set

ASSUME VersionBitsAssumption ==
    /\ Period \in Nat \ {0} /\ Threshold \in 1..Period
    /\ TimeStart \in Int /\ TimeTimeout \in Int /\ TimeStart <= TimeTimeout

MedianTime(chain, i) == GetMedianTimePast(SubSeq(chain, 1, i))

(* The last block of the period before the one of block i + 1.              *)
PeriodParent(i) == i - (i % Period)

(* VersionBitsConditionChecker::Condition, counted over a period. The slip  *)
(* counts one block more.                                                   *)
CountTooMany(chain, i) ==
    Cardinality({j \in i - Period..i : chain[j].version \in Signalling})
Count(chain, i) ==
    Cardinality({j \in i - Period + 1..i : chain[j].version \in Signalling})

(* The switch of GetStateFor.                                               *)
StateNext(chain, state, i) ==
    LET median == MedianTime(chain, i)
    IN  CASE state \in {"DEFINED", "STARTED"} /\ median >= TimeTimeout -> "FAILED"
          [] state = "DEFINED" /\ TimeStart <= median /\ median < TimeTimeout -> "STARTED"
          [] state = "STARTED" /\ median < TimeTimeout /\ Count(chain, i) >= Threshold
                -> "LOCKED_IN"
          [] state = "LOCKED_IN" -> "ACTIVE"
          [] OTHER -> state

(* The walk back ends at a position whose state is known: it is cached, is  *)
(* the beginning, or lies before the start. The slip takes the start itself *)
(* for before.                                                              *)
IsKnownAtStart(chain, cache, i) ==
    i \in DOMAIN cache \/ i = 0 \/ (i > 0 /\ MedianTime(chain, i) <= TimeStart)
IsKnown(chain, cache, i) ==
    i \in DOMAIN cache \/ i = 0 \/ (i > 0 /\ MedianTime(chain, i) < TimeStart)

(* GetStateFor: what it adds to the cache, on the way forward from there.   *)
Computed(chain, cache, i) ==
    LET ends == {j \in 0..PeriodParent(i) : j % Period = 0}
        known == Max({j \in ends : IsKnown(chain, cache, j)})
        state[j \in {e \in ends : e >= known}] ==
            IF j > known THEN StateNext(chain, state[j - Period], j)
            ELSE IF j \in DOMAIN cache THEN cache[j] ELSE "DEFINED"
    IN  [j \in DOMAIN state \cup DOMAIN cache |->
            IF j \in DOMAIN state THEN state[j] ELSE cache[j]]

GetStateFor(chain, cache, i) == Computed(chain, cache, i)[PeriodParent(i)]

--------------------------------------------------------------------------------
(* The state of the periods one after the other, from the beginning.        *)
PeriodStates(chain, n) ==
    LET state[k \in 0..n] ==
            IF k = 0 THEN "DEFINED" ELSE StateNext(chain, state[k - 1], k * Period)
    IN  state

StateByPeriods(chain, i) == PeriodStates(chain, i \div Period)[i \div Period]

(* What the cache holds, from questions about any earlier block, and the    *)
(* short cut at the start time never change an answer: it is the one that   *)
(* following the periods from the genesis block gives.                      *)
CacheIsTransparent ==
    LET n == Len(branch)
        state == StateByPeriods(branch, n)
    IN  \A i \in 0..n : GetStateFor(branch, Computed(branch, <<>>, i), n) = state

(* A deployment is active only after a period with enough signals whose end *)
(* was before the time-out, and a whole period of notice after it.          *)
ActivationIsEarned ==
    GetStateFor(branch, <<>>, Len(branch)) = "ACTIVE" =>
        \E e \in 1..Len(branch) :
            /\ e % Period = 0 /\ e + Period <= Len(branch)
            /\ Cardinality({j \in e - Period + 1..e :
                              branch[j].version \in Signalling}) >= Threshold
            /\ MedianTime(branch, e) < TimeTimeout
            /\ \A i \in e..e + Period - 1 :
                 GetStateFor(branch, <<>>, i) = "LOCKED_IN"

================================================================================
