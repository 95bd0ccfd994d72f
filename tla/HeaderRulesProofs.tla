-------------------------- MODULE HeaderRulesProofs --------------------------
(***************************************************************************)
(* What the rules on times and versions give, for every branch and all     *)
(* parameters: a header later than the median of the times before it never *)
(* lowers the median, so the short cut and the cache of the version bits   *)
(* are sound and a deployment becomes active only when it was earned; and  *)
(* a version that has its majority keeps it while the window slides. The   *)
(* states of the periods are a recursive function: it is shown to exist,   *)
(* and what it computes is proved by induction on the periods.             *)
(***************************************************************************)
EXTENDS VersionBits, FiniteSetTheorems, WellFoundedInduction, TLAPS

\* Every set of naturals with a member has a least one. Together with the lemma that
\* follows this is the induction the periods of a deployment need.
LEMMA LeastNatural ==
    ASSUME NEW T, T \subseteq Nat, T # {}
    PROVE  \E n \in T : \A m \in T : n <= m
<1> DEFINE R == OpToRel(<, Nat)
<1>1. IsWellFoundedOn(R, Nat)
  BY NatLessThanWellFounded, Zenon DEF OpToRel
<1> HIDE DEF R
<1>2. PICK n \in T : \A m \in T : ~ (<<m, n>> \in R)
  BY <1>1, WFMin, Zenon
<1>3. \A m \in Nat : m < n => <<m, n>> \in R
  BY <1>2, Zenon DEF R, OpToRel
<1>4. \A m \in T : ~ (m < n)
  BY <1>2, <1>3, Zenon
<1> QED
  BY <1>2, <1>4

\* Induction up to n.
LEMMA CountingUp ==
    ASSUME NEW n \in Nat, NEW S, 0 \in S, \A i \in 1..n : i - 1 \in S => i \in S
    PROVE  \A i \in 0..n : i \in S
<1> DEFINE T == {i \in 0..n : i \notin S}
<1> SUFFICES ASSUME T # {} PROVE FALSE
  OBVIOUS
<1>1. T \subseteq Nat
  OBVIOUS
<1> HIDE DEF T
<1>2. PICK i \in T : \A m \in T : i <= m
  BY <1>1, LeastNatural, Zenon
<1>3. i \in 0..n /\ i \notin S
  BY <1>2, Zenon DEF T
<1>4. i \in 1..n /\ i - 1 \in 0..n /\ ~ (i <= i - 1)
  BY <1>3
<1>5. i - 1 \in S
  BY <1>2, <1>4, Zenon DEF T
<1> QED
  BY <1>3, <1>4, <1>5, Zenon

-----------------------------------------------------------------------------
(* Median times.                                                            *)

\* A finite set of blocks has a latest one.
LEMMA LatestExists ==
    ASSUME NEW S, IsFiniteSet(S), S # {}, NEW f \in [S -> Int]
    PROVE  \E g \in S : \A x \in S : f[x] <= f[g]
<1> DEFINE Tops(T) == {g \in T : \A x \in T : f[x] <= f[g]}
           Without == {T \in SUBSET S : T # {} /\ Tops(T) = {}}
<1>1. SUFFICES ASSUME Without # {} PROVE FALSE
  <2>1. S \notin Without
    BY <1>1, Zenon
  <2>2. Tops(S) # {}
    BY <2>1, Zenon
  <2> QED
    BY <2>2, Zenon
<1>2. PICK T \in Without : \A U \in Without : <<U, T>> \notin StrictSubsetOrdering(S)
  <2>1. IsWellFoundedOn(StrictSubsetOrdering(S), SUBSET S)
    BY Zenon, FS_StrictSubsetOrderingWellFounded, FS_FiniteSubsetsOfFinite
  <2>2. Without \subseteq SUBSET S
    BY Zenon
  <2> HIDE DEF Without
  <2> QED
    BY <1>1, <2>1, <2>2, WFMin, Zenon
<1>3. PICK x \in T : TRUE
  BY Zenon, <1>2
<1>4. T \in SUBSET S /\ x \in S
  BY Zenon, <1>2, <1>3
<1>5. T \ {x} \notin Without
  <2>1. T \ {x} \in SUBSET S /\ T \ {x} \subseteq T /\ T \ {x} # T
    BY Zenon, <1>3, <1>4
  <2>2. <<T \ {x}, T>> \in StrictSubsetOrdering(S)
    BY Zenon, <1>4, <2>1 DEF StrictSubsetOrdering
  <2> QED
    BY <1>2, <2>2, Zenon
<1>6. CASE T \ {x} = {}
  BY <1>2, <1>3, <1>4, <1>6
<1>7. CASE T \ {x} # {}
  <2>1. PICK g \in T \ {x} : \A y \in T \ {x} : f[y] <= f[g]
    BY Zenon, <1>4, <1>5, <1>7
  <2>2. x \in S /\ g \in S /\ \A y \in T : y \in S
    BY <2>1, <1>4, Zenon
  <2>3. x \in Tops(T) \/ g \in Tops(T)
    BY <2>1, <2>2, <1>3
  <2> QED
    BY Zenon, <2>3, <1>2
<1> QED
  BY <1>6, <1>7, Zenon

\* ... and an earliest one.
LEMMA EarliestExists ==
    ASSUME NEW S, IsFiniteSet(S), S # {}, NEW f \in [S -> Int]
    PROVE  \E g \in S : \A x \in S : f[g] <= f[x]
<1> DEFINE n == [x \in S |-> 0 - f[x]]
<1>1. n \in [S -> Int] /\ \A x \in S : n[x] = 0 - f[x]
  OBVIOUS
<1> HIDE DEF n
<1>2. PICK g \in S : \A x \in S : n[x] <= n[g]
  BY <1>1, LatestExists, Zenon
<1>3. \A x \in S : f[g] <= f[x]
  BY <1>1, <1>2
<1> QED
  BY <1>2, <1>3, Zenon

\* Block g of W stands at index h when the blocks are sorted by their times f: at most h
\* are earlier, and more than h are not later.
IsMiddle(W, f, h, g) ==
    /\ Cardinality({k \in W : f[k] < f[g]}) <= h
    /\ Cardinality({k \in W : f[k] <= f[g]}) > h

\* There is such a block for every index.
LEMMA MiddleExists ==
    ASSUME NEW W, IsFiniteSet(W), NEW f \in [W -> Int],
           NEW h \in Nat, h < Cardinality(W)
    PROVE  \E g \in W : IsMiddle(W, f, h, g)
<1> DEFINE UpTo(g) == {k \in W : f[k] <= f[g]}
           G == {g \in W : Cardinality(UpTo(g)) > h}
<1>1. W # {}
  BY FS_EmptySet
<1>2. PICK m \in W : \A x \in W : f[x] <= f[m]
  BY <1>1, LatestExists, Zenon
<1>3. UpTo(m) = W
  BY <1>2, Zenon
<1>4. m \in G
  BY <1>3, Cardinality(W) > h
<1>5. IsFiniteSet(G) /\ G # {} /\ G \subseteq W
  BY <1>4, FS_Subset, Zenon
<1> DEFINE e == [g \in G |-> f[g]]
<1>6. e \in [G -> Int] /\ \A g \in G : e[g] = f[g]
  BY <1>5
<1> HIDE DEF e, G
<1>7. PICK g \in G : \A x \in G : e[g] <= e[x]
  BY <1>5, <1>6, EarliestExists, Zenon
<1>8. g \in W /\ Cardinality(UpTo(g)) > h
  BY <1>7, Zenon DEF G
<1> DEFINE B == {k \in W : f[k] < f[g]}
<1>9. Cardinality(B) <= h
  <2>1. CASE B = {}
    BY <2>1, FS_EmptySet
  <2>2. CASE B # {}
    <3>1. IsFiniteSet(B) /\ B \subseteq W
      BY FS_Subset, Zenon
    <3> DEFINE b == [k \in B |-> f[k]]
    <3>2. b \in [B -> Int] /\ \A k \in B : b[k] = f[k]
      BY <3>1
    <3> HIDE DEF b, B
    <3>3. PICK u \in B : \A k \in B : b[k] <= b[u]
      BY <2>2, <3>1, <3>2, LatestExists, Zenon
    <3>4. u \in W /\ f[u] < f[g]
      BY <3>3, Zenon DEF B
    <3>5. UpTo(u) = B
      <4>1. \A k \in B : k \in W /\ f[k] <= f[u]
        BY <3>1, <3>2, <3>3, Zenon
      <4>2. \A k \in W : f[k] <= f[u] => f[k] < f[g]
        BY <3>4, <1>8
      <4>3. \A k \in W : f[k] <= f[u] => k \in B
        BY <4>2, Zenon DEF B
      <4> QED
        BY <4>1, <4>3, Zenon
    <3>6. u \notin G
      <4>1. ~ (f[g] <= f[u])
        BY <3>4, <1>8
      <4> QED
        BY <4>1, <1>6, <1>7, Zenon
    <3>7. ~ (Cardinality(B) > h)
      BY <3>4, <3>5, <3>6, Zenon DEF G
    <3>8. Cardinality(B) \in Nat
      BY <3>1, FS_CardinalityType, Zenon
    <3> QED
      BY <3>7, <3>8
  <2> QED
    BY <2>1, <2>2
<1> QED
  BY <1>8, <1>9 DEF IsMiddle

\* A chain is a sequence of headers with times and versions.
IsChain(chain) ==
    /\ \E S : chain \in Seq(S)
    /\ \A i \in 1..Len(chain) : chain[i].time \in Int /\ chain[i].version \in Nat

\* The blocks whose times the median after the i-th block is taken of.
SpanOf(i) == IF MedianTimeSpan <= i THEN MedianTimeSpan ELSE i
LastOf(i) == i - SpanOf(i) + 1..i
Earlier(chain, i, t) == {j \in LastOf(i) : chain[j].time < t}
NotLater(chain, i, t) == {j \in LastOf(i) : chain[j].time <= t}

\* t is the median after the i-th block.
IsMedian(chain, i, t) ==
    /\ t \in Int
    /\ Cardinality(Earlier(chain, i, t)) <= SpanOf(i) \div 2
    /\ Cardinality(NotLater(chain, i, t)) > SpanOf(i) \div 2

\* What the smaller of two numbers is.
LEMMA MinOfTwo ==
    ASSUME NEW a \in Int, NEW b \in Int
    PROVE  Min({a, b}) = IF a <= b THEN a ELSE b
<1>1. \E x \in {a, b} : \A y \in {a, b} : x <= y
  OBVIOUS
<1>2. Min({a, b}) \in {a, b} /\ \A y \in {a, b} : Min({a, b}) <= y
  BY <1>1, Zenon DEF Min
<1> QED
  BY <1>2

\* ... and the larger.
LEMMA MaxOfTwo ==
    ASSUME NEW a \in Int, NEW b \in Int
    PROVE  Max({a, b}) = IF a <= b THEN b ELSE a
<1>1. \E x \in {a, b} : \A y \in {a, b} : x >= y
  OBVIOUS
<1>2. Max({a, b}) \in {a, b} /\ \A y \in {a, b} : Max({a, b}) >= y
  BY <1>1, Zenon DEF Max
<1> QED
  BY <1>2

\* The blocks of the window: at least one, all of them of the chain.
LEMMA WindowOf ==
    ASSUME NEW i \in Nat, i > 0
    PROVE  /\ SpanOf(i) \in Nat /\ SpanOf(i) > 0 /\ SpanOf(i) <= i
           /\ LastOf(i) \subseteq 1..i
           /\ IsFiniteSet(LastOf(i)) /\ Cardinality(LastOf(i)) = SpanOf(i)
           /\ SpanOf(i) \div 2 \in Nat /\ SpanOf(i) \div 2 < SpanOf(i)
<1>1. SpanOf(i) \in Nat /\ SpanOf(i) > 0 /\ SpanOf(i) <= i
  BY RulesAssumption DEF SpanOf
<1>2. LastOf(i) \subseteq 1..i
  BY <1>1 DEF LastOf
<1>3. IsFiniteSet(LastOf(i)) /\ Cardinality(LastOf(i)) = SpanOf(i)
  <2> DEFINE a == i - SpanOf(i) + 1
  <2>1. a \in Int /\ i \in Int /\ ~ (a > i) /\ i - a + 1 = SpanOf(i)
    BY <1>1
  <2> HIDE DEF a
  <2>2. IsFiniteSet(a..i) /\ Cardinality(a..i) = i - a + 1
    BY <2>1, FS_Interval, Zenon
  <2> QED
    BY <2>1, <2>2, Zenon DEF LastOf, a
<1>4. SpanOf(i) \div 2 \in Nat /\ SpanOf(i) \div 2 < SpanOf(i)
  BY <1>1
<1> QED
  BY <1>1, <1>2, <1>3, <1>4

\* GetMedianTimePast returns the median of the last times.
LEMMA MedianIsMedian ==
    ASSUME NEW chain, IsChain(chain), Len(chain) > 0
    PROVE  IsMedian(chain, Len(chain), GetMedianTimePast(chain))
<1> DEFINE l == Len(chain)
           n == SpanOf(l)
           W == LastOf(l)
           f == [j \in W |-> chain[j].time]
<1>1. l \in Nat /\ l > 0
  BY DEF IsChain
<1>2. /\ n \in Nat /\ n \div 2 \in Nat /\ n \div 2 < n
      /\ W \subseteq 1..l /\ IsFiniteSet(W) /\ Cardinality(W) = n
  BY <1>1, WindowOf, Zenon
<1>3. Min({MedianTimeSpan, l}) = n
  BY <1>1, MinOfTwo, RulesAssumption DEF SpanOf
<1>4. f \in [W -> Int] /\ \A j \in W : f[j] = chain[j].time
  BY <1>2 DEF IsChain
<1> DEFINE Fits(t) == /\ Cardinality({j \in W : chain[j].time < t}) <= n \div 2
                      /\ Cardinality({j \in W : chain[j].time <= t}) > n \div 2
           times == {chain[j].time : j \in W}
<1>5. GetMedianTimePast(chain) = CHOOSE t \in times : Fits(t)
  BY <1>3, Zenon DEF GetMedianTimePast, LastOf
<1>6. \E t \in times : Fits(t)
  <2> HIDE DEF f, W, n
  <2>1. PICK g \in W : /\ Cardinality({k \in W : f[k] < f[g]}) <= n \div 2
                       /\ Cardinality({k \in W : f[k] <= f[g]}) > n \div 2
    <3> DEFINE h == n \div 2
    <3>1. h \in Nat /\ h < Cardinality(W) /\ IsFiniteSet(W) /\ f \in [W -> Int]
      BY <1>2, <1>4
    <3> HIDE DEF h
    <3>2. \E g \in W : IsMiddle(W, f, h, g)
      BY <3>1, MiddleExists, Zenon
    <3> QED
      BY <3>2, Zenon DEF h, IsMiddle
  <2>2. /\ {k \in W : f[k] < f[g]} = {k \in W : chain[k].time < f[g]}
        /\ {k \in W : f[k] <= f[g]} = {k \in W : chain[k].time <= f[g]}
    BY <1>4, Zenon
  <2>3. Fits(f[g]) /\ f[g] \in times
    BY <2>1, <2>2, <1>4, Zenon
  <2> QED
    BY <2>3, Zenon
<1> DEFINE m == GetMedianTimePast(chain)
<1>7. m \in times /\ Fits(m)
  <2> HIDE DEF times, Fits, m
  <2> QED
    BY <1>5, <1>6, Zenon DEF m
<1>8. m \in Int
  BY <1>7, <1>4, Zenon
<1> QED
  BY <1>7, <1>8, Zenon DEF IsMedian, Earlier, NotLater

\* What the beginning of a chain is.
LEMMA PrefixOf ==
    ASSUME NEW chain, IsChain(chain), NEW i \in 0..Len(chain)
    PROVE  /\ IsChain(SubSeq(chain, 1, i)) /\ Len(SubSeq(chain, 1, i)) = i
           /\ \A j \in 1..i : SubSeq(chain, 1, i)[j] = chain[j]
<1>1. PICK S : chain \in Seq(S)
  BY DEF IsChain
<1>2. SubSeq(chain, 1, i) \in Seq(S) /\ Len(SubSeq(chain, 1, i)) = i
      /\ \A j \in 1..i : SubSeq(chain, 1, i)[j] = chain[j]
  BY <1>1
<1>3. \A j \in 1..i : j \in 1..Len(chain)
  BY <1>1
<1>4. \A j \in 1..i : /\ SubSeq(chain, 1, i)[j].time \in Int
                       /\ SubSeq(chain, 1, i)[j].version \in Nat
  BY <1>2, <1>3, Zenon DEF IsChain
<1> QED
  BY <1>2, <1>4, Zenon DEF IsChain

\* The median after the i-th block is one of the chain.
LEMMA MedianInChain ==
    ASSUME NEW chain, IsChain(chain), NEW i \in 1..Len(chain)
    PROVE  IsMedian(chain, i, MedianTime(chain, i))
<1> DEFINE s == SubSeq(chain, 1, i)
           t == MedianTime(chain, i)
<1>0. Len(chain) \in Nat /\ i \in 0..Len(chain) /\ i \in Nat /\ i > 0
  BY DEF IsChain
<1>1. IsChain(s) /\ Len(s) = i /\ \A j \in 1..i : s[j] = chain[j]
  BY <1>0, PrefixOf, Zenon
<1>2. IsMedian(s, i, t)
  <2> HIDE DEF s
  <2>1. Len(s) > 0
    BY <1>0, <1>1, Zenon
  <2>2. IsMedian(s, Len(s), GetMedianTimePast(s))
    BY <1>1, <2>1, MedianIsMedian, Zenon
  <2> QED
    BY <1>1, <2>2, Zenon DEF MedianTime, s
<1>3. \A j \in LastOf(i) : s[j] = chain[j]
  BY <1>0, <1>1, WindowOf, Zenon
<1>4. Earlier(s, i, t) = Earlier(chain, i, t) /\ NotLater(s, i, t) = NotLater(chain, i, t)
  <2> HIDE DEF s, t
  <2> QED
    BY <1>3, Zenon DEF Earlier, NotLater
<1> QED
  BY <1>2, <1>4, Zenon DEF IsMedian

\* Every block is later than the median of the blocks before it.
IsTimely(chain) ==
    \A i \in 1..Len(chain) - 1 : chain[i + 1].time > MedianTime(chain, i)

\* A block later than the median does not lower it: of the times below the old median no
\* more are in the new window than were in the old one.
LEMMA MedianStep ==
    ASSUME NEW chain, IsChain(chain), IsTimely(chain), NEW i \in 1..Len(chain) - 1
    PROVE  MedianTime(chain, i) <= MedianTime(chain, i + 1)
<1> DEFINE a == MedianTime(chain, i)
           b == MedianTime(chain, i + 1)
<1>1. Len(chain) \in Nat /\ i \in 1..Len(chain) /\ i + 1 \in 1..Len(chain)
      /\ i \in Nat /\ i > 0 /\ i + 1 \in Nat /\ i + 1 > 0
  BY DEF IsChain
<1>2. IsMedian(chain, i, a) /\ IsMedian(chain, i + 1, b) /\ chain[i + 1].time > a
  BY <1>1, MedianInChain, Zenon DEF IsTimely
<1> HIDE DEF a, b
<1>3. SUFFICES ASSUME b < a PROVE FALSE
  BY <1>2 DEF IsMedian, a, b
<1>4. a \in Int /\ b \in Int /\ chain[i + 1].time \in Int
      /\ \A j \in 1..Len(chain) : chain[j].time \in Int
  BY <1>1, <1>2, Zenon DEF IsMedian, IsChain
<1>5. SpanOf(i) <= SpanOf(i + 1) /\ SpanOf(i) \in Nat /\ SpanOf(i + 1) \in Nat
      /\ SpanOf(i + 1) <= SpanOf(i) + 1
  BY <1>1, RulesAssumption DEF SpanOf
<1>6. \A j \in LastOf(i + 1) : j = i + 1 \/ j \in LastOf(i)
  BY <1>1, <1>5 DEF LastOf
<1>7. LastOf(i + 1) \subseteq 1..Len(chain)
  <2>1. LastOf(i + 1) \subseteq 1..(i + 1)
    BY <1>1, WindowOf, Zenon
  <2> QED
    BY <1>1, <2>1
<1>8. NotLater(chain, i + 1, b) \subseteq Earlier(chain, i, a)
  <2> SUFFICES ASSUME NEW j \in LastOf(i + 1), chain[j].time <= b
               PROVE  j \in LastOf(i) /\ chain[j].time < a
    BY Zenon DEF NotLater, Earlier
  <2>1. chain[j].time \in Int
    BY <1>4, <1>7, Zenon
  <2>2. chain[j].time < a
    BY <2>1, <1>3, <1>4
  <2>3. j # i + 1
    BY <2>2, <1>2, <1>4
  <2> QED
    BY <2>2, <2>3, <1>6, Zenon
<1>9. IsFiniteSet(Earlier(chain, i, a)) /\ IsFiniteSet(NotLater(chain, i + 1, b))
  <2>1. IsFiniteSet(LastOf(i))
    BY <1>1, WindowOf, Zenon
  <2>2. Earlier(chain, i, a) \in SUBSET LastOf(i)
    BY Zenon DEF Earlier
  <2>3. IsFiniteSet(Earlier(chain, i, a))
    BY <2>1, <2>2, FS_Subset, Zenon
  <2> QED
    BY <2>3, <1>8, FS_Subset, Zenon
<1>10. Cardinality(NotLater(chain, i + 1, b)) <= Cardinality(Earlier(chain, i, a))
  BY <1>8, <1>9, FS_Subset, Zenon
<1>11. Cardinality(NotLater(chain, i + 1, b)) \in Nat
       /\ Cardinality(Earlier(chain, i, a)) \in Nat
  BY <1>9, FS_CardinalityType, Zenon
<1>12. SpanOf(i) \div 2 <= SpanOf(i + 1) \div 2
       /\ SpanOf(i) \div 2 \in Nat /\ SpanOf(i + 1) \div 2 \in Nat
  BY <1>5
<1>13. /\ Cardinality(Earlier(chain, i, a)) <= SpanOf(i) \div 2
       /\ Cardinality(NotLater(chain, i + 1, b)) > SpanOf(i + 1) \div 2
  BY <1>2, Zenon DEF IsMedian
<1> QED
  BY <1>10, <1>11, <1>12, <1>13

\* Median times never go back along a chain.
LEMMA MedianMonotone ==
    ASSUME NEW chain, IsChain(chain), IsTimely(chain),
           NEW i \in 1..Len(chain), NEW j \in i..Len(chain)
    PROVE  MedianTime(chain, i) <= MedianTime(chain, j)
<1> DEFINE n == Len(chain) - i
           S == {k \in 0..n : MedianTime(chain, i) <= MedianTime(chain, i + k)}
<1>0. Len(chain) \in Nat /\ n \in Nat
  BY DEF IsChain
<1>1. \A k \in 0..n : MedianTime(chain, i + k) \in Int
  <2>1. \A k \in 0..n : i + k \in 1..Len(chain)
    BY <1>0
  <2> QED
    BY <2>1, MedianInChain, Zenon DEF IsMedian
<1>2. 0 \in S
  <2>1. 0 \in 0..n /\ i + 0 = i
    BY <1>0
  <2>2. MedianTime(chain, i) \in Int
    BY <1>1, <2>1
  <2>3. MedianTime(chain, i) <= MedianTime(chain, i)
    BY <2>2
  <2> QED
    BY <2>1, <2>3
<1>3. \A k \in 1..n : k - 1 \in S => k \in S
  <2> TAKE k \in 1..n
  <2> HAVE k - 1 \in S
  <2>1. i + (k - 1) \in 1..Len(chain) - 1 /\ i + (k - 1) + 1 = i + k
        /\ k - 1 \in 0..n /\ k \in 0..n /\ i + 0 = i /\ 0 \in 0..n
    BY <1>0
  <2>2. MedianTime(chain, i + (k - 1)) <= MedianTime(chain, i + k)
    BY <2>1, MedianStep, Zenon
  <2>3. MedianTime(chain, i) <= MedianTime(chain, i + (k - 1))
    BY Zenon
  <2>4. MedianTime(chain, i) \in Int
    BY <1>1, <2>1, Zenon
  <2>5. MedianTime(chain, i + (k - 1)) \in Int /\ MedianTime(chain, i + k) \in Int
    BY <1>1, <2>1, Zenon
  <2>6. MedianTime(chain, i) <= MedianTime(chain, i + k)
    BY <2>2, <2>3, <2>4, <2>5
  <2> QED
    BY <2>1, <2>6, Zenon
<1>4. j - i \in 0..n /\ i + (j - i) = j
  BY <1>0
<1>5. j - i \in S
  <2> HIDE DEF S, n
  <2> QED
    BY <1>0, <1>2, <1>3, <1>4, CountingUp, Zenon
<1> QED
  BY <1>4, <1>5, Zenon

-----------------------------------------------------------------------------
(* Periods.                                                                 *)

\* Division by the period.
LEMMA PeriodDivision ==
    ASSUME NEW i \in Nat
    PROVE  /\ i \div Period \in Nat /\ i % Period \in 0..Period - 1
           /\ i = Period * (i \div Period) + (i % Period)
<1> DEFINE P == Period
<1>1. P \in Nat /\ P > 0
  BY VersionBitsAssumption
<1> HIDE DEF P
<1>2. i \div P \in Int
  BY <1>1
<1>3. i \div P >= 0
  BY <1>1
<1>4. i % P \in 0..P - 1
  BY <1>1
<1>5. i = P * (i \div P) + (i % P)
  BY <1>1
<1>6. i \div P \in Nat
  BY <1>2, <1>3
<1> QED
  BY <1>4, <1>5, <1>6, Zenon DEF P

\* The quotient is the only one.
LEMMA PeriodQuotient ==
    ASSUME NEW k \in Nat, NEW r \in 0..Period - 1
    PROVE  /\ k * Period \in Nat /\ k * Period + r \in Nat
           /\ (k * Period + r) \div Period = k /\ (k * Period + r) % Period = r
<1> DEFINE P == Period
           i == k * P + r
           q == i \div P
           s == i % P
<1>1. P \in Nat /\ k * P \in Nat /\ i \in Nat
  BY VersionBitsAssumption
<1>2. q \in Nat /\ s \in 0..P - 1 /\ i = P * q + s
  <2> HIDE DEF i
  <2> QED
    BY <1>1, PeriodDivision
<1>3. i = k * P + r /\ r \in 0..P - 1
  OBVIOUS
<1> HIDE DEF P, i, q, s
<1>4. ~ (q >= k + 1)
  <2> SUFFICES ASSUME q >= k + 1 PROVE FALSE
    OBVIOUS
  <2>1. P * q >= P * (k + 1)
    BY <1>1, <1>2
  <2>2. P * (k + 1) = k * P + P /\ P * q \in Int
    BY <1>1, <1>2
  <2> QED
    BY <1>1, <1>2, <1>3, <2>1, <2>2
<1>5. ~ (k >= q + 1)
  <2> SUFFICES ASSUME k >= q + 1 PROVE FALSE
    OBVIOUS
  <2>1. P * k >= P * (q + 1)
    BY <1>1, <1>2
  <2>2. P * (q + 1) = P * q + P /\ P * k = k * P /\ P * q \in Int
    BY <1>1, <1>2
  <2> QED
    BY <1>1, <1>2, <1>3, <2>1, <2>2
<1>6. q = k
  BY <1>2, <1>4, <1>5
<1>7. P * q = k * P
  BY <1>1, <1>6
<1>8. s = r
  BY <1>1, <1>2, <1>3, <1>7
<1> QED
  BY <1>1, <1>6, <1>8, Zenon DEF P, i, q, s

\* The ends of the periods are the multiples of the period.
LEMMA PeriodEnd ==
    ASSUME NEW j \in Nat, j % Period = 0
    PROVE  j \div Period \in Nat /\ j = (j \div Period) * Period
  BY PeriodDivision, VersionBitsAssumption

\* Later ends end later periods.
LEMMA PeriodOrder ==
    ASSUME NEW i \in Nat, NEW j \in Nat, j <= i
    PROVE  j \div Period <= i \div Period
<1> DEFINE a == j \div Period
           b == i \div Period
           r == j % Period
           s == i % Period
           P == Period
<1>1. a \in Nat /\ b \in Nat /\ r \in 0..P - 1 /\ s \in 0..P - 1 /\ P \in Nat
      /\ j = P * a + r /\ i = P * b + s
  BY PeriodDivision, VersionBitsAssumption
<1> HIDE DEF a, b, r, s, P
<1>2. SUFFICES ASSUME a >= b + 1 PROVE FALSE
  BY <1>1 DEF a, b
<1>3. P * a >= P * (b + 1)
  BY <1>1, <1>2
<1>4. P * (b + 1) = P * b + P
  BY <1>1
<1>5. P * a \in Int /\ P * b \in Int /\ P * (b + 1) \in Int
  BY <1>1
<1> QED
  BY <1>1, <1>3, <1>4, <1>5

\* The end of a period before the end of another lies at least a period before it.
LEMMA PeriodBefore ==
    ASSUME NEW j \in Nat, NEW m \in Nat, j % Period = 0, m % Period = 0, m < j
    PROVE  /\ j - Period \in Nat /\ (j - Period) % Period = 0 /\ m <= j - Period
           /\ j \div Period \in Nat /\ j \div Period >= 1
           /\ (j - Period) \div Period = j \div Period - 1
<1> DEFINE a == j \div Period
           b == m \div Period
<1>1. a \in Nat /\ b \in Nat /\ j = a * Period /\ m = b * Period
  BY PeriodEnd, Zenon
<1> HIDE DEF a, b
<1>2. a >= b + 1
  <2>1. SUFFICES ASSUME a <= b PROVE FALSE
    BY <1>1
  <2>2. a * Period <= b * Period
    BY <1>1, <2>1, VersionBitsAssumption
  <2> QED
    BY <1>1, <2>2
<1>3. a - 1 \in Nat /\ a - 1 >= b /\ 0 \in 0..Period - 1
  BY <1>1, <1>2, VersionBitsAssumption
<1>4. j - Period = (a - 1) * Period + 0
  BY <1>1, <1>3, VersionBitsAssumption
<1>5. (a - 1) * Period >= b * Period
  BY <1>1, <1>3, VersionBitsAssumption
<1>6. (a - 1) * Period + 0 \in Nat /\ ((a - 1) * Period + 0) \div Period = a - 1
      /\ ((a - 1) * Period + 0) % Period = 0
  BY <1>3, PeriodQuotient, Zenon
<1>7. m <= j - Period
  BY <1>1, <1>3, <1>4, <1>5, VersionBitsAssumption
<1>8. a >= 1
  BY <1>1, <1>2
<1> QED
  BY <1>1, <1>4, <1>6, <1>7, <1>8, Zenon DEF a

\* The end of the period before.
LEMMA ParentOf ==
    ASSUME NEW i \in Nat
    PROVE  /\ PeriodParent(i) \in 0..i /\ PeriodParent(i) % Period = 0
           /\ PeriodParent(i) \div Period = i \div Period
           /\ PeriodParent(i) = (i \div Period) * Period
           /\ i < PeriodParent(i) + Period
<1> DEFINE k == i \div Period
           r == i % Period
<1>1. k \in Nat /\ r \in 0..Period - 1 /\ i = Period * k + r
  BY PeriodDivision
<1> HIDE DEF k, r
<1>2. i - r = k * Period + 0 /\ 0 \in 0..Period - 1
  BY <1>1, VersionBitsAssumption
<1>3. k * Period + 0 \in Nat /\ (k * Period + 0) \div Period = k
      /\ (k * Period + 0) % Period = 0
  BY <1>1, <1>2, PeriodQuotient, Zenon
<1>4. i - r \in Nat /\ (i - r) \div Period = k /\ (i - r) % Period = 0
  BY <1>2, <1>3, Zenon
<1>5. i - r = k * Period
  BY <1>1, VersionBitsAssumption
<1>6. i - r \in 0..i /\ i < i - r + Period
  BY <1>1, <1>4, VersionBitsAssumption
<1> QED
  BY <1>4, <1>5, <1>6, Zenon DEF PeriodParent, k, r

-----------------------------------------------------------------------------
(* The states of a deployment.                                              *)

\* Following the periods from the beginning takes the steps it is defined by.
LEMMA PeriodStatesLoop ==
    ASSUME NEW chain, NEW n \in Nat
    PROVE  PeriodStates(chain, n) =
             [k \in 0..n |-> IF k = 0 THEN "DEFINED"
                             ELSE StateNext(chain, PeriodStates(chain, n)[k - 1], k * Period)]
<1> DEFINE Is(f, m) == f = [k \in 0..m |-> IF k = 0 THEN "DEFINED"
                                           ELSE StateNext(chain, f[k - 1], k * Period)]
           S == {m \in 0..n : \E f : Is(f, m)}
<1>1. \E f : Is(f, 0)
  <2> DEFINE g == [k \in 0..0 |-> "DEFINED"]
  <2>1. Is(g, 0)
    OBVIOUS
  <2> HIDE DEF Is, g
  <2> QED
    BY <2>1, Zenon
<1>2. ASSUME NEW m \in 1..n, \E f : Is(f, m - 1)
      PROVE  \E f : Is(f, m)
  <2>1. PICK f : Is(f, m - 1)
    BY <1>2, Zenon
  <2> DEFINE g == [k \in 0..m |-> IF k = m THEN StateNext(chain, f[m - 1], m * Period)
                                  ELSE f[k]]
  <2>2. ASSUME NEW k \in 0..m
        PROVE  g[k] = IF k = 0 THEN "DEFINED" ELSE StateNext(chain, g[k - 1], k * Period)
    <3>1. CASE k = 0
      BY <2>1, <3>1
    <3>2. CASE k = m
      BY <2>1, <3>2
    <3>3. CASE k \in 1..m - 1
      <4>1. g[k] = f[k] /\ g[k - 1] = f[k - 1] /\ k \in 0..m - 1 /\ k # 0
        BY <3>3
      <4>2. f[k] = StateNext(chain, f[k - 1], k * Period)
        BY <2>1, <4>1, Zenon
      <4> QED
        BY <4>1, <4>2, Zenon
    <3> QED
      BY <3>1, <3>2, <3>3
  <2>3. Is(g, m)
    BY <2>2, Zenon
  <2> HIDE DEF Is, g
  <2> QED
    BY <2>3, Zenon
<1> HIDE DEF Is
<1>3. 0 \in S /\ \A m \in 1..n : m - 1 \in S => m \in S
  <2>1. 0 \in 0..n /\ \A m \in 1..n : m \in 0..n
    OBVIOUS
  <2> QED
    BY <1>1, <1>2, <2>1, Zenon
<1> HIDE DEF S
<1>4. n \in S
  <2>1. \A m \in 0..n : m \in S
    BY <1>3, CountingUp, Zenon
  <2> QED
    BY <2>1
<1>5. \E f : Is(f, n)
  BY <1>4, Zenon DEF S
<1>6. PeriodStates(chain, n) = CHOOSE f : Is(f, n)
  BY Zenon DEF PeriodStates, Is
<1>7. Is(PeriodStates(chain, n), n)
  BY <1>5, <1>6, Zenon
<1> QED
  BY <1>7, Zenon DEF Is

\* The state at the end of the k-th period of the chain.
StateAt(chain, k) == PeriodStates(chain, Len(chain) \div Period)[k]

\* How the states follow each other.
LEMMA StateSteps ==
    ASSUME NEW chain, IsChain(chain)
    PROVE  /\ Len(chain) \in Nat /\ Len(chain) \div Period \in Nat
           /\ StateAt(chain, 0) = "DEFINED"
           /\ \A k \in 1..Len(chain) \div Period :
                 /\ StateAt(chain, k) = StateNext(chain, StateAt(chain, k - 1), k * Period)
                 /\ k * Period \in 1..Len(chain)
<1> DEFINE n == Len(chain) \div Period
           f == PeriodStates(chain, n)
<1>1. Len(chain) \in Nat
  BY DEF IsChain
<1>2. n \in Nat /\ PeriodParent(Len(chain)) = n * Period
      /\ PeriodParent(Len(chain)) \in 0..Len(chain)
  BY <1>1, PeriodDivision, ParentOf
<1> HIDE DEF n
<1>3. f = [k \in 0..n |-> IF k = 0 THEN "DEFINED"
                          ELSE StateNext(chain, f[k - 1], k * Period)]
  BY <1>2, PeriodStatesLoop, Zenon
<1> HIDE DEF f
<1>4. 0 \in 0..n /\ \A k \in 1..n : k \in 0..n /\ k # 0
  BY <1>2
<1>5. f[0] = "DEFINED" /\ \A k \in 1..n : f[k] = StateNext(chain, f[k - 1], k * Period)
  BY <1>3, <1>4, Zenon
<1>6. ASSUME NEW k \in 1..n PROVE k * Period \in 1..Len(chain)
  <2> DEFINE P == Period
  <2>1. P \in Nat /\ P > 0 /\ k \in Nat /\ k >= 1
    BY VersionBitsAssumption, <1>2
  <2> HIDE DEF P
  <2>2. k * P >= 1 /\ k * P \in Nat
    BY <2>1
  <2>3. k * P <= n * P
    BY <1>2, <2>1
  <2>4. n * P \in 0..Len(chain)
    BY <1>2, Zenon DEF P
  <2>5. k * P \in 1..Len(chain)
    BY <1>1, <2>2, <2>3, <2>4
  <2> QED
    BY <2>5, Zenon DEF P
<1> QED
  BY <1>1, <1>2, <1>5, <1>6, Zenon DEF StateAt, f, n

\* A deployment is not started before the start time: the short cut of GetStateFor.
LEMMA DefinedBeforeStart ==
    ASSUME NEW chain, IsChain(chain), IsTimely(chain),
           NEW k \in 1..Len(chain) \div Period, MedianTime(chain, k * Period) < TimeStart
    PROVE  StateAt(chain, k) = "DEFINED"
<1> DEFINE n == Len(chain) \div Period
           S == {m \in 0..n : \/ m = 0
                              \/ ~ (MedianTime(chain, m * Period) < TimeStart)
                              \/ StateAt(chain, m) = "DEFINED"}
<1>1. n \in Nat /\ Len(chain) \in Nat /\ StateAt(chain, 0) = "DEFINED"
      /\ \A m \in 1..n : /\ StateAt(chain, m) = StateNext(chain, StateAt(chain, m - 1), m * Period)
                         /\ m * Period \in 1..Len(chain)
  BY StateSteps, Zenon
<1> HIDE DEF n
<1>2. 0 \in S
  BY <1>1
<1>3. ASSUME NEW m \in 1..n, m - 1 \in S
      PROVE  m \in S
  <2>1. m \in 0..n
    BY <1>1
  <2> SUFFICES ASSUME MedianTime(chain, m * Period) < TimeStart
               PROVE  StateAt(chain, m) = "DEFINED"
    BY <2>1, Zenon
  <2>2. MedianTime(chain, m * Period) \in Int
    BY <1>1, MedianInChain, Zenon DEF IsMedian
  <2>3. StateAt(chain, m - 1) = "DEFINED"
    <3>1. CASE m - 1 = 0
      BY <1>1, <3>1, Zenon
    <3>2. CASE m - 1 # 0
      <4>1. m - 1 \in 1..n
        BY <1>1, <3>2
      <4>2. (m - 1) * Period \in 1..Len(chain)
        BY <1>1, <4>1, Zenon
      <4>3. (m - 1) * Period <= m * Period
        BY <1>1, VersionBitsAssumption
      <4>4. m * Period \in (m - 1) * Period..Len(chain)
        BY <1>1, <4>2, <4>3
      <4>5. MedianTime(chain, (m - 1) * Period) <= MedianTime(chain, m * Period)
        BY <4>2, <4>4, MedianMonotone, Zenon
      <4>6. MedianTime(chain, (m - 1) * Period) \in Int
        BY <4>2, MedianInChain, Zenon DEF IsMedian
      <4>7. MedianTime(chain, (m - 1) * Period) < TimeStart
        BY <2>2, <4>5, <4>6, VersionBitsAssumption
      <4> QED
        BY <1>3, <3>2, <4>7, Zenon
    <3> QED
      BY <3>1, <3>2, Zenon
  <2>4. StateNext(chain, "DEFINED", m * Period) = "DEFINED"
    BY <2>2, VersionBitsAssumption DEF StateNext
  <2> QED
    BY <1>1, <2>3, <2>4, Zenon
<1> HIDE DEF S
<1>4. \A m \in 0..n : m \in S
  BY <1>1, <1>2, <1>3, CountingUp, Zenon
<1>5. k \in 0..n /\ k # 0
  BY <1>1 DEF n
<1>6. k \in S
  BY <1>4, <1>5, Zenon
<1> QED
  BY <1>5, <1>6, Zenon DEF S

\* The cache holds states of the chain.
IsRight(chain, cache) ==
    \A j \in DOMAIN cache :
        /\ j \in 0..Len(chain) /\ j % Period = 0
        /\ cache[j] = StateAt(chain, j \div Period)

\* What GetStateFor computes and returns, from a cache that is right, is right.
LEMMA ComputedIsRight ==
    ASSUME NEW chain, IsChain(chain), IsTimely(chain), NEW cache, IsRight(chain, cache),
           NEW i \in 0..Len(chain)
    PROVE  /\ IsRight(chain, Computed(chain, cache, i))
           /\ GetStateFor(chain, cache, i) = StateAt(chain, i \div Period)
<1> DEFINE l == Len(chain)
           n == l \div Period
           top == PeriodParent(i)
           ends == {j \in 0..top : j % Period = 0}
           K == {j \in ends : IsKnown(chain, cache, j)}
           known == Max(K)
           D == {e \in ends : e >= known}
           Start(j) == IF j \in DOMAIN cache THEN cache[j] ELSE "DEFINED"
           Is(f) == f = [j \in D |-> IF j > known THEN StateNext(chain, f[j - Period], j)
                                     ELSE Start(j)]
           state == CHOOSE f : Is(f)
<1>1. /\ l \in Nat /\ n \in Nat /\ StateAt(chain, 0) = "DEFINED"
      /\ \A k \in 1..n : /\ StateAt(chain, k) = StateNext(chain, StateAt(chain, k - 1), k * Period)
                         /\ k * Period \in 1..l
  BY StateSteps, Zenon
<1>2. /\ i \in Nat /\ top \in 0..l /\ top \in Nat
      /\ top % Period = 0 /\ top \div Period = i \div Period
  <2>1. i \in Nat
    BY <1>1
  <2>2. top \in 0..i /\ top % Period = 0 /\ top \div Period = i \div Period
    BY <2>1, ParentOf, Zenon
  <2> QED
    BY <1>1, <2>1, <2>2
<1>3. Computed(chain, cache, i) = [j \in DOMAIN state \cup DOMAIN cache |->
                                     IF j \in DOMAIN state THEN state[j] ELSE cache[j]]
  BY Zenon DEF Computed
<1> HIDE DEF top, n, l, Start
<1>4. 0 \in ends /\ \A j \in ends : j \in Nat /\ j \in 0..l /\ j % Period = 0 /\ j <= top
  <2>1. 0 % Period = 0
    BY VersionBitsAssumption
  <2> QED
    BY <1>1, <1>2, <2>1
<1>5. \A j \in ends : j \div Period \in 0..n /\ (j # 0 => j \div Period \in 1..n)
                      /\ j = (j \div Period) * Period
  <2> TAKE j \in ends
  <2>1. j \in Nat /\ j % Period = 0 /\ j <= l
    BY <1>1, <1>4
  <2>2. j \div Period \in Nat /\ j = (j \div Period) * Period
    BY <2>1, PeriodEnd, Zenon
  <2>3. j \div Period <= n
    BY <1>1, <2>1, PeriodOrder, Zenon DEF n, l
  <2>4. j # 0 => j \div Period # 0
    BY <2>2, VersionBitsAssumption
  <2> QED
    BY <1>1, <2>2, <2>3, <2>4
<1>6. known \in K /\ \A j \in K : known >= j
  <2>1. IsFiniteSet(0..top)
    BY <1>2, FS_Interval
  <2>2. K \in SUBSET (0..top)
    OBVIOUS
  <2>3. IsFiniteSet(K)
    BY <2>1, <2>2, FS_Subset, Zenon
  <2>4. 0 \in K
    BY <1>4, Zenon DEF IsKnown
  <2>5. \A j \in K : j \in Int
    BY <1>4
  <2> DEFINE v == [j \in K |-> j]
  <2>6. v \in [K -> Int] /\ \A j \in K : v[j] = j
    BY <2>5
  <2> HIDE DEF K, v
  <2>7. PICK g \in K : \A j \in K : v[j] <= v[g]
    BY <2>3, <2>4, <2>6, LatestExists, Zenon
  <2>8. \A j \in K : g >= j
    BY <2>5, <2>6, <2>7
  <2> QED
    BY <2>7, <2>8, Zenon DEF Max
<1> HIDE DEF known
<1>7. known \in ends /\ IsKnown(chain, cache, known)
  BY <1>6, Zenon
<1> HIDE DEF K, ends
<1>8. Start(known) = StateAt(chain, known \div Period)
  <2>1. CASE known \in DOMAIN cache
    BY <2>1, Zenon DEF Start, IsRight
  <2>2. CASE known \notin DOMAIN cache
    <3>1. Start(known) = "DEFINED"
      BY <2>2, Zenon DEF Start
    <3>2. CASE known = 0
      <4>1. 0 \div Period = 0
        BY VersionBitsAssumption
      <4> QED
        BY <1>1, <3>1, <3>2, <4>1, Zenon
    <3>3. CASE known # 0
      <4>1. MedianTime(chain, known) < TimeStart
        BY <1>7, <2>2, <3>3, Zenon DEF IsKnown
      <4>2. known \div Period \in 1..n /\ known = (known \div Period) * Period
        BY <1>5, <1>7, <3>3, Zenon
      <4> DEFINE k == known \div Period
      <4>3. k \in 1..Len(chain) \div Period /\ MedianTime(chain, k * Period) < TimeStart
        BY <4>1, <4>2, Zenon DEF n, l
      <4> HIDE DEF k
      <4>4. StateAt(chain, k) = "DEFINED"
        BY <4>3, DefinedBeforeStart, Zenon
      <4> QED
        BY <3>1, <4>4, Zenon DEF k
    <3> QED
      BY <3>2, <3>3, Zenon
  <2> QED
    BY <2>1, <2>2, Zenon
<1>9. known \in Nat /\ known % Period = 0 /\ known <= top
  BY <1>4, <1>7, Zenon
<1>10. ASSUME NEW j \in D, j > known
       PROVE  /\ j - Period \in D /\ j - Period < j /\ j - Period \in Nat
              /\ StateAt(chain, j \div Period)
                   = StateNext(chain, StateAt(chain, (j - Period) \div Period), j)
  <2>1. j \in ends /\ j \in Nat /\ j % Period = 0 /\ j <= top /\ known < j /\ j # 0
    BY <1>4, <1>9, <1>10
  <2>2. j - Period \in Nat /\ (j - Period) % Period = 0 /\ known <= j - Period
        /\ (j - Period) \div Period = j \div Period - 1
    BY <1>9, <2>1, PeriodBefore, Zenon
  <2>3. j - Period \in 0..top /\ j - Period < j /\ j - Period >= known
    BY <1>2, <1>9, <2>1, <2>2, VersionBitsAssumption
  <2>4. j - Period \in D
    BY <2>2, <2>3, Zenon DEF ends
  <2>5. j \div Period \in 1..n /\ j = (j \div Period) * Period
    BY <1>5, <2>1, Zenon
  <2>6. StateAt(chain, j \div Period)
          = StateNext(chain, StateAt(chain, j \div Period - 1), (j \div Period) * Period)
    BY <1>1, <2>5, Zenon
  <2>7. StateAt(chain, j \div Period)
          = StateNext(chain, StateAt(chain, (j - Period) \div Period), j)
    BY <2>2, <2>5, <2>6, Zenon
  <2> QED
    BY <2>2, <2>3, <2>4, <2>7, Zenon
<1>11. \A j \in D : j \in ends /\ j \in Nat /\ (~ (j > known) => j = known)
  <2> TAKE j \in D
  <2>1. j \in ends /\ j \in Nat /\ j >= known
    BY <1>4, Zenon
  <2> QED
    BY <1>9, <2>1
<1>12. \E f : Is(f)
  <2> DEFINE g == [j \in D |-> StateAt(chain, j \div Period)]
  <2>1. ASSUME NEW j \in D
        PROVE  g[j] = IF j > known THEN StateNext(chain, g[j - Period], j) ELSE Start(j)
    <3>1. CASE j > known
      <4>1. g[j] = StateAt(chain, j \div Period)
        BY Zenon
      <4>2. g[j - Period] = StateAt(chain, (j - Period) \div Period)
        BY <1>10, <3>1, Zenon
      <4> QED
        BY <1>10, <3>1, <4>1, <4>2, Zenon
    <3>2. CASE ~ (j > known)
      BY <1>8, <1>11, <3>2, Zenon
    <3> QED
      BY <3>1, <3>2, Zenon
  <2>2. Is(g)
    BY <2>1, Zenon
  <2> HIDE DEF g, Is
  <2> QED
    BY <2>2, Zenon
<1>13. Is(state)
  <2> HIDE DEF Is
  <2> QED
    BY <1>12, Zenon
<1> HIDE DEF state
<1>14. DOMAIN state = D
       /\ \A j \in D : state[j] = IF j > known THEN StateNext(chain, state[j - Period], j)
                                  ELSE Start(j)
  BY <1>13, Zenon
<1> HIDE DEF D
<1>15. \A j \in D : state[j] = StateAt(chain, j \div Period)
  <2> DEFINE T == {j \in D : state[j] # StateAt(chain, j \div Period)}
  <2> SUFFICES ASSUME T # {} PROVE FALSE
    BY Zenon
  <2>1. T \subseteq Nat
    BY <1>11, Zenon
  <2> HIDE DEF T
  <2>2. PICK j \in T : \A m \in T : j <= m
    BY <2>1, LeastNatural, Zenon
  <2>3. j \in D /\ state[j] # StateAt(chain, j \div Period)
    BY <2>2, Zenon DEF T
  <2>4. j > known
    <3> SUFFICES ASSUME ~ (j > known) PROVE FALSE
      OBVIOUS
    <3>1. j = known /\ state[j] = Start(j)
      BY <1>11, <1>14, <2>3, Zenon
    <3> QED
      BY <1>8, <2>3, <3>1, Zenon
  <2>5. j - Period \in D /\ j - Period < j /\ j - Period \in Nat /\ j \in Nat
    BY <1>10, <1>11, <2>3, <2>4, Zenon
  <2>6. ~ (j <= j - Period)
    BY <2>5
  <2>7. state[j - Period] = StateAt(chain, (j - Period) \div Period)
    BY <2>2, <2>5, <2>6, Zenon DEF T
  <2> QED
    BY <1>10, <1>14, <2>3, <2>4, <2>7, Zenon
<1>16. top \in D
  <2>1. top \in 0..top /\ top >= known
    BY <1>2, <1>9
  <2> QED
    BY <1>2, <2>1, Zenon DEF D, ends
<1>17. \A j \in D : j \in 0..l /\ j % Period = 0
  BY <1>4, <1>11, Zenon
<1> DEFINE c == Computed(chain, cache, i)
<1>18. DOMAIN c = D \cup DOMAIN cache
       /\ \A j \in DOMAIN c : c[j] = IF j \in D THEN state[j] ELSE cache[j]
  BY <1>3, <1>14, Zenon
<1> HIDE DEF c
<1>19. IsRight(chain, c)
  <2> SUFFICES ASSUME NEW j \in DOMAIN c
               PROVE  /\ j \in 0..Len(chain) /\ j % Period = 0
                      /\ c[j] = StateAt(chain, j \div Period)
    BY Zenon DEF IsRight
  <2>1. CASE j \in D
    BY <1>15, <1>17, <1>18, <2>1, Zenon DEF l
  <2>2. CASE j \notin D
    BY <1>18, <2>2, Zenon DEF IsRight
  <2> QED
    BY <2>1, <2>2, Zenon
<1>20. c[top] = StateAt(chain, i \div Period)
  BY <1>2, <1>15, <1>16, <1>18, Zenon
<1> QED
  BY <1>19, <1>20, Zenon DEF c, top, GetStateFor

\* Nothing is cached at first.
LEMMA EmptyIsRight ==
    ASSUME NEW chain
    PROVE  IsRight(chain, <<>>)
  BY DEF IsRight

\* What StateNext makes active, and what it locks in.
LEMMA HowStatesChange ==
    ASSUME NEW chain, NEW state, NEW i, MedianTime(chain, i) \in Int
    PROVE  /\ StateNext(chain, state, i) = "ACTIVE" => state \in {"ACTIVE", "LOCKED_IN"}
           /\ StateNext(chain, state, i) = "LOCKED_IN" =>
                 /\ state = "STARTED"
                 /\ MedianTime(chain, i) < TimeTimeout /\ Count(chain, i) >= Threshold
  BY VersionBitsAssumption DEF StateNext

\* An active deployment was locked in at the end of a period e before, earned by its
\* signals, and had a whole period of notice.
LEMMA ActiveWasLockedIn ==
    ASSUME NEW chain, IsChain(chain), NEW n \in 0..Len(chain) \div Period,
           StateAt(chain, n) = "ACTIVE"
    PROVE  \E k \in 1..n - 1 :
             /\ StateAt(chain, k) = "LOCKED_IN"
             /\ Count(chain, k * Period) >= Threshold
             /\ MedianTime(chain, k * Period) < TimeTimeout
<1>1. /\ Len(chain) \in Nat /\ Len(chain) \div Period \in Nat
      /\ StateAt(chain, 0) = "DEFINED"
      /\ \A k \in 1..Len(chain) \div Period :
            /\ StateAt(chain, k) = StateNext(chain, StateAt(chain, k - 1), k * Period)
            /\ k * Period \in 1..Len(chain)
  BY StateSteps, Zenon
<1> DEFINE T == {k \in 0..n : StateAt(chain, k) = "ACTIVE"}
<1>2. T \subseteq Nat /\ n \in T
  BY <1>1
<1> HIDE DEF T
<1>3. PICK a \in T : \A m \in T : a <= m
  BY <1>2, LeastNatural, Zenon
<1>4. a \in 0..n /\ StateAt(chain, a) = "ACTIVE"
  BY <1>3, Zenon DEF T
<1>5. a # 0
  BY <1>1, <1>4
<1>6. a \in 1..Len(chain) \div Period /\ a - 1 \in 0..n /\ ~ (a <= a - 1)
  BY <1>1, <1>4, <1>5
<1>7. StateAt(chain, a - 1) # "ACTIVE"
  BY <1>3, <1>6, Zenon DEF T
<1>8. MedianTime(chain, a * Period) \in Int
  BY <1>1, <1>6, MedianInChain, Zenon DEF IsMedian
<1>9. StateAt(chain, a - 1) = "LOCKED_IN"
  <2> DEFINE s == StateAt(chain, a - 1)
             i == a * Period
  <2>1. StateNext(chain, s, i) = "ACTIVE" /\ MedianTime(chain, i) \in Int
    BY <1>1, <1>4, <1>6, <1>8, Zenon
  <2>2. s # "ACTIVE"
    BY <1>7, Zenon
  <2> HIDE DEF s, i
  <2>3. s \in {"ACTIVE", "LOCKED_IN"}
    BY <2>1, HowStatesChange, Zenon
  <2> QED
    BY <2>2, <2>3, Zenon DEF s
<1>10. a - 1 # 0
  BY <1>1, <1>9
<1> DEFINE k == a - 1
<1>11. k \in 1..n - 1 /\ k \in 1..Len(chain) \div Period
  BY <1>1, <1>4, <1>6, <1>10
<1> HIDE DEF k
<1>12. StateAt(chain, k) = "LOCKED_IN"
  BY <1>9, Zenon DEF k
<1>13. MedianTime(chain, k * Period) \in Int
  BY <1>1, <1>11, MedianInChain, Zenon DEF IsMedian
<1>14. StateNext(chain, StateAt(chain, k - 1), k * Period) = "LOCKED_IN"
  BY <1>1, <1>11, <1>12, Zenon
<1>15. Count(chain, k * Period) >= Threshold /\ MedianTime(chain, k * Period) < TimeTimeout
  <2> DEFINE s == StateAt(chain, k - 1)
             i == k * Period
  <2>1. StateNext(chain, s, i) = "LOCKED_IN" /\ MedianTime(chain, i) \in Int
    BY <1>13, <1>14, Zenon
  <2> HIDE DEF s, i
  <2>2. Count(chain, i) >= Threshold /\ MedianTime(chain, i) < TimeTimeout
    BY <2>1, HowStatesChange, Zenon
  <2> QED
    BY <2>2, Zenon DEF i
<1> QED
  BY <1>11, <1>12, <1>15, Zenon

-----------------------------------------------------------------------------
(* Versions.                                                                *)

\* The blocks that count for a version.
Oldest(n) == IF n - MajorityWindow + 1 <= 1 THEN 1 ELSE n - MajorityWindow + 1
Counted(chain, v, n) == {j \in Oldest(n)..n : chain[j].version >= v}

\* No block is obsolete when it is added.
IsCurrent(chain) ==
    \A i \in 1..Len(chain) - 1, v \in {3, 4} :
        chain[i + 1].version < v => ~ IsSuperMajority(v, SubSeq(chain, 1, i))

\* What IsSuperMajority looks at.
LEMMA MajorityOf ==
    ASSUME NEW chain, IsChain(chain), NEW n \in 0..Len(chain), NEW v
    PROVE  IsSuperMajority(v, SubSeq(chain, 1, n))
             <=> Cardinality(Counted(chain, v, n)) >= MajorityReject
<1> DEFINE s == SubSeq(chain, 1, n)
<1>1. Len(s) = n /\ \A j \in 1..n : s[j] = chain[j]
  BY PrefixOf, Zenon
<1> HIDE DEF s
<1>2. n \in Int /\ n - MajorityWindow + 1 \in Int
  BY RulesAssumption DEF IsChain
<1>3. Max({1, n - MajorityWindow + 1}) = Oldest(n)
  <2> DEFINE b == n - MajorityWindow + 1
  <2>1. b \in Int
    BY <1>2
  <2> HIDE DEF b
  <2>2. Max({1, b}) = IF 1 <= b THEN b ELSE 1
    BY <2>1, MaxOfTwo
  <2>3. Max({1, b}) = IF b <= 1 THEN 1 ELSE b
    BY <2>1, <2>2
  <2> QED
    BY <2>3, Zenon DEF b, Oldest
<1>4. \A j \in Oldest(n)..n : s[j] = chain[j]
  <2>1. Oldest(n) \in Int /\ Oldest(n) >= 1
    BY <1>2 DEF Oldest
  <2>2. \A j \in Oldest(n)..n : j \in 1..n
    BY <1>2, <2>1
  <2> QED
    BY <1>1, <2>2, Zenon
<1>5. {j \in Oldest(n)..n : s[j].version >= v} = Counted(chain, v, n)
  BY <1>4, Zenon DEF Counted
<1>6. IsSuperMajority(v, s)
        <=> Cardinality({j \in Oldest(n)..n : s[j].version >= v}) >= MajorityReject
  BY <1>1, <1>3, Zenon DEF IsSuperMajority
<1> QED
  BY <1>5, <1>6, Zenon DEF s

\* A block of the version takes the place of at most one in the window.
LEMMA MajorityStays ==
    ASSUME NEW chain, IsChain(chain), NEW n \in 1..Len(chain) - 1, NEW v \in Nat,
           Cardinality(Counted(chain, v, n)) >= MajorityReject,
           chain[n + 1].version >= v
    PROVE  Cardinality(Counted(chain, v, n + 1)) >= MajorityReject
<1> DEFINE A == Counted(chain, v, n)
           B == Counted(chain, v, n + 1)
           o == Oldest(n)
<1>1. n \in Nat /\ n > 0 /\ MajorityWindow \in Nat
  BY RulesAssumption DEF IsChain
<1>2. o \in Int /\ Oldest(n + 1) \in Int /\ Oldest(n + 1) \in {o, o + 1}
      /\ (Oldest(n + 1) > n + 1 => MajorityWindow = 0 /\ o > n)
  BY <1>1 DEF Oldest
<1>3. IsFiniteSet(A) /\ IsFiniteSet(B)
  <2>1. IsFiniteSet(o..n) /\ IsFiniteSet(Oldest(n + 1)..n + 1)
    <3>1. n \in Int /\ n + 1 \in Int
      BY <1>1
    <3> QED
      BY <1>2, <3>1, FS_Interval, Zenon
  <2>2. A \in SUBSET (o..n) /\ B \in SUBSET (Oldest(n + 1)..n + 1)
    BY Zenon DEF Counted
  <2> QED
    BY <2>1, <2>2, FS_Subset, Zenon
<1>4. Cardinality(A) \in Nat /\ Cardinality(B) \in Nat
  BY <1>3, FS_CardinalityType, Zenon
<1>5. Cardinality(A) <= Cardinality(B)
  <2>1. CASE Oldest(n + 1) > n + 1
    <3>1. A = {}
      BY <1>1, <1>2, <2>1 DEF Counted
    <3>2. Cardinality(A) = 0
      BY <3>1, FS_EmptySet, Zenon
    <3> QED
      BY <3>2, <1>4
  <2>2. CASE Oldest(n + 1) <= n + 1
    <3> DEFINE C == A \ {o}
    <3>1. n + 1 \notin C /\ C \cup {n + 1} \subseteq B
      <4>1. \A j \in o..n : j # n + 1 /\ (j # o => j \in Oldest(n + 1)..n + 1)
        BY <1>1, <1>2
      <4>2. n + 1 \in Oldest(n + 1)..n + 1
        BY <1>1, <1>2, <2>2
      <4> QED
        BY <4>1, <4>2, Zenon DEF Counted
    <3>2. IsFiniteSet(C) /\ Cardinality(C) \in {Cardinality(A), Cardinality(A) - 1}
      BY <1>3, FS_RemoveElement, Zenon
    <3> HIDE DEF C, A, B
    <3>3. Cardinality(C \cup {n + 1}) = Cardinality(C) + 1
      BY <3>1, <3>2, FS_AddElement, Zenon
    <3>4. Cardinality(C \cup {n + 1}) <= Cardinality(B)
      BY <1>3, <3>1, FS_Subset, Zenon
    <3>5. Cardinality(C) + 1 <= Cardinality(B)
      BY <3>3, <3>4, Zenon
    <3> QED
      BY <1>4, <3>2, <3>5
  <2> QED
    BY <1>1, <1>2, <2>1, <2>2
<1>6. MajorityReject \in Nat /\ Cardinality(A) >= MajorityReject
  BY RulesAssumption
<1> QED
  BY <1>4, <1>5, <1>6

\* Once a version has its majority, every later block is of that version.
LEMMA MajorityIsFinal ==
    ASSUME NEW chain, IsChain(chain), IsCurrent(chain),
           NEW i \in 1..Len(chain), NEW v \in {3, 4},
           IsSuperMajority(v, SubSeq(chain, 1, i))
    PROVE  \A j \in i + 1..Len(chain) : chain[j].version >= v
<1> DEFINE n == Len(chain) - i
           Has(m) == Cardinality(Counted(chain, v, m)) >= MajorityReject
           S == {k \in 0..n : Has(i + k)}
<1>0. Len(chain) \in Nat /\ n \in Nat /\ v \in Nat
  BY DEF IsChain
<1>1. \A m \in i..Len(chain) : IsSuperMajority(v, SubSeq(chain, 1, m)) <=> Has(m)
  <2>1. \A m \in i..Len(chain) : m \in 0..Len(chain)
    BY <1>0
  <2> QED
    BY <2>1, MajorityOf, Zenon
<1>2. ASSUME NEW m \in i..Len(chain) - 1, Has(m)
      PROVE  chain[m + 1].version >= v
  <2>1. m \in i..Len(chain) /\ m \in 1..Len(chain) - 1 /\ m + 1 \in 1..Len(chain)
    BY <1>0
  <2>2. ~ (chain[m + 1].version < v)
    BY <1>1, <1>2, <2>1, Zenon DEF IsCurrent
  <2>3. chain[m + 1].version \in Nat
    BY <2>1, Zenon DEF IsChain
  <2> QED
    BY <1>0, <2>2, <2>3
<1>3. 0 \in S
  <2>1. i \in i..Len(chain) /\ i + 0 = i /\ 0 \in 0..n
    BY <1>0
  <2>2. Has(i)
    BY <1>1, <2>1, Zenon
  <2> QED
    BY <2>1, <2>2
<1>4. ASSUME NEW k \in 1..n, k - 1 \in S
      PROVE  k \in S
  <2> DEFINE m == i + (k - 1)
  <2>1. m \in i..Len(chain) - 1 /\ m \in 1..Len(chain) - 1 /\ m + 1 = i + k /\ k \in 0..n
    BY <1>0
  <2>2. Has(m)
    BY <1>4, Zenon
  <2> HIDE DEF m
  <2>3. chain[m + 1].version >= v
    BY <1>2, <2>1, <2>2, Zenon
  <2>4. Has(m + 1)
    BY <1>0, <2>1, <2>2, <2>3, MajorityStays, Zenon
  <2> QED
    BY <2>1, <2>4, Zenon
<1>5. \A k \in 0..n : k \in S
  <2> HIDE DEF S, n
  <2> QED
    BY <1>0, <1>3, <1>4, CountingUp, Zenon
<1> TAKE j \in i + 1..Len(chain)
<1>6. j - 1 - i \in 0..n /\ i + (j - 1 - i) = j - 1 /\ j - 1 \in i..Len(chain) - 1
      /\ j - 1 + 1 = j
  BY <1>0
<1>7. Has(j - 1)
  BY <1>5, <1>6, Zenon
<1> QED
  <2> DEFINE m == j - 1
  <2> HIDE DEF m, Has
  <2>1. m \in i..Len(chain) - 1 /\ Has(m) /\ m + 1 = j
    BY <1>6, <1>7, Zenon DEF m
  <2> QED
    BY <1>2, <2>1, Zenon

-----------------------------------------------------------------------------
(* The branch.                                                              *)

\* The inductive invariant: the branch is a chain, every block of it was later than the
\* median time and of a version that was not obsolete when it was added.
IsLawful(chain) == Len(chain) > 0 /\ IsChain(chain) /\ IsTimely(chain) /\ IsCurrent(chain)

BranchInv == IsLawful(branch)

\* A header that ContextualCheckBlockHeader passes leaves a chain lawful.
LEMMA LawfulExtended ==
    ASSUME NEW chain, IsLawful(chain), NEW e, e.time \in Int, e.version \in Nat,
           e.time > GetMedianTimePast(chain),
           \A v \in {3, 4} : e.version < v => ~ IsSuperMajority(v, chain)
    PROVE  IsLawful(Append(chain, e))
<1> DEFINE l == Len(chain)
           s == Append(chain, e)
<1>1. PICK S : chain \in Seq(S)
  BY DEF IsLawful, IsChain
<1>2. l \in Nat /\ l > 0
  BY <1>1 DEF IsLawful
<1>3. s \in Seq(S \cup {e}) /\ Len(s) = l + 1 /\ s[l + 1] = e
      /\ \A i \in 1..l : s[i] = chain[i]
  BY <1>1
<1>4. SubSeq(s, 1, l) = chain
  BY <1>1, <1>2, <1>3
<1>5. ASSUME NEW i \in 1..l
      PROVE  SubSeq(s, 1, i) = SubSeq(chain, 1, i)
  BY <1>1, <1>2, <1>3
<1> HIDE DEF s
<1>6. IsChain(s)
  <2>1. \E T : s \in Seq(T)
    BY <1>3, Zenon
  <2>2. ASSUME NEW i \in 1..l + 1 PROVE s[i].time \in Int /\ s[i].version \in Nat
    <3>1. i \in 1..l \/ i = l + 1
      BY <1>2
    <3> QED
      BY <1>3, <3>1, Zenon DEF IsLawful, IsChain
  <2> QED
    BY <1>3, <2>1, <2>2, Zenon DEF IsChain
<1>7. ASSUME NEW i \in 1..Len(s) - 1
      PROVE  i \in 1..l - 1 \/ i = l
  BY <1>2, <1>3
<1>8. IsTimely(s)
  <2> SUFFICES ASSUME NEW i \in 1..Len(s) - 1
               PROVE  s[i + 1].time > MedianTime(s, i)
    BY Zenon DEF IsTimely
  <2>1. CASE i \in 1..l - 1
    <3>1. i \in 1..l /\ i + 1 \in 1..l
      BY <1>2, <2>1
    <3>2. MedianTime(s, i) = MedianTime(chain, i)
      BY <1>5, <3>1, Zenon DEF MedianTime
    <3> QED
      BY <1>3, <2>1, <3>1, <3>2, Zenon DEF IsLawful, IsTimely
  <2>2. CASE i = l
    BY <1>3, <1>4, <2>2, Zenon DEF MedianTime
  <2> QED
    BY <1>7, <2>1, <2>2, Zenon
<1>9. IsCurrent(s)
  <2> SUFFICES ASSUME NEW i \in 1..Len(s) - 1, NEW v \in {3, 4}, s[i + 1].version < v
               PROVE  ~ IsSuperMajority(v, SubSeq(s, 1, i))
    BY Zenon DEF IsCurrent
  <2>1. CASE i \in 1..l - 1
    <3>1. i \in 1..l /\ i + 1 \in 1..l
      BY <1>2, <2>1
    <3>2. SubSeq(s, 1, i) = SubSeq(chain, 1, i) /\ chain[i + 1].version < v
      BY <1>3, <1>5, <3>1, Zenon
    <3> QED
      BY <2>1, <3>2, Zenon DEF IsLawful, IsCurrent
  <2>2. CASE i = l
    BY <1>3, <1>4, <2>2, Zenon
  <2> QED
    BY <1>7, <2>1, <2>2, Zenon
<1>10. Len(s) > 0
  BY <1>2, <1>3
<1> QED
  BY <1>6, <1>8, <1>9, <1>10, Zenon DEF IsLawful, s

\* AcceptBlockHeader keeps the invariant.
LEMMA AcceptInv ==
    ASSUME BranchInv, AcceptBlockHeader
    PROVE  BranchInv'
<1>1. PICK algo \in Algos, version \in Versions, step \in TimeSteps,
           bits \in {GetNextWorkRequired(branch, a) : a \in Algos}
                      \cup {Compact(PowLimit[a]) : a \in Algos} :
         LET h == [algo |-> algo, version |-> version, bits |-> bits,
                   time |-> branch[Len(branch)].time + step]
         IN  HeaderIsAccepted(branch, h) /\ branch' = AddToBlockIndex(branch, h)
  BY Zenon DEF AcceptBlockHeader
<1> DEFINE h == [algo |-> algo, version |-> version, bits |-> bits,
                 time |-> branch[Len(branch)].time + step]
<1>2. HeaderIsAccepted(branch, h) /\ branch' = AddToBlockIndex(branch, h)
  BY <1>1, Zenon
<1>3. h.version \in Nat /\ h.time \in Int
  <2>1. branch[Len(branch)].time \in Int
    BY DEF BranchInv, IsLawful, IsChain
  <2>2. step \in Int /\ version \in Nat
    BY RulesAssumption, Zenon
  <2> QED
    BY <2>1, <2>2
<1> HIDE DEF h
<1>4. h.time > GetMedianTimePast(branch)
      /\ \A v \in {3, 4} : h.version < v => ~ IsSuperMajority(v, branch)
  BY <1>2, Zenon DEF HeaderIsAccepted, ContextualCheckBlockHeader, TimeIsPlausible, VersionIsCurrent
<1>5. PICK w : branch' = Append(branch, [algo |-> h.algo, time |-> h.time,
                                         version |-> h.version, bits |-> h.bits, work |-> w])
  BY <1>2, Zenon DEF AddToBlockIndex
<1> DEFINE e == [algo |-> h.algo, time |-> h.time, version |-> h.version, bits |-> h.bits,
                 work |-> w]
<1>6. e.time = h.time /\ e.version = h.version
  OBVIOUS
<1>7. branch' = Append(branch, e)
  BY <1>5, Zenon
<1> HIDE DEF e
<1>8. IsLawful(Append(branch, e))
  <2>1. e.time \in Int /\ e.version \in Nat /\ e.time > GetMedianTimePast(branch)
        /\ \A v \in {3, 4} : e.version < v => ~ IsSuperMajority(v, branch)
    BY <1>3, <1>4, <1>6, Zenon
  <2> DEFINE b == branch
  <2>2. IsLawful(b)
    BY Zenon DEF BranchInv
  <2> QED
    BY <2>1, <2>2, LawfulExtended, Zenon
<1> QED
  BY <1>7, <1>8, Zenon DEF BranchInv

\* The invariant holds of every branch: whatever headers arrive, whatever their times and
\* versions.
THEOREM Lawful == Spec => []BranchInv
<1>1. Init => BranchInv
  <2> SUFFICES ASSUME Init PROVE BranchInv
    OBVIOUS
  <2>1. PICK w : branch = <<[Genesis EXCEPT !.work = w]>>
    BY Zenon DEF Init
  <2> DEFINE g == [Genesis EXCEPT !.work = w]
  <2>2. g.time = 0 /\ g.version = 1
    BY DEF Genesis
  <2> HIDE DEF g
  <2>3. branch = <<g>>
    BY <2>1, Zenon DEF g
  <2>4. branch \in Seq({g}) /\ Len(branch) = 1 /\ branch[1] = g
    BY <2>3
  <2>5. IsChain(branch)
    <3>1. \E S : branch \in Seq(S)
      BY <2>4, Zenon
    <3>2. \A i \in 1..Len(branch) : branch[i].time \in Int /\ branch[i].version \in Nat
      BY <2>2, <2>4
    <3> QED
      BY <3>1, <3>2, Zenon DEF IsChain
  <2>6. IsTimely(branch) /\ IsCurrent(branch)
    <3>1. \A i \in 1..Len(branch) - 1 : FALSE
      BY <2>4
    <3> QED
      BY <3>1, Zenon DEF IsTimely, IsCurrent
  <2>7. Len(branch) > 0
    BY <2>4
  <2> QED
    BY <2>5, <2>6, <2>7, Zenon DEF BranchInv, IsLawful
<1>2. BranchInv /\ [Next]_vars => BranchInv'
  <2> SUFFICES ASSUME BranchInv, [Next]_vars PROVE BranchInv'
    OBVIOUS
  <2>1. CASE AcceptBlockHeader
    BY <2>1, AcceptInv, Zenon
  <2>2. CASE Tick
    BY <2>2, Zenon DEF Tick, BranchInv
  <2>3. CASE UNCHANGED vars
    BY <2>3, Zenon DEF vars, BranchInv
  <2> QED
    BY <2>1, <2>2, <2>3, Zenon DEF Next
<1> QED
  BY <1>1, <1>2, PTL DEF Spec

\* Once IsSuperMajority has made a version obsolete, ContextualCheckBlockHeader never lets
\* one of it in again, for any window, any majority and any branch.
THEOREM Upgrades == Spec => []UpgradesAreFinal
<1>1. BranchInv => UpgradesAreFinal
  <2> SUFFICES ASSUME BranchInv, NEW i \in 1..Len(branch), NEW v \in {3, 4},
                      IsSuperMajority(v, SubSeq(branch, 1, i))
               PROVE  \A j \in i + 1..Len(branch) : branch[j].version >= v
    BY Zenon DEF UpgradesAreFinal
  <2>1. IsChain(branch) /\ IsCurrent(branch)
    BY Zenon DEF BranchInv, IsLawful
  <2> QED
    BY <2>1, MajorityIsFinal
<1> QED
  BY <1>1, Lawful, PTL

\* Whatever was asked before, GetStateFor gives the state that following the periods gives.
LEMMA StateIsRight ==
    ASSUME BranchInv, NEW i \in 0..Len(branch)
    PROVE  /\ IsRight(branch, Computed(branch, <<>>, i))
           /\ GetStateFor(branch, <<>>, i) = StateAt(branch, i \div Period)
<1> DEFINE b == branch
<1>1. IsChain(b) /\ IsTimely(b) /\ i \in 0..Len(b)
  BY Zenon DEF BranchInv, IsLawful
<1>2. PICK c : c = <<>>
  OBVIOUS
<1>3. IsRight(b, c)
  BY <1>2, EmptyIsRight, Zenon
<1> HIDE DEF b
<1>4. IsRight(b, Computed(b, c, i)) /\ GetStateFor(b, c, i) = StateAt(b, i \div Period)
  BY <1>1, <1>3, ComputedIsRight, Zenon
<1> QED
  BY <1>2, <1>4, Zenon DEF b

\* The cache of the version bits and the short cut at the start time never change an
\* answer, for any deployment, any period and any branch.
THEOREM CachedStates == Spec => []CacheIsTransparent
<1>1. BranchInv => CacheIsTransparent
  <2> SUFFICES ASSUME BranchInv, NEW i \in 0..Len(branch)
               PROVE  GetStateFor(branch, Computed(branch, <<>>, i), Len(branch))
                        = StateByPeriods(branch, Len(branch))
    BY Zenon DEF CacheIsTransparent
  <2> DEFINE b == branch
             c == Computed(branch, <<>>, i)
             n == Len(branch)
  <2>1. IsChain(b) /\ IsTimely(b) /\ IsRight(b, c) /\ n = Len(b)
    BY StateIsRight, Zenon DEF BranchInv, IsLawful
  <2>2. n \in 0..Len(b)
    BY DEF BranchInv, IsLawful, IsChain
  <2> HIDE DEF b, c, n
  <2>3. GetStateFor(b, c, n) = StateAt(b, n \div Period)
    BY <2>1, <2>2, ComputedIsRight, Zenon
  <2>4. StateByPeriods(b, n) = StateAt(b, n \div Period)
    BY <2>1, Zenon DEF StateByPeriods, StateAt
  <2> QED
    BY <2>3, <2>4, Zenon DEF b, c, n
<1> QED
  BY <1>1, Lawful, PTL

\* A deployment is active only when a period had enough signals before the time-out and a
\* whole period of notice followed, for any deployment and any branch.
THEOREM Activations == Spec => []ActivationIsEarned
<1>1. BranchInv => ActivationIsEarned
  <2> SUFFICES ASSUME BranchInv, GetStateFor(branch, <<>>, Len(branch)) = "ACTIVE"
               PROVE  \E e \in 1..Len(branch) :
                        /\ e % Period = 0 /\ e + Period <= Len(branch)
                        /\ Count(branch, e) >= Threshold
                        /\ MedianTime(branch, e) < TimeTimeout
                        /\ \A i \in e..e + Period - 1 :
                             GetStateFor(branch, <<>>, i) = "LOCKED_IN"
    BY Zenon DEF ActivationIsEarned, Count
  <2> DEFINE b == branch
             l == Len(branch)
             n == l \div Period
  <2>1. IsChain(b) /\ l \in Nat /\ l \in 0..l
    BY DEF BranchInv, IsLawful, IsChain
  <2>2. n \in Nat /\ PeriodParent(l) = n * Period /\ PeriodParent(l) \in 0..l
    BY <2>1, PeriodDivision, ParentOf, Zenon
  <2>3. StateAt(b, n) = "ACTIVE"
    BY <2>1, StateIsRight, Zenon
  <2>4. n \in 0..n
    BY <2>2
  <2>5. PICK k \in 1..n - 1 : /\ StateAt(b, k) = "LOCKED_IN"
                              /\ Count(b, k * Period) >= Threshold
                              /\ MedianTime(b, k * Period) < TimeTimeout
    <3> DEFINE m == n
    <3>1. IsChain(b) /\ m \in 0..Len(b) \div Period /\ StateAt(b, m) = "ACTIVE"
      BY <2>1, <2>3, <2>4, Zenon
    <3> HIDE DEF b, m
    <3>2. \E k \in 1..m - 1 : /\ StateAt(b, k) = "LOCKED_IN"
                              /\ Count(b, k * Period) >= Threshold
                              /\ MedianTime(b, k * Period) < TimeTimeout
      BY <3>1, ActiveWasLockedIn, Zenon
    <3> QED
      BY <3>2, Zenon DEF m
  <2> HIDE DEF n, l, b
  <2> DEFINE P == Period
             e == k * P
  <2>6. P \in Nat /\ P > 0 /\ k \in Nat /\ k >= 1 /\ k + 1 <= n /\ 0 \in 0..P - 1
    BY <2>2, VersionBitsAssumption
  <2>7. e + 0 = e /\ e \in Nat /\ e >= 1 /\ e + P <= l
    <3> HIDE DEF P
    <3>1. e \in Nat /\ e >= 1
      BY <2>6
    <3>2. (k + 1) * P <= n * P /\ (k + 1) * P = e + P
      BY <2>2, <2>6
    <3>3. n * P \in 0..l
      BY <2>2, Zenon DEF P
    <3> QED
      BY <2>1, <2>6, <3>1, <3>2, <3>3
  <2>8. e % P = 0
    <3>1. (k * Period + 0) % Period = 0
      BY <2>6, PeriodQuotient, Zenon
    <3> QED
      BY <2>7, <3>1, Zenon
  <2>9. ASSUME NEW i \in e..e + P - 1
        PROVE  GetStateFor(branch, <<>>, i) = "LOCKED_IN"
    <3> DEFINE r == i - e
    <3>1. i \in 0..l /\ r \in 0..P - 1 /\ i = e + r
      BY <2>1, <2>6, <2>7
    <3> HIDE DEF r
    <3>2. (k * Period + r) \div Period = k
      BY <2>6, <3>1, PeriodQuotient, Zenon
    <3>3. i \div Period = k
      BY <3>1, <3>2, Zenon
    <3>4. GetStateFor(branch, <<>>, i) = StateAt(branch, i \div Period)
      BY <3>1, StateIsRight, Zenon DEF l
    <3> QED
      BY <2>5, <3>3, <3>4, Zenon DEF b
  <2>10. e \in 1..l
    BY <2>1, <2>6, <2>7
  <2>11. Count(branch, e) >= Threshold /\ MedianTime(branch, e) < TimeTimeout
    BY <2>5, Zenon DEF b
  <2> HIDE DEF e
  <2> QED
    BY <2>7, <2>8, <2>9, <2>10, <2>11, Zenon DEF l
<1> QED
  BY <1>1, Lawful, PTL
=============================================================================
