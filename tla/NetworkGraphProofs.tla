-------------------------- MODULE NetworkGraphProofs --------------------------
(***************************************************************************)
(* Merging the network graphs: on any number of ranks, with any number of  *)
(* channels and whatever the order in which the graphs arrive.             *)
(***************************************************************************)
EXTENDS NetworkGraph, RecursionLemmas, TLAPS

-------------------------------------------------------------------------------
(* Sums over the ranks *)

Sums(g) ==
  LET sum[r \in Rank] == IF r = 0 THEN g[0] ELSE sum[r - 1] + g[r]
  IN  sum

\* The loop that adds up a function over the ranks computes a function.
LEMMA SumsProps ==
  ASSUME NEW g \in [Rank -> Int]
  PROVE  /\ SumOf(g) = Sums(g)[N - 1]
         /\ Sums(g) \in [Rank -> Int]
         /\ Sums(g)[0] = g[0]
         /\ \A i \in 1 .. N - 1 : Sums(g)[i] = Sums(g)[i - 1] + g[i]
<1> DEFINE n == N - 1
           Def(h) == [i \in 0 .. n |-> IF i = 0 THEN g[0] ELSE h[i - 1] + g[i]]
           step == [i \in 1 .. n |-> [x \in Int |-> x + g[i]]]
<1>1. n \in Nat /\ Rank = 0 .. n
  BY SizeAssumption DEF Rank
<1>2. \A i \in 0 .. n : g[i] \in Int
  BY <1>1
<1>3. step \in [1 .. n -> [Int -> Int]] /\ g[0] \in Int
  BY <1>1, <1>2
<1>4. PICK f \in [0 .. n -> Int] : IsLoop(f, g[0], n, step)
  <2> HIDE DEF n, step
  <2> QED
    BY <1>1, <1>3, LoopExists, Zenon
<1>5. ASSUME NEW i \in 1 .. n PROVE f[i] = f[i - 1] + g[i]
  <2> f[i - 1] \in Int
    BY <1>1
  <2> QED
    BY <1>4 DEF IsLoop
<1>6. f = Def(f)
  BY <1>1, <1>4, <1>5 DEF IsLoop
<1>7. Sums(g) = CHOOSE h : h = Def(h)
  BY <1>1 DEF Sums
<1>8. Sums(g) = Def(Sums(g))
  <2> HIDE DEF Def
  <2> QED
    BY <1>6, <1>7
<1>9. ASSUME NEW i \in 1 .. n PROVE Sums(g)[i] = Sums(g)[i - 1] + g[i]
  BY <1>1, <1>8
<1>10. Sums(g)[0] = g[0]
  BY <1>1, <1>8
<1>11. \A i \in 0 .. n : Sums(g)[i] \in Int
  <2> DEFINE T == {i \in 0 .. n : Sums(g)[i] \in Int}
  <2>1. 0 \in T
    BY <1>1, <1>3, <1>10
  <2>2. ASSUME NEW i \in 1 .. n, i - 1 \in T PROVE i \in T
    <3>1. Sums(g)[i - 1] \in Int /\ i \in 0 .. n
      BY <1>1, <2>2
    <3> QED
      BY <1>2, <1>9, <3>1
  <2> HIDE DEF T
  <2>3. 0 .. n \subseteq T
    <3> HIDE DEF n
    <3> QED
      BY <1>1, <2>1, <2>2, IndexInduction
  <2> QED
    BY <2>3 DEF T
<1>12. Sums(g) \in [0 .. n -> Int]
  <2>1. Def(Sums(g)) \in [0 .. n -> Int]
    BY <1>8, <1>11
  <2> QED
    BY <1>8, <2>1
<1>13. SumOf(g) = Sums(g)[N - 1]
  BY DEF SumOf, Sums
<1> QED
  BY <1>1, <1>9, <1>10, <1>12, <1>13

\* A function that is zero but for rank 0
LEMMA SumOfFirst ==
  ASSUME NEW g \in [Rank -> Int], \A r \in Rank : r # 0 => g[r] = 0
  PROVE  SumOf(g) = g[0]
<1> DEFINE n == N - 1
           T == {i \in 0 .. n : Sums(g)[i] = g[0]}
<1>1. n \in Nat /\ Rank = 0 .. n
  BY SizeAssumption DEF Rank
<1>2. /\ SumOf(g) = Sums(g)[n] /\ Sums(g)[0] = g[0]
      /\ \A i \in 1 .. n : Sums(g)[i] = Sums(g)[i - 1] + g[i]
  BY SumsProps
<1>3. 0 \in T
  BY <1>1, <1>2
<1>4. ASSUME NEW i \in 1 .. n, i - 1 \in T PROVE i \in T
  <2>1. i \in Rank /\ i # 0 /\ g[0] \in Int
    BY <1>1
  <2>2. g[i] = 0 /\ Sums(g)[i - 1] = g[0]
    BY <1>4, <2>1
  <2> QED
    BY <1>1, <1>2, <2>1, <2>2
<1> HIDE DEF T
<1>5. 0 .. n \subseteq T
  <2> HIDE DEF n
  <2> QED
    BY <1>1, <1>3, <1>4, IndexInduction
<1> QED
  BY <1>1, <1>2, <1>5 DEF T

\* Adding d at one place adds d to the sum.
LEMMA SumOfChanged ==
  ASSUME NEW g \in [Rank -> Int], NEW h \in [Rank -> Int], NEW k \in Rank, NEW d \in Int,
         \A r \in Rank : h[r] = IF r = k THEN g[r] + d ELSE g[r]
  PROVE  SumOf(h) = SumOf(g) + d
<1> DEFINE n == N - 1
           T == {i \in 0 .. n : Sums(h)[i] = IF i < k THEN Sums(g)[i] ELSE Sums(g)[i] + d}
<1>1. n \in Nat /\ Rank = 0 .. n /\ k \in 0 .. n
  BY SizeAssumption DEF Rank
<1>2. /\ SumOf(g) = Sums(g)[n] /\ Sums(g)[0] = g[0]
      /\ \A i \in 1 .. n : Sums(g)[i] = Sums(g)[i - 1] + g[i]
      /\ SumOf(h) = Sums(h)[n] /\ Sums(h)[0] = h[0]
      /\ \A i \in 1 .. n : Sums(h)[i] = Sums(h)[i - 1] + h[i]
  BY SumsProps
<1>3. \A i \in 0 .. n : Sums(g)[i] \in Int /\ g[i] \in Int
  <2>1. Sums(g) \in [Rank -> Int]
    BY SumsProps
  <2> QED
    BY <1>1, <2>1
<1>4. 0 \in T
  BY <1>1, <1>2, <1>3
<1>5. ASSUME NEW i \in 1 .. n, i - 1 \in T PROVE i \in T
  <2>1. i \in 0 .. n /\ i - 1 \in 0 .. n
    BY <1>1
  <2>2. /\ Sums(h)[i - 1] = IF i - 1 < k THEN Sums(g)[i - 1] ELSE Sums(g)[i - 1] + d
        /\ h[i] = IF i = k THEN g[i] + d ELSE g[i]
        /\ Sums(g)[i - 1] \in Int /\ g[i] \in Int
    BY <1>1, <1>3, <1>5, <2>1
  <2>3. Sums(h)[i] = Sums(h)[i - 1] + h[i] /\ Sums(g)[i] = Sums(g)[i - 1] + g[i]
    BY <1>2
  <2>4. Sums(h)[i] = IF i < k THEN Sums(g)[i] ELSE Sums(g)[i] + d
    BY <1>1, <2>2, <2>3
  <2> QED
    BY <2>1, <2>4
<1> HIDE DEF T
<1>6. 0 .. n \subseteq T
  <2> HIDE DEF n
  <2> QED
    BY <1>1, <1>4, <1>5, IndexInduction
<1>7. n \in T /\ ~(n < k)
  BY <1>1, <1>6
<1> QED
  BY <1>2, <1>7 DEF T

\* A sum of N counters is below N * W.
LEMMA SumOfBound ==
  ASSUME NEW g \in [Rank -> Count]
  PROVE  SumOf(g) \in 0 .. N * W
<1> DEFINE n == N - 1
           T == {i \in 0 .. n : Sums(g)[i] \in 0 .. (i + 1) * W}
<1>1. n \in Nat /\ Rank = 0 .. n /\ W \in Nat
  BY SizeAssumption DEF Rank
<1>2. g \in [Rank -> Int] /\ \A i \in 0 .. n : g[i] \in 0 .. W
  BY <1>1 DEF Count
<1>3. /\ SumOf(g) = Sums(g)[n] /\ Sums(g)[0] = g[0]
      /\ \A i \in 1 .. n : Sums(g)[i] = Sums(g)[i - 1] + g[i]
  BY <1>2, SumsProps
<1>4. 0 \in T
  <2>1. g[0] \in 0 .. W /\ (0 + 1) * W = W
    BY <1>1, <1>2
  <2> QED
    BY <1>1, <1>3, <2>1
<1>5. ASSUME NEW i \in 1 .. n, i - 1 \in T PROVE i \in T
  <2>1. i \in 0 .. n /\ i \in Nat
    BY <1>1
  <2>2. Sums(g)[i - 1] \in 0 .. i * W
    <3>1. Sums(g)[i - 1] \in 0 .. ((i - 1) + 1) * W
      BY <1>5
    <3>2. (i - 1) + 1 = i
      BY <2>1
    <3> QED
      BY <3>1, <3>2
  <2>3. (i + 1) * W = i * W + W /\ i * W \in Nat
    BY <1>1, <2>1
  <2>4. Sums(g)[i] = Sums(g)[i - 1] + g[i] /\ g[i] \in 0 .. W
    BY <1>2, <1>3, <2>1
  <2> DEFINE p == i * W
  <2> HIDE DEF p
  <2>5. p \in Nat /\ Sums(g)[i - 1] \in 0 .. p
    BY <2>2, <2>3 DEF p
  <2>6. Sums(g)[i - 1] + g[i] \in 0 .. p + W
    BY <1>1, <2>4, <2>5
  <2> QED
    BY <2>1, <2>3, <2>4, <2>6 DEF p
<1> HIDE DEF T
<1>6. 0 .. n \subseteq T
  <2> HIDE DEF n
  <2> QED
    BY <1>1, <1>4, <1>5, IndexInduction
<1>7. n \in T
  BY <1>1, <1>6
<1>8. n + 1 = N
  BY SizeAssumption
<1> QED
  BY <1>3, <1>7, <1>8 DEF T

\* A bounded set of numbers has a maximum.
LEMMA MaxProps ==
  ASSUME NEW b \in Nat, NEW S \in SUBSET (0 .. b), S # {}
  PROVE  Max(S) \in S /\ \A x \in S : x <= Max(S)
<1> DEFINE T == {b - x : x \in S}
<1>1. T \in SUBSET Nat /\ T # {}
  OBVIOUS
<1> HIDE DEF T
<1>2. PICK y \in T : \A z \in T : y <= z
  BY <1>1, LeastNat
<1>3. PICK x \in S : y = b - x
  BY <1>2 DEF T
<1>4. \A z \in S : x >= z
  <2> TAKE z \in S
  <2>1. b - z \in T
    BY DEF T
  <2>2. b - x <= b - z
    BY <1>2, <1>3, <2>1
  <2> QED
    BY <2>2
<1>5. Max(S) \in S /\ \A z \in S : Max(S) >= z
  BY <1>3, <1>4 DEF Max
<1> QED
  BY <1>5
-------------------------------------------------------------------------------
(* The merge *)

\* What the graphs added so far say about a channel
Parts(l) == [r \in Rank |-> IF r \in Added THEN m_traffic[r][l] ELSE 0]

LEMMA ZeroRank == 0 \in Rank
BY SizeAssumption DEF Rank

\* Sums of what was added
LEMMA PartsType ==
  ASSUME GraphTypes(Int), NEW l \in Link
  PROVE  Parts(l) \in [Rank -> Int] /\ SumOf(Parts(l)) \in 0 .. N * W
<1>1. Parts(l) \in [Rank -> Count]
  BY SizeAssumption DEF Parts, GraphTypes, Count
<1>2. Parts(l) \in [Rank -> Int]
  BY <1>1 DEF Count
<1> QED
  BY <1>1, <1>2, SumOfBound

\* Rank 0's weights while it merges
LEMMA WeightBound ==
  ASSUME GraphInv, 0 \in merging, NEW l \in Link
  PROVE  weight[0][l] = SumOf(Parts(l)) /\ weight[0][l] \in 0 .. N * W
<1>1. weight[0][l] = SumOf(Parts(l))
  BY DEF GraphInv, SumsSoFar, Parts
<1> QED
  BY <1>1, PartsType DEF GraphInv

\* A step that leaves the merge alone keeps what was merged so far.
LEMMA MergeStays ==
  ASSUME GraphInv, merging' = merging, queue' = queue, weight' = weight, max_traffic' = max_traffic,
         \A r \in merging : m_traffic'[r] = m_traffic[r]
  PROVE  QueueIsFresh' /\ SumsSoFar' /\ MaxSoFar'
<1>1. QueueIsFresh /\ SumsSoFar /\ MaxSoFar
  BY DEF GraphInv
<1>2. Added' = Added /\ Added \subseteq merging
  BY DEF Added
<1>3. QueueIsFresh'
  BY <1>1, <1>2 DEF QueueIsFresh
<1>4. ASSUME NEW l \in Link PROVE Parts(l)' = Parts(l)
  BY <1>2 DEF Parts
<1>5. SumsSoFar'
  <2> SUFFICES ASSUME 0 \in merging, NEW l \in Link PROVE weight[0][l] = SumOf(Parts(l)')
    BY DEF SumsSoFar, Parts
  <2> QED
    BY <1>4, WeightBound
<1>6. MaxSoFar'
  BY <1>1, <1>2 DEF MaxSoFar
<1> QED
  BY <1>3, <1>5, <1>6

LEMMA GraphInit == Init => GraphInv /\ TypeOK
<1> SUFFICES ASSUME Init PROVE GraphInv /\ TypeOK
  OBVIOUS
<1>1. merging = {} /\ queue = {} /\ Added = {}
  BY DEF Init, Added
<1>2. m_traffic \in [Rank -> [Link -> Count]]
  <2>1. Garbage \cup {0} \subseteq Count
    BY GarbageAssumption, SizeAssumption DEF Count
  <2>2. m_traffic \in [Rank -> [Link -> Garbage \cup {0}]]
    BY DEF Init
  <2> QED
    BY <2>1, <2>2
<1>3. N * W \in Nat
  BY SizeAssumption
<1>4. load \in [Rank -> [Node -> Count]] /\ weight \in [Rank -> [Link -> {0}]]
  BY SizeAssumption DEF Init, Zero, Count
<1>5. max_traffic \in 0 .. N * W /\ m_iterationNum \in [Rank -> 0 .. MaxIteration]
  BY <1>3, WorkAssumption DEF Init
<1>6. GraphTypes(Int) /\ GraphTypes(0 .. N * W)
  BY <1>1, <1>2, <1>3, <1>4, <1>5 DEF GraphTypes
<1>7. QueueIsFresh /\ SumsSoFar /\ MaxSoFar
  BY <1>1, ZeroRank DEF QueueIsFresh, SumsSoFar, MaxSoFar
<1> QED
  BY <1>6, <1>7 DEF GraphInv, TypeOK

\* Every step keeps the invariant; if rank 0 is not alone, also the types.
LEMMA GraphStep ==
  /\ GraphInv /\ [Next]_vars => GraphInv'
  /\ GraphInv /\ TypeOK /\ N > 1 /\ [Next]_vars => TypeOK'
<1> DEFINE B == 0 .. N * W
<1> SUFFICES ASSUME GraphInv, [Next]_vars
             PROVE  GraphInv' /\ (TypeOK /\ N > 1 => TypeOK')
  OBVIOUS
<1>1. GraphTypes(Int) /\ QueueIsFresh /\ SumsSoFar /\ MaxSoFar
  BY DEF GraphInv
<1>2. N * W \in Nat /\ \A x \in Count : x \in Int /\ x \in B
  <2>1. N * W >= W /\ N * W \in Nat
    BY SizeAssumption
  <2>2. W \in Nat
    BY SizeAssumption
  <2> DEFINE p == N * W
  <2> HIDE DEF p
  <2>3. p >= W /\ p \in Nat
    BY <2>1 DEF p
  <2>4. \A x \in Count : x \in Int /\ x \in 0 .. p
    BY <2>2, <2>3 DEF Count
  <2> QED
    BY <2>1, <2>4 DEF p
<1>3. \A x \in Count : (x + 1) % W \in Count
  BY SizeAssumption DEF Count
<1> HIDE DEF B
\* Steps of the simulation between the merges
<1>4. ASSUME merging' = merging, queue' = queue, weight' = weight, max_traffic' = max_traffic,
             m_iterationNum' = m_iterationNum, \A r \in merging : m_traffic'[r] = m_traffic[r],
             m_traffic' \in [Rank -> [Link -> Count]], load' \in [Rank -> [Node -> Count]]
      PROVE  GraphInv' /\ (TypeOK => TypeOK')
  <2>1. GraphTypes(Int)' /\ (GraphTypes(0 .. N * W) => GraphTypes(0 .. N * W)')
    BY <1>1, <1>4 DEF GraphTypes
  <2> QED
    BY <1>4, <2>1, MergeStays DEF GraphInv, TypeOK
<1>5. ASSUME NEW r \in Rank, NEW n \in Node, IncNodeLoad(r, n)
      PROVE  GraphInv' /\ (TypeOK => TypeOK')
  <2>1. load' \in [Rank -> [Node -> Count]]
    BY <1>1, <1>3, <1>5 DEF IncNodeLoad, GraphTypes
  <2> QED
    BY <1>1, <1>4, <1>5, <2>1 DEF IncNodeLoad, GraphTypes
<1>6. ASSUME NEW r \in Rank, NEW l \in Link, TransmitStart(r, l)
      PROVE  GraphInv' /\ (TypeOK => TypeOK')
  <2>1. m_traffic' = [m_traffic EXCEPT ![r][l] = (@ + 1) % W] /\ r \notin merging
    BY <1>6 DEF TransmitStart
  <2>2. m_traffic' \in [Rank -> [Link -> Count]]
    BY <1>1, <1>3, <2>1 DEF GraphTypes
  <2>3. \A q \in merging : m_traffic'[q] = m_traffic[q]
    BY <1>1, <2>1 DEF GraphTypes
  <2> QED
    BY <1>1, <1>4, <1>6, <2>2, <2>3 DEF TransmitStart, GraphTypes
<1>7. ASSUME NEW r \in Rank, EnterMerge(r) PROVE GraphInv' /\ (TypeOK => TypeOK')
  <2>1. /\ r \notin merging /\ merging' = merging \cup {r}
        /\ m_iterationNum[r] < MaxIteration
        /\ m_iterationNum' = [m_iterationNum EXCEPT ![r] = @ + 1]
        /\ weight' = [weight EXCEPT ![r] = m_traffic[r]]
        /\ UNCHANGED <<m_traffic, load>>
    BY <1>7 DEF EnterMerge, UpdateNetworkGraph
  <2> DEFINE g == [from |-> r, load |-> load[r], weight |-> m_traffic[r]]
  <2>2. /\ queue' = IF r = 0 THEN queue ELSE queue \cup {g}
        /\ max_traffic' = IF r = 0 THEN 0 ELSE max_traffic
    BY <1>7 DEF EnterMerge, UpdateNetworkGraph
  <2>3. m_iterationNum' \in [Rank -> 0 .. MaxIteration]
    BY <1>1, <2>1, WorkAssumption DEF GraphTypes
  <2>4. m_traffic[r] \in [Link -> Count] /\ m_traffic[r] \in [Link -> Int] /\ m_traffic[r] \in [Link -> B]
    BY <1>1, <1>2 DEF GraphTypes
  <2>5. g \in [from : Rank, load : [Node -> Count], weight : [Link -> Count]]
    BY <1>1, <2>4 DEF GraphTypes
  <2>6. max_traffic' \in 0 .. N * W
    BY <1>1, <1>2, <2>2 DEF GraphTypes
  <2>7. GraphTypes(Int)'
    BY <1>1, <2>1, <2>2, <2>3, <2>4, <2>5, <2>6 DEF GraphTypes
  <2>8. TypeOK => TypeOK'
    <3>1. GraphTypes(B) => GraphTypes(B)'
      BY <1>1, <2>1, <2>2, <2>3, <2>4, <2>5, <2>6 DEF GraphTypes
    <3> QED
      BY <3>1 DEF TypeOK, B
  <2>9. g.from = r /\ g.weight = m_traffic[r] /\ merging # Rank
    BY <2>1
  <2> HIDE DEF g
  <2>10. \A h \in queue : h.from # r /\ h.from # 0
    BY <1>1, <2>1 DEF QueueIsFresh
  <2>11. Added' = IF r = 0 THEN Added \cup {0} ELSE Added
    BY <2>1, <2>2, <2>9, <2>10 DEF Added
  <2>12. Added = merging \cap {0}
    BY <1>1, <2>9 DEF QueueIsFresh
  <2>13. QueueIsFresh'
    <3>1. \A h \in queue' : h.from \in merging' \ {0} /\ h.weight = m_traffic'[h.from]
      BY <1>1, <2>1, <2>2, <2>9, <2>10 DEF QueueIsFresh
    <3>2. \A h, k \in queue' : h.from = k.from => h = k
      BY <1>1, <2>2, <2>9, <2>10 DEF QueueIsFresh
    <3>3. Added' = merging' \cap {0}
      BY <2>1, <2>11, <2>12
    <3> QED
      BY <3>1, <3>2, <3>3 DEF QueueIsFresh
  <2>14. CASE r = 0
    <3>1. Added' = {0} /\ max_traffic' = 0
      BY <2>1, <2>2, <2>11, <2>12, <2>14
    <3>2. SumsSoFar'
      <4> SUFFICES ASSUME NEW l \in Link PROVE weight'[0][l] = SumOf(Parts(l)')
        BY DEF SumsSoFar, Parts
      <4>1. weight'[0][l] = m_traffic[0][l]
        BY <1>1, <2>1, <2>14, ZeroRank DEF GraphTypes
      <4>2. \A q \in Rank : Parts(l)'[q] = IF q = 0 THEN m_traffic[0][l] ELSE 0
        BY <2>1, <3>1 DEF Parts
      <4>3. Parts(l)' \in [Rank -> Int]
        <5>1. m_traffic[0][l] \in Int
          BY <2>4, <2>14
        <5>2. Parts(l)' = [q \in Rank |-> IF q = 0 THEN m_traffic[0][l] ELSE 0]
          BY <2>1, <3>1 DEF Parts
        <5> HIDE DEF Parts
        <5> QED
          BY <5>1, <5>2
      <4> HIDE DEF Parts
      <4>4. SumOf(Parts(l)') = Parts(l)'[0]
        BY <4>2, <4>3, SumOfFirst
      <4> QED
        BY <4>1, <4>2, <4>4, ZeroRank
    <3>3. MaxSoFar'
      BY <3>1 DEF MaxSoFar
    <3> QED
      BY <2>7, <2>8, <2>13, <3>2, <3>3 DEF GraphInv
  <2>15. CASE r # 0
    <3>1. /\ Added' = Added /\ max_traffic' = max_traffic /\ weight'[0] = weight[0]
          /\ (0 \in merging') = (0 \in merging) /\ m_traffic' = m_traffic
      BY <1>1, <2>1, <2>2, <2>11, <2>15, ZeroRank DEF GraphTypes
    <3>2. SumsSoFar'
      BY <1>1, <3>1 DEF SumsSoFar
    <3>3. MaxSoFar'
      BY <1>1, <3>1 DEF MaxSoFar
    <3> QED
      BY <2>7, <2>8, <2>13, <3>2, <3>3 DEF GraphInv
  <2> QED
    BY <2>14, <2>15
<1>8. CASE MergeGraph
  <2>1. PICK g \in queue :
          /\ queue' = queue \ {g}
          /\ load' = [load EXCEPT ![0] = [n \in Node |-> (@[n] + g.load[n]) % W]]
          /\ weight' = [weight EXCEPT ![0] = [l \in Link |-> @[l] + g.weight[l]]]
          /\ max_traffic' = MaxOfSums(g)
    BY <1>8 DEF MergeGraph
  <2>2. merging = Rank /\ UNCHANGED <<merging, m_traffic, m_iterationNum>>
    BY <1>8 DEF MergeGraph
  <2>3. /\ g.from \in Rank /\ g.from # 0 /\ g.weight = m_traffic[g.from] /\ 0 \in merging
        /\ g.load \in [Node -> Count] /\ g.weight \in [Link -> Count]
        /\ \A h \in queue : h.from = g.from => h = g
    BY <1>1, <2>2, ZeroRank DEF QueueIsFresh, GraphTypes
  <2>4. load' \in [Rank -> [Node -> Count]]
    <3>1. \A n \in Node : (load[0][n] + g.load[n]) % W \in Count
      BY <1>1, <2>3, SizeAssumption, ZeroRank DEF GraphTypes, Count
    <3> QED
      BY <1>1, <2>1, <3>1, ZeroRank DEF GraphTypes
  <2>5. \A l \in Link : weight'[0][l] = weight[0][l] + g.weight[l]
    BY <1>1, <2>1, ZeroRank DEF GraphTypes
  <2>6. Added' = Added \cup {g.from} /\ g.from \notin Added /\ 0 \in Added
    BY <2>1, <2>2, <2>3, <1>1 DEF Added, QueueIsFresh
  <2>7. QueueIsFresh'
    BY <1>1, <2>1, <2>2 DEF QueueIsFresh
  <2>8. weight' \in [Rank -> [Link -> Int]]
    <3>1. \A l \in Link : weight[0][l] + g.weight[l] \in Int
      BY <1>1, <2>3, ZeroRank, SizeAssumption DEF GraphTypes, Count
    <3> QED
      BY <1>1, <2>1, <3>1, ZeroRank DEF GraphTypes
  <2>9. SumsSoFar'
    <3> SUFFICES ASSUME NEW l \in Link PROVE weight'[0][l] = SumOf(Parts(l)')
      BY DEF SumsSoFar, Parts
    <3> DEFINE d == g.weight[l]
    <3>1. d \in Int /\ d = m_traffic[g.from][l]
      BY <2>3, SizeAssumption DEF Count
    <3> HIDE DEF d
    <3>2. Parts(l) \in [Rank -> Int]
      BY <1>1, PartsType
    <3>3. ASSUME NEW r \in Rank
          PROVE  Parts(l)'[r] = IF r = g.from THEN Parts(l)[r] + d ELSE Parts(l)[r]
      BY <2>2, <2>6, <3>1, <3>3 DEF Parts
    <3>4. Parts(l)' \in [Rank -> Int]
      <4>1. Parts(l)' = [r \in Rank |-> Parts(l)'[r]]
        BY DEF Parts
      <4> HIDE DEF Parts
      <4> QED
        BY <3>1, <3>2, <3>3, <4>1
    <3> HIDE DEF Parts
    <3>5. SumOf(Parts(l)') = SumOf(Parts(l)) + d
      BY <2>3, <3>1, <3>2, <3>3, <3>4, SumOfChanged
    <3> QED
      BY <2>3, <2>5, <3>5, WeightBound DEF d
  <2> DEFINE S == {max_traffic} \cup {weight[0][l] + g.weight[l] : l \in Link}
  <2>10. \A l \in Link : weight'[0][l] \in B
    <3> SUFFICES ASSUME NEW l \in Link PROVE weight'[0][l] \in B
      OBVIOUS
    <3>1. weight'[0][l] = SumOf(Parts(l)')
      BY <2>2, <2>3, <2>9 DEF SumsSoFar, Parts
    <3>2. Parts(l)' \in [Rank -> Count]
      BY <1>1, <2>2, SizeAssumption DEF Parts, GraphTypes, Count
    <3> HIDE DEF Parts
    <3> QED
      BY <3>1, <3>2, SumOfBound DEF B
  <2>11. /\ max_traffic' \in S /\ max_traffic' \in 0 .. N * W
         /\ \A x \in S : x <= max_traffic'
    <3>1. S \in SUBSET (0 .. N * W) /\ S # {}
      BY <1>1, <2>5, <2>10 DEF GraphTypes, B
    <3>2. max_traffic' = Max(S)
      BY <2>1 DEF MaxOfSums
    <3> HIDE DEF S
    <3> QED
      BY <1>2, <3>1, <3>2, MaxProps
  <2>12. \A l \in Link : weight'[0][l] \in S
    BY <2>5
  <2>13. max_traffic' = max_traffic \/ \E l \in Link : max_traffic' = weight'[0][l]
    BY <2>5, <2>11
  <2>14. max_traffic <= max_traffic' /\ \A l \in Link : weight'[0][l] <= max_traffic'
    BY <2>11, <2>12
  <2> HIDE DEF S
  <2>15. max_traffic \in Nat /\ max_traffic' \in Nat
    BY <1>1, <1>2, <2>11 DEF GraphTypes
  <2>16. \A l \in Link : /\ weight[0][l] \in Int /\ weight'[0][l] \in Int
                         /\ weight[0][l] <= weight'[0][l]
    BY <1>1, <2>3, <2>5, <2>8, ZeroRank, SizeAssumption DEF GraphTypes, Count
  <2>17. max_traffic' = 0 \/ \E l \in Link : weight'[0][l] = max_traffic'
    <3>1. CASE max_traffic' = max_traffic /\ max_traffic # 0
      <4>1. PICK l \in Link : weight[0][l] = max_traffic
        BY <1>1, <2>3, <3>1 DEF MaxSoFar
      <4>2. weight[0][l] <= weight'[0][l] /\ weight'[0][l] <= max_traffic' /\ weight'[0][l] \in Int
        BY <2>14, <2>16
      <4> QED
        BY <2>15, <3>1, <4>1, <4>2
    <3>2. CASE \E l \in Link : max_traffic' = weight'[0][l]
      BY <3>2
    <3> QED
      BY <2>13, <3>1, <3>2
  <2>18. MaxSoFar'
    <3>1. Added' # {0}
      BY <2>3, <2>6
    <3> QED
      BY <2>14, <2>17, <3>1 DEF MaxSoFar
  <2>19. queue' \subseteq [from : Rank, load : [Node -> Count], weight : [Link -> Count]]
    BY <1>1, <2>1 DEF GraphTypes
  <2>20. GraphTypes(Int)'
    BY <1>1, <2>2, <2>4, <2>8, <2>11, <2>19 DEF GraphTypes
  <2>21. TypeOK => TypeOK'
    <3>1. ASSUME GraphTypes(B) PROVE GraphTypes(B)'
      <4>1. weight' \in [Rank -> [Link -> B]]
        <5>1. \A l \in Link : weight[0][l] + g.weight[l] \in B
          BY <2>5, <2>10
        <5> QED
          BY <2>1, <3>1, <5>1, ZeroRank DEF GraphTypes
      <4> QED
        BY <1>1, <2>2, <2>4, <2>11, <2>19, <4>1 DEF GraphTypes
    <3> QED
      BY <3>1 DEF TypeOK, B
  <2> QED
    BY <2>7, <2>9, <2>18, <2>20, <2>21 DEF GraphInv
<1>9. CASE WriteWeights
  <2>1. /\ merging = Rank /\ queue = {} /\ merging' = {} /\ queue' = queue
        /\ written' = [l \in Link |-> max_traffic - weight[0][l]]
        /\ weight' = [weight EXCEPT ![0] = written']
        /\ UNCHANGED <<m_traffic, load, max_traffic, m_iterationNum>>
    BY <1>9 DEF WriteWeights
  <2>2. Added' = {}
    BY <2>1 DEF Added
  <2>3. QueueIsFresh' /\ SumsSoFar' /\ MaxSoFar'
    BY <2>1, <2>2 DEF QueueIsFresh, SumsSoFar, MaxSoFar
  <2>4. \A l \in Link : max_traffic - weight[0][l] \in Int
    BY <1>1, <1>2, ZeroRank DEF GraphTypes
  <2>5. GraphTypes(Int)'
    BY <1>1, <2>1, <2>4 DEF GraphTypes
  <2>6. ASSUME N > 1, GraphTypes(B) PROVE GraphTypes(B)'
    <3>1. 0 \in merging /\ Added # {0}
      <4>1. 1 \in Rank
        BY <2>6, SizeAssumption DEF Rank
      <4> QED
        BY <2>1, <4>1, ZeroRank DEF Added
    <3>2. ASSUME NEW l \in Link PROVE max_traffic - weight[0][l] \in 0 .. N * W
      <4>1. weight[0][l] <= max_traffic
        BY <1>1, <3>1 DEF MaxSoFar
      <4>2. weight[0][l] \in 0 .. N * W /\ max_traffic \in 0 .. N * W
        BY <1>1, <3>1, WeightBound DEF GraphTypes
      <4> DEFINE p == N * W
      <4> HIDE DEF p
      <4>3. weight[0][l] \in 0 .. p /\ max_traffic \in 0 .. p /\ p \in Nat
        BY <1>2, <4>2 DEF p
      <4>4. max_traffic - weight[0][l] \in 0 .. p
        BY <4>1, <4>3
      <4> QED
        BY <4>4 DEF p
    <3>3. weight' \in [Rank -> [Link -> B]]
      BY <2>1, <2>6, <3>2 DEF GraphTypes, B
    <3> QED
      BY <1>1, <2>1, <3>3 DEF GraphTypes
  <2> QED
    BY <2>3, <2>5, <2>6 DEF GraphInv, TypeOK, B
<1>10. CASE UNCHANGED vars
  BY <1>1, <1>4, <1>10 DEF vars, GraphTypes
<1> QED
  BY <1>5, <1>6, <1>7, <1>8, <1>9, <1>10 DEF Next, Done

\* On more than one rank the weights of every graph, those written for the
\* clustering too, are never negative, and no counter leaves its type.
THEOREM GraphTypeCorrect ==
  ASSUME N > 1
  PROVE  Spec => []TypeOK
<1>1. GraphInv /\ TypeOK /\ [Next]_vars => (GraphInv /\ TypeOK)'
  BY GraphStep
<1> QED
  BY <1>1, GraphInit, PTL DEF Spec

\* When the graphs are merged, an edge's weight is the traffic of its channel on
\* all ranks: in every iteration, whatever the order in which ranks enter the
\* merge and their graphs are taken from the queue.
THEOREM TrafficIsMerged == Spec => []TrafficMerged
<1>1. GraphInv => TrafficMerged
  <2> SUFFICES ASSUME GraphInv, merging = Rank, queue = {}, NEW l \in Link
               PROVE  weight[0][l] = Total(m_traffic, l)
    BY DEF TrafficMerged, Merged
  <2>1. Added = Rank
    BY DEF Added
  <2>2. Parts(l) = [r \in Rank |-> m_traffic[r][l]]
    BY <2>1 DEF Parts
  <2>3. weight[0][l] = SumOf(Parts(l))
    BY ZeroRank, WeightBound
  <2> QED
    BY <2>2, <2>3 DEF Total
<1> QED
  BY <1>1, GraphInit, GraphStep, PTL DEF Spec

\* The maximum by which rank 0 divides is that of the merged weights: none is
\* above it, and some edge has it unless nothing was sent.
THEOREM WeightsAreNormalised == Spec => []WeightsNormalised
<1>1. GraphInv => WeightsNormalised
  <2> SUFFICES ASSUME GraphInv, merging = Rank, queue = {}, N > 1
               PROVE  /\ \A l \in Link : weight[0][l] <= max_traffic
                      /\ max_traffic = 0 \/ \E l \in Link : weight[0][l] = max_traffic
    BY DEF WeightsNormalised, Merged
  <2>1. 0 \in Rank /\ 1 \in Rank
    BY SizeAssumption DEF Rank
  <2>2. 0 \in merging /\ Added # {0}
    BY <2>1 DEF Added
  <2> QED
    BY <2>2 DEF GraphInv, MaxSoFar
<1> QED
  BY <1>1, GraphInit, GraphStep, PTL DEF Spec
===============================================================================
