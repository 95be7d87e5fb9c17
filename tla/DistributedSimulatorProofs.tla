---------------------- MODULE DistributedSimulatorProofs ----------------------
(***************************************************************************)
(* The protocol of DistributedSimulator is safe for every number of ranks, *)
(* every topology and every assignment of nodes to ranks; so is the load   *)
(* balancer of LoadBalancing on top of it.                                 *)
(***************************************************************************)
EXTENDS LoadBalancing, RecursionLemmas, FiniteSetTheorems, TLAPS

-------------------------------------------------------------------------------
(* The scan of CalculateLookAhead. *)

\* The devices are a list of records.
LEMMA DevicesType ==
  /\ Len(Devices) \in Nat
  /\ \A i \in 1 .. Len(Devices) : Devices[i] \in [node : Node, link : Link]
<1> DEFINE S == [node : Node, link : Link]
<1>1. Devices \in Seq(S)
  BY DevicesAssumption
<1> HIDE DEF S
<1>2. Len(Devices) \in Nat /\ \A i \in 1 .. Len(Devices) : Devices[i] \in S
  BY <1>1
<1> QED
  BY <1>2 DEF S

\* The scan is a function that ScanDevice computes device by device.
LEMMA ScanProps ==
  ASSUME NEW r \in Rank
  PROVE  /\ Scan(r) \in [0 .. Len(Devices) -> Nat]
         /\ Scan(r)[0] = 0
         /\ \A i \in 1 .. Len(Devices) :
              Scan(r)[i] = ScanDevice(r, Scan(r)[i - 1], Devices[i])
<1> DEFINE n == Len(Devices)
           Def(f) == [i \in 0 .. n |->
                        IF i = 0 THEN 0 ELSE ScanDevice(r, f[i - 1], Devices[i])]
           step == [i \in 1 .. n |-> [l \in Nat |-> ScanDevice(r, l, Devices[i])]]
<1>1. n \in Nat /\ \A i \in 1 .. n : Devices[i] \in [node : Node, link : Link]
  BY DevicesType
<1>2. ASSUME NEW i \in 1 .. n, NEW l \in Nat
      PROVE  ScanDevice(r, l, Devices[i]) \in Nat
  <2> Delay[Devices[i].link] \in Nat
    BY <1>1, LinkAssumption
  <2> QED
    BY DEF ScanDevice
<1>3. step \in [1 .. n -> [Nat -> Nat]]
  BY <1>2
<1>4. PICK f \in [0 .. n -> Nat] : IsLoop(f, 0, n, step)
  <2> 0 \in Nat
    OBVIOUS
  <2> HIDE DEF n, step
  <2> QED
    BY <1>1, <1>3, LoopExists, Zenon
<1>5. ASSUME NEW i \in 1 .. n PROVE f[i] = ScanDevice(r, f[i - 1], Devices[i])
  <2> f[i - 1] \in Nat
    BY <1>1
  <2> QED
    BY <1>4 DEF IsLoop
<1>6. f = Def(f)
  BY <1>1, <1>4, <1>5 DEF IsLoop
<1>7. Scan(r) = CHOOSE g : g = Def(g)
  BY DEF Scan
<1>8. Scan(r) = Def(Scan(r))
  <2> HIDE DEF Def
  <2> QED
    BY <1>6, <1>7
<1>9. ASSUME NEW i \in 1 .. n
      PROVE  Scan(r)[i] = ScanDevice(r, Scan(r)[i - 1], Devices[i])
  BY <1>1, <1>8
<1>10. Scan(r)[0] = 0
  BY <1>1, <1>8
<1>11. \A i \in 0 .. n : Scan(r)[i] \in Nat
  <2> DEFINE T == {i \in 0 .. n : Scan(r)[i] \in Nat}
  <2>1. 0 \in T
    BY <1>1, <1>10
  <2>2. ASSUME NEW i \in 1 .. n, i - 1 \in T PROVE i \in T
    <3>1. Scan(r)[i - 1] \in Nat /\ i \in 0 .. n
      BY <1>1, <2>2
    <3>2. ScanDevice(r, Scan(r)[i - 1], Devices[i]) \in Nat
      BY <1>2, <3>1
    <3> QED
      BY <1>9, <3>1, <3>2
  <2> HIDE DEF T
  <2>3. 0 .. n \subseteq T
    <3> HIDE DEF n
    <3> QED
      BY <1>1, <2>1, <2>2, IndexInduction
  <2> QED
    BY <2>3 DEF T
<1>12. Scan(r) \in [0 .. n -> Nat]
  <2>1. Def(Scan(r)) \in [0 .. n -> Nat]
    BY <1>8, <1>11
  <2> QED
    BY <1>8, <2>1
<1> QED
  BY <1>9, <1>10, <1>12

\* A lookahead is a natural number.
LEMMA LookAheadType == \A r \in Rank : LookAhead(r) \in Nat
<1> TAKE r \in Rank
<1>1. Len(Devices) \in Nat
  BY DevicesType
<1> QED
  BY <1>1, ScanProps DEF LookAhead

\* When no delay between ranks is zero, the lookahead of a rank is at most the
\* delay of every channel that leads to another rank.
LEMMA LookAheadBound ==
  ASSUME NEW r \in Rank, NEW k \in 1 .. Len(Devices),
         PositiveCrossDelays, IsCross(r, Devices[k])
  PROVE  LookAhead(r) <= Delay[Devices[k].link]
<1> DEFINE n == Len(Devices)
           Good(j) == \A i \in 1 .. j : IsCross(r, Devices[i]) =>
                        Scan(r)[j] > 0 /\ Scan(r)[j] <= Delay[Devices[i].link]
           T == {j \in 0 .. n : Good(j)}
<1>1. n \in Nat
  BY DevicesType
<1>2. \A i \in 1 .. n : Delay[Devices[i].link] \in Nat
  BY DevicesType, LinkAssumption
<1>3. \A i \in 0 .. n : Scan(r)[i] \in Nat
  BY ScanProps
<1>4. 0 \in T
  BY <1>1
<1>5. ASSUME NEW j \in 1 .. n, j - 1 \in T PROVE j \in T
  <2>1. Scan(r)[j] = ScanDevice(r, Scan(r)[j - 1], Devices[j])
    BY ScanProps
  <2>2. j - 1 \in 0 .. n /\ j \in 0 .. n
    BY <1>1
  <2>3. Scan(r)[j] \in Nat /\ Scan(r)[j - 1] \in Nat /\ Delay[Devices[j].link] \in Nat
    BY <1>2, <1>3, <2>2
  <2>4. IsCross(r, Devices[j]) => Delay[Devices[j].link] > 0
    BY DEF PositiveCrossDelays
  <2>5. IsCross(r, Devices[j]) =>
          /\ Scan(r)[j] > 0 /\ Scan(r)[j] <= Delay[Devices[j].link]
          /\ Scan(r)[j - 1] > 0 => Scan(r)[j] <= Scan(r)[j - 1]
    BY <2>1, <2>3, <2>4 DEF ScanDevice
  <2>6. ~IsCross(r, Devices[j]) => Scan(r)[j] = Scan(r)[j - 1]
    BY <2>1 DEF ScanDevice
  <2>7. ASSUME NEW i \in 1 .. j, IsCross(r, Devices[i])
        PROVE  Scan(r)[j] > 0 /\ Scan(r)[j] <= Delay[Devices[i].link]
    <3>1. CASE i = j
      BY <2>5, <2>7, <3>1
    <3>2. CASE i # j
      <4>1. i \in 1 .. (j - 1) /\ i \in 1 .. n
        BY <3>2, <1>1
      <4>2. Scan(r)[j - 1] > 0 /\ Scan(r)[j - 1] <= Delay[Devices[i].link]
        BY <1>5, <2>7, <4>1
      <4>3. Delay[Devices[i].link] \in Nat
        BY <1>2, <4>1
      <4> QED
        BY <2>3, <2>5, <2>6, <4>2, <4>3
    <3> QED
      BY <3>1, <3>2
  <2> QED
    BY <2>2, <2>7
<1> HIDE DEF T
<1>6. 0 .. n \subseteq T
  <2> HIDE DEF n
  <2> QED
    BY <1>1, <1>4, <1>5, IndexInduction
<1>7. n \in T
  BY <1>1, <1>6
<1>8. Scan(r)[n] <= Delay[Devices[k].link]
  BY <1>7 DEF T
<1> QED
  BY <1>2, <1>8 DEF LookAhead
-------------------------------------------------------------------------------
(* Sums of uint32_t counters. *)

\* A counter has at least one value, and counting keeps it in range.
LEMMA CounterWidth ==
  W \in Nat /\ W > 0 /\ \A c \in 0 .. W - 1 : (c + 1) % W \in 0 .. W - 1
<1>1. W \in Nat /\ W > 0
  BY CounterAssumption, FS_CardinalityType
<1> QED
  BY <1>1

\* Reduction of a sum of two reduced numbers
LEMMA ModSum ==
  ASSUME NEW a \in 0 .. W - 1, NEW b \in 0 .. W - 1
  PROVE  (a + b) % W = IF a + b < W THEN a + b ELSE a + b - W
<1>1. W \in Nat /\ W > 0
  BY CounterAssumption
<1>2. CASE a + b < W
  BY <1>1, <1>2
<1>3. CASE a + b >= W
  BY <1>1, <1>3
<1> QED
  BY <1>1, <1>2, <1>3

\* The partial sums are a function that the loop of Run computes.
LEMMA SumsProps ==
  ASSUME NEW f \in [Rank -> 0 .. W - 1]
  PROVE  /\ Sums(f) \in [Rank -> 0 .. W - 1]
         /\ Sums(f)[0] = f[0]
         /\ \A i \in 1 .. N - 1 : Sums(f)[i] = (Sums(f)[i - 1] + f[i]) % W
<1> DEFINE V == 0 .. W - 1
           n == N - 1
           Def(g) == [i \in 0 .. n |-> IF i = 0 THEN f[0] ELSE (g[i - 1] + f[i]) % W]
           step == [i \in 1 .. n |-> [l \in V |-> (l + f[i]) % W]]
<1>1. n \in Nat /\ Rank = 0 .. n
  BY RankAssumption DEF Rank
<1>2. ASSUME NEW i \in 0 .. n, NEW l \in V PROVE (l + f[i]) % W \in V
  <2> f[i] \in V
    BY <1>1
  <2>1. (l + f[i]) % W = IF l + f[i] < W THEN l + f[i] ELSE l + f[i] - W
    BY ModSum
  <2>2. W \in Nat
    BY CounterAssumption
  <2> QED
    BY <2>1, <2>2
<1>3. step \in [1 .. n -> [V -> V]] /\ f[0] \in V
  <2>1. ASSUME NEW i \in 1 .. n PROVE [l \in V |-> (l + f[i]) % W] \in [V -> V]
    <3>1. i \in 0 .. n
      BY <1>1
    <3>2. \A l \in V : (l + f[i]) % W \in V
      BY <1>2, <3>1
    <3> HIDE DEF V
    <3>3. QED
      BY <3>2
  <2>2. f[0] \in V
    BY <1>1
  <2>3. QED
    BY <2>1, <2>2
<1>4. PICK g \in [0 .. n -> V] : IsLoop(g, f[0], n, step)
  <2> HIDE DEF n, step, V
  <2> QED
    BY <1>1, <1>3, LoopExists, Zenon
<1>5. ASSUME NEW i \in 1 .. n PROVE g[i] = (g[i - 1] + f[i]) % W
  <2> g[i - 1] \in V
    BY <1>1
  <2> QED
    BY <1>4 DEF IsLoop
<1>6. g = Def(g)
  BY <1>1, <1>4, <1>5 DEF IsLoop
<1>7. Sums(f) = CHOOSE h : h = Def(h)
  BY DEF Sums
<1>8. Sums(f) = Def(Sums(f))
  <2> HIDE DEF Def
  <2> QED
    BY <1>6, <1>7
<1>9. ASSUME NEW i \in 1 .. n PROVE Sums(f)[i] = (Sums(f)[i - 1] + f[i]) % W
  BY <1>1, <1>8
<1>10. Sums(f)[0] = f[0]
  BY <1>1, <1>8
<1>11. \A i \in 0 .. n : Sums(f)[i] \in V
  <2> DEFINE T == {i \in 0 .. n : Sums(f)[i] \in V}
  <2>1. 0 \in T
    BY <1>1, <1>3, <1>10
  <2>2. ASSUME NEW i \in 1 .. n, i - 1 \in T PROVE i \in T
    <3>1. Sums(f)[i - 1] \in V /\ i \in 0 .. n
      BY <1>1, <2>2
    <3> QED
      BY <1>2, <1>9, <3>1
  <2> HIDE DEF T
  <2>3. 0 .. n \subseteq T
    <3> HIDE DEF n
    <3> QED
      BY <1>1, <2>1, <2>2, IndexInduction
  <2> QED
    BY <2>3 DEF T
<1>12. Sums(f) \in [0 .. n -> V]
  <2>1. Def(Sums(f)) \in [0 .. n -> V]
    BY <1>8, <1>11
  <2> QED
    BY <1>8, <2>1
<1> QED
  BY <1>1, <1>9, <1>10, <1>12

\* A total is a uint32_t.
LEMMA TotalType ==
  ASSUME NEW f \in [Rank -> 0 .. W - 1] PROVE Total(f) \in 0 .. W - 1
<1> N - 1 \in Rank
  BY RankAssumption DEF Rank
<1> QED
  BY SumsProps DEF Total

\* Counting one more message on one rank adds one to the total.
LEMMA TotalIncrement ==
  ASSUME NEW f \in [Rank -> 0 .. W - 1], NEW r \in Rank
  PROVE  Total([f EXCEPT ![r] = (f[r] + 1) % W]) = (Total(f) + 1) % W
<1> DEFINE n == N - 1
           V == 0 .. W - 1
           inc(x) == IF x + 1 < W THEN x + 1 ELSE 0
           g == [f EXCEPT ![r] = (f[r] + 1) % W]
           T == {i \in 0 .. n : Sums(g)[i] = IF i < r THEN Sums(f)[i] ELSE inc(Sums(f)[i])}
<1>1. n \in Nat /\ Rank = 0 .. n /\ r \in 0 .. n
  BY RankAssumption DEF Rank
<1>2. W \in Nat /\ W > 0
  BY CounterAssumption
<1>3. \A x \in V : inc(x) \in V /\ inc(x) = (x + 1) % W
  <2> TAKE x \in V
  <2>1. CASE W = 1
    BY <2>1
  <2>2. CASE W # 1
    <3> 1 \in V
      BY <1>2, <2>2
    <3> QED
      BY ModSum, <1>2
  <2> QED
    BY <2>1, <2>2
<1>4. f[r] \in V /\ g = [f EXCEPT ![r] = inc(f[r])] /\ g \in [Rank -> V]
  BY <1>3
<1>5. /\ \A i \in 0 .. n : Sums(f)[i] \in V /\ Sums(g)[i] \in V /\ f[i] \in V
      /\ Sums(f)[0] = f[0] /\ Sums(g)[0] = g[0]
      /\ \A i \in 1 .. n : Sums(f)[i] = (Sums(f)[i - 1] + f[i]) % W
      /\ \A i \in 1 .. n : Sums(g)[i] = (Sums(g)[i - 1] + g[i]) % W
  <2> HIDE DEF g
  <2>1. /\ Sums(f) \in [Rank -> V] /\ Sums(f)[0] = f[0]
        /\ \A i \in 1 .. n : Sums(f)[i] = (Sums(f)[i - 1] + f[i]) % W
    BY SumsProps
  <2>2. /\ Sums(g) \in [Rank -> V] /\ Sums(g)[0] = g[0]
        /\ \A i \in 1 .. n : Sums(g)[i] = (Sums(g)[i - 1] + g[i]) % W
    BY <1>4, SumsProps
  <2> QED
    BY <1>1, <2>1, <2>2
<1>6. 0 \in T
  BY <1>1, <1>4, <1>5
<1>7. ASSUME NEW i \in 1 .. n, i - 1 \in T PROVE i \in T
  <2> DEFINE a == Sums(f)[i - 1]
             b == f[i]
             c == Sums(g)[i - 1]
             d == g[i]
  <2>1. a \in V /\ b \in V /\ c \in V /\ d \in V /\ i \in 0 .. n
    <3> i \in 0 .. n /\ i - 1 \in 0 .. n
      BY <1>1
    <3> HIDE DEF g, n, V
    <3> QED
      BY <1>1, <1>4, <1>5
  <2>2. /\ Sums(f)[i] = IF a + b < W THEN a + b ELSE a + b - W
        /\ Sums(g)[i] = IF c + d < W THEN c + d ELSE c + d - W
    <3>1. Sums(f)[i] = (a + b) % W /\ Sums(g)[i] = (c + d) % W
      BY <1>5
    <3> HIDE DEF a, b, c, d
    <3> QED
      BY <2>1, <3>1, ModSum
  <2>3. c = IF i - 1 < r THEN a ELSE inc(a)
    BY <1>7
  <2>4. d = IF i = r THEN inc(b) ELSE b
    BY <1>1, <1>4, <2>1
  <2> HIDE DEF a, b, c, d
  <2>5. CASE i < r
    BY <1>1, <1>2, <2>1, <2>2, <2>3, <2>4, <2>5
  <2>6. CASE i = r
    BY <1>1, <1>2, <2>1, <2>2, <2>3, <2>4, <2>6
  <2>7. CASE i > r
    BY <1>1, <1>2, <2>1, <2>2, <2>3, <2>4, <2>7
  <2> QED
    BY <1>1, <2>5, <2>6, <2>7
<1> HIDE DEF T
<1>8. 0 .. n \subseteq T
  <2> HIDE DEF n
  <2> QED
    BY <1>1, <1>6, <1>7, IndexInduction
<1>9. n \in T
  BY <1>1, <1>8
<1>10. Sums(g)[n] = inc(Sums(f)[n])
  BY <1>1, <1>9 DEF T
<1> QED
  BY <1>1, <1>3, <1>5, <1>10 DEF Total
-------------------------------------------------------------------------------
(* The event queue, and what processing an event amounts to. *)

\* PeekNext returns the first event of a queue that is not empty.
LEMMA PeekNextProps ==
  ASSUME NEW r \in Rank, m_events[r] \in SUBSET Event, m_events[r] # {}
  PROVE  /\ PeekNext(r) \in m_events[r]
         /\ NextTs(r) \in Nat
         /\ \A f \in m_events[r] : NextTs(r) <= f.ts
         /\ \A f \in m_events[r] : Before(PeekNext(r), f)
<1> DEFINE E == m_events[r]
           T == {f.ts : f \in E}
<1>1. \A f \in E : f.ts \in Nat /\ f.uid \in Nat
  BY DEF Event
<1>2. PICK t \in T : \A u \in T : t <= u
  <2> T \in SUBSET Nat /\ T # {}
    BY <1>1
  <2> HIDE DEF T
  <2> QED
    BY LeastNat
<1> DEFINE U == {f.uid : f \in {g \in E : g.ts = t}}
<1>3. PICK u \in U : \A v \in U : u <= v
  <2> U \in SUBSET Nat /\ U # {}
    BY <1>1, <1>2
  <2> HIDE DEF U
  <2> QED
    BY LeastNat
<1>4. PICK e \in E : e.ts = t /\ e.uid = u
  BY <1>3
<1>5. \A f \in E : Before(e, f)
  BY <1>1, <1>2, <1>3, <1>4 DEF Before
<1>6. PeekNext(r) \in E /\ \A f \in E : Before(PeekNext(r), f)
  BY <1>4, <1>5, Zenon DEF PeekNext
<1> QED
  BY <1>1, <1>6 DEF NextTs, Before

\* A step of rank r that processes its next event, inserting the events new.
Processes(r, new) ==
  /\ MayProcess(r)
  /\ new \in SUBSET Event
  /\ \A f \in new : f.ts >= NextTs(r) /\ f.kind # "stop"
  /\ m_events' = [m_events EXCEPT ![r] = (@ \ {PeekNext(r)}) \cup new]
  /\ m_uid' \in [Rank -> Nat]
  /\ m_currentTs' = [m_currentTs EXCEPT ![r] = NextTs(r)]
  /\ m_stop' = IF PeekNext(r).kind = "stop" THEN [m_stop EXCEPT ![r] = TRUE] ELSE m_stop
  /\ UNCHANGED <<pc, m_grantedTime, m_rxCount, m_pLBTS>>

\* The step sends m, which is late enough to be safe for its destination, to a
\* rank where the channel is remote too.
Sends(r, s, m) ==
  /\ net[s] = NoMsg
  /\ m.ts >= NextTs(r)
  /\ PositiveCrossDelays /\ ReplicasQuiet => m.ts >= NextTs(r) + LookAhead(m.dst)
  /\ ReplicasQuiet => IsRemote(m.dst, m.link)
  /\ net' = [net EXCEPT ![s] = m]
  /\ m_txCount' = [m_txCount EXCEPT ![r] = (@ + 1) % W]

\* A channel that a node's handler finds to be remote leads to another rank,
\* which finds it to be remote, too.
LEMMA RemoteEnds ==
  ASSUME NEW r \in Rank, NEW l \in Link, NEW n \in {Ends[l][1], Ends[l][2]},
         IsRemote(r, l), n = 0 \/ SystemId[n] = r, n \in Installed[r],
         ReplicasQuiet
  PROVE  /\ Ends[l] \in Node \X Node
         /\ n \in Node /\ Peer(n, l) \in Node /\ SystemId[Peer(n, l)] \in Rank
         /\ SystemId[n] # SystemId[Peer(n, l)]
         /\ IsRemote(SystemId[Peer(n, l)], l)
<1> DEFINE p == Peer(n, l)
           q == SystemId[p]
<1>1. /\ Ends[l] \in Node \X Node
      /\ n \in Node /\ p \in Node /\ q \in Rank
  BY LinkAssumption, SystemIdAssumption DEF Peer
<1>2. SystemId[n] # q
  <2>1. CASE SystemId[n] = r
    BY <1>1, <2>1 DEF IsRemote, Peer
  <2>2. CASE SystemId[n] # r
    <3>1. n = 0
      BY <2>2
    <3> QED
      BY <2>2, <3>1, <1>1 DEF ReplicasQuiet, Peer
  <2> QED
    BY <2>1, <2>2
<1>3. PICK k \in 1 .. 2 : n = Ends[l][k]
  BY <1>1
<1>4. IsRemote(q, l)
  BY <1>2, <1>3 DEF IsRemote
<1> QED
  BY <1>1, <1>2, <1>4

\* A channel that a node's handler finds to be remote ends in a device that its
\* destination's lookahead takes into account.
LEMMA RemoteDelay ==
  ASSUME NEW r \in Rank, NEW l \in Link, NEW n \in {Ends[l][1], Ends[l][2]},
         IsRemote(r, l), n = 0 \/ SystemId[n] = r, n \in Installed[r],
         PositiveCrossDelays, ReplicasQuiet
  PROVE  LookAhead(SystemId[Peer(n, l)]) <= Delay[l]
<1> DEFINE p == Peer(n, l)
           q == SystemId[p]
<1>1. /\ Ends[l] \in Node \X Node
      /\ n \in Node /\ p \in Node /\ q \in Rank
  BY RemoteEnds
<1>2. SystemId[n] # q
  BY RemoteEnds
<1>3. PICK i \in 1 .. Len(Devices) : Devices[i] = [node |-> p, link |-> l]
  <2>1. PICK k \in 1 .. 2 : p = Ends[l][k]
    BY <1>1 DEF Peer
  <2>2. \E i \in 1 .. Len(Devices) : Devices[i] = [node |-> Ends[l][k], link |-> l]
    BY DevicesAssumption
  <2> HIDE DEF p
  <2> QED
    BY <2>1, <2>2
<1>4. Peer(p, l) = n
  BY <1>1, <1>2 DEF Peer
<1>5. IsCross(q, Devices[i])
  BY <1>2, <1>3, <1>4 DEF IsCross
<1> QED
  BY <1>1, <1>3, <1>5, LookAheadBound

\* Every way of processing an event is of this form, with at most one message.
LEMMA ProcessSummary ==
  ASSUME TypeOK, NEW r \in Rank, ProcessOneEvent(r, SystemId)
  PROVE  \E new : /\ Processes(r, new)
                   /\ \/ UNCHANGED <<m_txCount, net>>
                      \/ \E s \in Slot, m \in Msg : Sends(r, s, m)
<1> DEFINE e == PeekNext(r)
           t == NextTs(r)
<1>1. MayProcess(r)
  BY DEF ProcessOneEvent, ProcessQuietly, ProcessSchedule, ProcessTransmit,
         ProcessStop, ProcessLbStart, HandlerActs
<1>2. e \in Event /\ t \in Nat /\ t = e.ts /\ m_uid[r] \in Nat
  BY <1>1, PeekNextProps DEF IsFinished, MayProcess, NextTs, TypeOK
<1>3. ASSUME NEW i \in 0 .. 1, NEW d \in Nat, NEW c \in Context, NEW k \in EventKind
      PROVE  /\ NewEvent(r, i, t + d, c, k) \in Event
             /\ NewEvent(r, i, t + d, c, k).ts >= t
             /\ NewEvent(r, i, t + d, c, k).kind = k
  BY <1>2 DEF NewEvent, Event
<1>4. e.ctx \in Context /\ "node" \in EventKind /\ "recluster" \in EventKind
  BY <1>2 DEF Event, EventKind
<1>5. ASSUME NEW k \in Nat PROVE [m_uid EXCEPT ![r] = @ + k] \in [Rank -> Nat]
  BY <1>2 DEF TypeOK
<1> HIDE DEF e, t
<1>6. CASE ProcessQuietly(r)
  <2> Processes(r, {})
    BY <1>1, <1>5, <1>6 DEF ProcessQuietly, Consume, Processes
  <2> QED
    BY <1>6 DEF ProcessQuietly
<1>7. CASE ProcessSchedule(r, SystemId)
  <2>1. PICK d \in StepDelay : Consume(r, {NewEvent(r, 0, t + d, e.ctx, "node")}, 1)
    BY <1>7 DEF ProcessSchedule, t, e
  <2> DEFINE f == NewEvent(r, 0, t + d, e.ctx, "node")
  <2>2. f \in Event /\ f.ts >= t /\ f.kind # "stop"
    <3> d \in Nat
      BY TimeAssumption
    <3> QED
      BY <1>3, <1>4
  <2> HIDE DEF f
  <2>3. Processes(r, {f})
    BY <1>1, <1>5, <1>7, <2>1, <2>2
       DEF ProcessSchedule, HandlerActs, Consume, Processes, f, t
  <2> QED
    BY <1>7, <2>3 DEF ProcessSchedule
<1>8. CASE ProcessTransmit(r, SystemId)
  <2>1. PICK l \in Link, tx \in TxTime :
          /\ e.ctx \in {Ends[l][1], Ends[l][2]}
          /\ \/ TransmitLocal(r, e.ctx, NewEvent(r, 0, t + tx, e.ctx, "node"), l, tx)
             \/ TransmitRemote(r, SystemId, e.ctx,
                               NewEvent(r, 0, t + tx, e.ctx, "node"), l, tx)
    BY <1>8 DEF ProcessTransmit, Transmit, e, t
  <2> DEFINE n == e.ctx
             p == Peer(n, l)
             done == NewEvent(r, 0, t + tx, n, "node")
             rx == NewEvent(r, 1, t + tx + Delay[l], p, "node")
  <2>2. /\ tx \in Nat /\ Delay[l] \in Nat /\ tx + Delay[l] \in Nat
        /\ t + (tx + Delay[l]) = t + tx + Delay[l]
    BY <1>2, TimeAssumption, LinkAssumption DEF t
  <2>3. n \in Node /\ p \in Node /\ n \in Context /\ p \in Context
        /\ SystemId[p] \in Rank
    BY <2>1, LinkAssumption, SystemIdAssumption DEF Peer, Context
  <2>4. done \in Event /\ done.ts >= t /\ done.kind # "stop"
    BY <1>3, <1>4, <2>2, <2>3
  <2>5. rx \in Event /\ rx.ts >= t /\ rx.kind # "stop"
    BY <1>3, <1>4, <2>2, <2>3
  <2>6. /\ UNCHANGED <<pc, m_grantedTime, m_stop, m_rxCount, m_pLBTS>>
        /\ PeekNext(r).kind = "node" /\ n \in Installed[r]
        /\ Invokes(r, SystemId, PeekNext(r))
    BY <1>8 DEF ProcessTransmit, HandlerActs, e
  <2> HIDE DEF n, p, done, rx
  <2>7. CASE TransmitLocal(r, n, done, l, tx)
    <3>1. Consume(r, {done, rx}, 2) /\ UNCHANGED <<m_txCount, net>>
      BY <2>7 DEF TransmitLocal, p, rx, t
    <3>2. Processes(r, {done, rx})
      BY <1>1, <1>5, <2>4, <2>5, <2>6, <3>1 DEF Consume, Processes, t
    <3> QED
      BY <3>1, <3>2
  <2>8. CASE TransmitRemote(r, SystemId, n, done, l, tx)
    <3> DEFINE m == [dst |-> SystemId[p], ts |-> t + tx + Delay[l], node |-> p, link |-> l]
    <3>1. Consume(r, {done}, 1) /\ IsRemote(r, l)
      BY <2>8 DEF TransmitRemote
    <3>2. Processes(r, {done})
      BY <1>1, <1>5, <2>4, <2>6, <3>1 DEF Consume, Processes, t
    <3>3. PICK s \in Slot : net[s] = NoMsg /\ net' = [net EXCEPT ![s] = m]
      BY <2>8 DEF TransmitRemote, p, t
    <3>4. m \in Msg /\ m.ts >= t
      BY <1>2, <2>2, <2>3 DEF Msg, t
    <3>5. ASSUME PositiveCrossDelays, ReplicasQuiet PROVE m.ts >= t + LookAhead(m.dst)
      <4>1. n = 0 \/ SystemId[n] = r
        BY <2>3, <2>6, NodeAssumption DEF Invokes, n, e, Node
      <4>2. LookAhead(SystemId[p]) <= Delay[l]
        BY <2>1, <2>6, <3>1, <3>5, <4>1, RemoteDelay DEF n, p
      <4>3. LookAhead(SystemId[p]) \in Nat
        BY <2>3, LookAheadType
      <4> QED
        BY <1>2, <2>2, <4>2, <4>3 DEF t
    <3>6. m_txCount' = [m_txCount EXCEPT ![r] = (@ + 1) % W]
      BY <2>8 DEF Increment, TransmitRemote
    <3>7. ASSUME ReplicasQuiet PROVE IsRemote(m.dst, m.link)
      <4>1. n = 0 \/ SystemId[n] = r
        BY <2>3, <2>6, NodeAssumption DEF Invokes, n, e, Node
      <4> QED
        BY <2>1, <2>6, <3>1, <3>7, <4>1, RemoteEnds DEF n, p, m
    <3> HIDE DEF m
    <3>8. Sends(r, s, m)
      BY <3>3, <3>4, <3>5, <3>6, <3>7 DEF Sends, t
    <3> QED
      BY <3>2, <3>4, <3>8
  <2> QED
    BY <2>1, <2>7, <2>8 DEF n, done
<1>9. CASE ProcessStop(r)
  <2> Processes(r, {})
    BY <1>1, <1>5, <1>9 DEF ProcessStop, Consume, Processes
  <2> QED
    BY <1>9 DEF ProcessStop
<1>10. CASE ProcessLbStart(r)
  <2> DEFINE f == NewEvent(r, 0, t + ReclusteringInterval, NoContext, "recluster")
  <2>1. f \in Event /\ f.ts >= t /\ f.kind # "stop"
    <3> ReclusteringInterval \in Nat /\ NoContext \in Context
      BY ReclusteringAssumption DEF Context
    <3> QED
      BY <1>3, <1>4
  <2> HIDE DEF f
  <2>2. Processes(r, {f})
    BY <1>1, <1>5, <1>10, <2>1 DEF ProcessLbStart, Consume, Processes, f, t
  <2> QED
    BY <1>10, <2>2 DEF ProcessLbStart
<1> QED
  BY <1>6, <1>7, <1>8, <1>9, <1>10 DEF ProcessOneEvent
-------------------------------------------------------------------------------
(* Type correctness. *)

\* The least of the contributed times exists.
LEMMA LeastTimeProps ==
  ASSUME NEW lbts \in [Rank -> LbtsMessage]
  PROVE  /\ LeastTime(lbts) \in Nat
         /\ \E q \in Rank : LeastTime(lbts) = lbts[q].time
         /\ \A q \in Rank : LeastTime(lbts) <= lbts[q].time
<1> DEFINE T == {lbts[q].time : q \in Rank}
<1>1. T \in SUBSET Nat /\ T # {}
  BY RankAssumption DEF LbtsMessage, Rank
<1>2. \E t \in T : \A u \in T : t <= u
  <2> HIDE DEF T
  <2> QED
    BY <1>1, LeastNat
<1>3. PICK t \in T : \A q \in Rank : t <= lbts[q].time
  BY <1>2
<1>4. LeastTime(lbts) \in T /\ \A q \in Rank : LeastTime(lbts) <= lbts[q].time
  BY <1>3, Zenon DEF LeastTime
<1> QED
  BY <1>1, <1>4

\* The initial state is well typed.
LEMMA TypeInit == Init => TypeOK
<1> SUFFICES ASSUME Init PROVE TypeOK
  OBVIOUS
<1>1. InitialEvents \in SUBSET Event
  BY NodeAssumption, TimeAssumption
     DEF InitialEvents, StartEvent, StopEvent, LbStartEvent, Event, EventKind, Context, Node
<1>2. 0 \in 0 .. W - 1
  BY CounterWidth
<1>3. m_grantedTime \in [Rank -> Nat]
  BY LookAheadType DEF Init
<1> QED
  BY <1>1, <1>2, <1>3, NodeAssumption DEF Init, TypeOK, LbtsMessage

\* Every step preserves the types.  The pending stop event keeps the queue of a
\* rank that asks for its next event's time from being empty.
LEMMA TypeStep == TypeOK /\ Contributions /\ StopPending /\ [Next]_vars => TypeOK'
<1> SUFFICES ASSUME TypeOK, Contributions, StopPending, [Next]_vars PROVE TypeOK'
  OBVIOUS
<1>2. \A c \in 0 .. W - 1 : (c + 1) % W \in 0 .. W - 1
  BY CounterWidth
<1>3. ASSUME NEW r \in Rank, ProcessOneEvent(r, SystemId) PROVE TypeOK'
  <2>1. PICK new : /\ Processes(r, new)
                   /\ \/ UNCHANGED <<m_txCount, net>>
                      \/ \E s \in Slot, m \in Msg : Sends(r, s, m)
    BY <1>3, ProcessSummary
  <2>2. NextTs(r) \in Nat
    BY <2>1, PeekNextProps DEF IsFinished, Processes, MayProcess, TypeOK
  <2>3. /\ pc' = pc /\ m_grantedTime' = m_grantedTime /\ m_rxCount' = m_rxCount
        /\ m_pLBTS' = m_pLBTS /\ m_uid' \in [Rank -> Nat]
        /\ m_events' \in [Rank -> SUBSET Event]
        /\ m_currentTs' \in [Rank -> Nat]
        /\ m_stop' \in [Rank -> BOOLEAN]
    BY <2>1, <2>2 DEF Processes, TypeOK
  <2>4. m_txCount' \in [Rank -> 0 .. W - 1] /\ net' \in [Slot -> Msg \cup {NoMsg}]
    <3>1. ASSUME NEW s \in Slot, NEW m \in Msg, Sends(r, s, m)
          PROVE  m_txCount' \in [Rank -> 0 .. W - 1] /\ net' \in [Slot -> Msg \cup {NoMsg}]
      BY <1>2, <3>1 DEF Sends, TypeOK
    <3> QED
      BY <2>1, <3>1 DEF TypeOK
  <2> QED
    BY <2>3, <2>4 DEF TypeOK
<1>4. ASSUME NEW r \in Rank, EnterLbts(r) PROVE TypeOK'
  BY <1>4 DEF EnterLbts, TypeOK
<1>5. ASSUME NEW r \in Rank, EnterAllgather(r) PROVE TypeOK'
  <2> m_events[r] # {}
    BY <1>5 DEF EnterAllgather, Contributions, StopPending
  <2> NextTs(r) \in Nat
    BY <1>5, PeekNextProps DEF TypeOK
  <2> QED
    BY <1>5 DEF Contribution, EnterAllgather, TypeOK, LbtsMessage
<1>6. ASSUME NEW r \in Rank, UpdateGrantedTime(r) PROVE TypeOK'
  BY <1>6, LeastTimeProps, LookAheadType DEF NewGrant, UpdateGrantedTime, TypeOK, SmallestTime
<1>7. ASSUME NEW r \in Rank, ExitRun(r) PROVE TypeOK'
  BY <1>7 DEF ExitRun, TypeOK
<1>8. ASSUME NEW r \in Rank, ReceiveMessage(r) PROVE TypeOK'
  BY <1>2, <1>8 DEF Increment, ReceiveMessage, NewEvent, TypeOK, Event, EventKind, Msg, Context
<1>9. ASSUME Allgather PROVE TypeOK'
  BY <1>9 DEF Allgather, TypeOK
<1>10. ASSUME UNCHANGED vars PROVE TypeOK'
  BY <1>10 DEF vars, TypeOK
<1> QED
  BY <1>3, <1>4, <1>5, <1>6, <1>7, <1>8, <1>9, <1>10 DEF Next, Step, Finished
-------------------------------------------------------------------------------
(* The parts of the protocol invariant, one by one. *)

\* A processed event and the events and message it leads to, typed.
LEMMA ProcessFacts ==
  ASSUME TypeOK, NEW r \in Rank, ProcessOneEvent(r, SystemId)
  PROVE  /\ pc[r] = "run" /\ pc' = pc /\ ~m_stop[r]
         /\ m_grantedTime' = m_grantedTime /\ m_pLBTS' = m_pLBTS /\ m_rxCount' = m_rxCount
         /\ PeekNext(r) \in m_events[r] /\ PeekNext(r).ts = NextTs(r)
         /\ NextTs(r) \in Nat /\ NextTs(r) <= m_grantedTime[r]
         /\ m_currentTs' = [m_currentTs EXCEPT ![r] = NextTs(r)]
         /\ m_stop' = IF PeekNext(r).kind = "stop" THEN [m_stop EXCEPT ![r] = TRUE] ELSE m_stop
         /\ \A q \in Rank : q # r => m_events'[q] = m_events[q]
         /\ m_events[r] \ {PeekNext(r)} \subseteq m_events'[r]
         /\ \A f \in m_events'[r] :
              (f \in m_events[r] /\ f # PeekNext(r))
              \/ (f \in Event /\ f.ts >= NextTs(r) /\ f.kind # "stop")
         /\ \/ UNCHANGED <<m_txCount, net>>
            \/ \E s \in Slot, m \in Msg : Sends(r, s, m)
<1>1. PICK new : /\ Processes(r, new)
                 /\ \/ UNCHANGED <<m_txCount, net>>
                    \/ \E s \in Slot, m \in Msg : Sends(r, s, m)
  BY ProcessSummary
<1>2. PeekNext(r) \in m_events[r] /\ NextTs(r) \in Nat
  BY <1>1, PeekNextProps DEF IsFinished, Processes, MayProcess, TypeOK
<1>3. m_events'[r] = (m_events[r] \ {PeekNext(r)}) \cup new
  BY <1>1 DEF Processes, TypeOK
<1>4. \A q \in Rank : q # r => m_events'[q] = m_events[q]
  BY <1>1 DEF Processes, TypeOK
<1>5. \A f \in new : f \in Event /\ f.ts >= NextTs(r) /\ f.kind # "stop"
  BY <1>1 DEF Processes
<1>6. \A f \in m_events'[r] :
              (f \in m_events[r] /\ f # PeekNext(r))
              \/ (f \in Event /\ f.ts >= NextTs(r) /\ f.kind # "stop")
  BY <1>3, <1>5
<1>7. m_events[r] \ {PeekNext(r)} \subseteq m_events'[r]
  BY <1>3
<1>8. /\ pc[r] = "run" /\ pc' = pc /\ ~m_stop[r]
      /\ m_grantedTime' = m_grantedTime /\ m_pLBTS' = m_pLBTS /\ m_rxCount' = m_rxCount
      /\ NextTs(r) <= m_grantedTime[r]
      /\ m_currentTs' = [m_currentTs EXCEPT ![r] = NextTs(r)]
      /\ m_stop' = IF PeekNext(r).kind = "stop" THEN [m_stop EXCEPT ![r] = TRUE] ELSE m_stop
  BY <1>1 DEF IsFinished, Processes, MayProcess
<1>9. PeekNext(r).ts = NextTs(r)
  BY DEF NextTs
<1> QED
  BY <1>1, <1>2, <1>4, <1>6, <1>7, <1>8, <1>9

\* A received message becomes an event of the same time stamp.
LEMMA ReceiveFacts ==
  ASSUME TypeOK, NEW r \in Rank, ReceiveMessage(r)
  PROVE  \E s \in InFlight :
           /\ net[s].dst = r /\ net[s] \in Msg
           /\ net' = [net EXCEPT ![s] = NoMsg]
           /\ \A q \in Rank : q # r => m_events'[q] = m_events[q]
           /\ m_events[r] \subseteq m_events'[r]
           /\ \A f \in m_events'[r] :
                f \in m_events[r] \/ (f.ts = net[s].ts /\ f.kind = "node")
<1>1. PICK s \in Slot :
        /\ net[s] # NoMsg /\ net[s].dst = r /\ net' = [net EXCEPT ![s] = NoMsg]
        /\ m_events' = [m_events EXCEPT
                          ![r] = @ \cup {NewEvent(r, 0, net[s].ts, net[s].node, "node")}]
  BY DEF ReceiveMessage
<1>2. s \in InFlight /\ net[s] \in Msg
  BY <1>1 DEF InFlight, TypeOK
<1>3. \A f \in m_events'[r] : f \in m_events[r] \/ (f.ts = net[s].ts /\ f.kind = "node")
  BY <1>1 DEF NewEvent, TypeOK
<1> QED
  BY <1>1, <1>2, <1>3 DEF TypeOK

\* The messages in flight are finitely many, fewer than a counter's values.
LEMMA InFlightFinite ==
  /\ IsFiniteSet(InFlight)
  /\ Cardinality(InFlight) \in 0 .. W - 1
  /\ Cardinality(InFlight) <= Cardinality(Slot)
<1>1. InFlight \subseteq Slot
  BY DEF InFlight
<1> QED
  BY <1>1, CounterAssumption, FS_Subset, FS_CardinalityType

\* Sending adds a message to those in flight; receiving takes one away.
LEMMA SendInFlight ==
  ASSUME TypeOK, NEW r \in Rank, NEW s \in Slot, NEW m \in Msg, Sends(r, s, m)
  PROVE  /\ InFlight' = InFlight \cup {s} /\ s \notin InFlight /\ net'[s] = m
         /\ \A t \in InFlight : net'[t] = net[t]
<1> net' = [net EXCEPT ![s] = m] /\ net[s] = NoMsg /\ net \in [Slot -> Msg \cup {NoMsg}]
  BY DEF Sends, TypeOK
<1> m # NoMsg
  BY NoMsgAssumption
<1> QED
  BY DEF InFlight

\* Receiving takes the message away from those in flight.
LEMMA ReceiveInFlight ==
  ASSUME TypeOK, NEW s \in InFlight, net' = [net EXCEPT ![s] = NoMsg]
  PROVE  InFlight' = InFlight \ {s} /\ \A t \in InFlight' : net'[t] = net[t]
BY DEF InFlight, TypeOK

\* The stop event leaves a queue only by stopping the rank.
LEMMA StopStep == TypeOK /\ Contributions /\ StopPending /\ [Next]_vars => StopPending'
<1> SUFFICES ASSUME TypeOK, Contributions, StopPending, [Next]_vars PROVE StopPending'
  OBVIOUS
<1> DEFINE P(r) == /\ ~m_stop[r] => StopEvent \in m_events[r] /\ pc[r] # "done"
                   /\ \A e \in m_events[r] : e.kind = "stop" => e = StopEvent
                   /\ m_stop[r] => m_currentTs[r] = StopTime
<1>1. \A r \in Rank : P(r)
  BY DEF StopPending
<1> SUFFICES ASSUME NEW q \in Rank PROVE P(q)'
  BY DEF StopPending
<1>2. ASSUME NEW r \in Rank, ProcessOneEvent(r, SystemId) PROVE P(q)'
  <2>1. CASE q # r
    <3> m_events'[q] = m_events[q] /\ m_stop'[q] = m_stop[q] /\ pc'[q] = pc[q]
        /\ m_currentTs'[q] = m_currentTs[q]
      BY <1>2, <2>1, ProcessFacts DEF TypeOK
    <3> QED
      BY <1>1
  <2>2. CASE q = r /\ PeekNext(r).kind = "stop"
    <3>1. PeekNext(r) = StopEvent /\ NextTs(r) = StopTime
      BY <1>1, <1>2, <2>2, ProcessFacts DEF StopEvent
    <3>2. m_stop'[r] /\ m_currentTs'[r] = StopTime
      BY <1>2, <2>2, <3>1, ProcessFacts DEF TypeOK
    <3>3. \A e \in m_events'[r] : e.kind = "stop" => e = StopEvent
      BY <1>1, <1>2, ProcessFacts
    <3> QED
      BY <2>2, <3>2, <3>3
  <2>3. CASE q = r /\ PeekNext(r).kind # "stop"
    <3>1. m_stop' = m_stop /\ ~m_stop[r] /\ pc' = pc
      BY <1>2, <2>3, ProcessFacts
    <3>2. StopEvent \in m_events'[r]
      <4> StopEvent # PeekNext(r)
        BY <2>3 DEF StopEvent
      <4> QED
        BY <1>1, <1>2, <3>1, ProcessFacts
    <3>3. \A e \in m_events'[r] : e.kind = "stop" => e = StopEvent
      BY <1>1, <1>2, ProcessFacts
    <3> QED
      BY <1>1, <2>3, <3>1, <3>2, <3>3
  <2> QED
    BY <2>1, <2>2, <2>3
<1>3. ASSUME NEW r \in Rank, ReceiveMessage(r) PROVE P(q)'
  <2>1. UNCHANGED <<m_stop, pc, m_currentTs>>
    BY <1>3 DEF ReceiveMessage
  <2>2. m_events[q] \subseteq m_events'[q]
        /\ \A f \in m_events'[q] : f \in m_events[q] \/ f.kind = "node"
    BY <1>3, ReceiveFacts
  <2> QED
    BY <1>1, <2>1, <2>2
<1>4. ASSUME NEW r \in Rank, EnterLbts(r) PROVE P(q)'
  BY <1>1, <1>4 DEF EnterLbts, TypeOK
<1>5. ASSUME NEW r \in Rank, EnterAllgather(r) PROVE P(q)'
  BY <1>1, <1>5 DEF EnterAllgather, TypeOK
<1>6. ASSUME NEW r \in Rank, UpdateGrantedTime(r) PROVE P(q)'
  BY <1>1, <1>6 DEF UpdateGrantedTime, TypeOK
<1>7. ASSUME NEW r \in Rank, ExitRun(r) PROVE P(q)'
  BY <1>1, <1>7 DEF IsFinished, ExitRun, TypeOK
<1>8. ASSUME Allgather PROVE P(q)'
  BY <1>1, <1>8 DEF Allgather
<1>9. ASSUME UNCHANGED vars PROVE P(q)'
  BY <1>1, <1>9 DEF vars
<1> QED
  BY <1>2, <1>3, <1>4, <1>5, <1>6, <1>7, <1>8, <1>9 DEF Next, Step, Finished

\* What a rank has contributed stays true while it waits in the Allgather.
LEMMA ContributionsStep == TypeOK /\ Contributions /\ [Next]_vars => Contributions'
<1> SUFFICES ASSUME TypeOK, Contributions, [Next]_vars PROVE Contributions'
  OBVIOUS
<1> DEFINE P(r) ==
      /\ pc[r] \in {"recv", "gather", "lbts"} => ~m_stop[r]
      /\ pc[r] = "gather" =>
           m_pLBTS[r][r] = Contribution(r)
<1>1. \A r \in Rank : P(r)
  BY DEF Contributions
<1> SUFFICES ASSUME NEW q \in Rank PROVE P(q)'
  BY DEF Contributions
<1>2. ASSUME pc'[q] = pc[q], m_stop'[q] = m_stop[q], m_pLBTS'[q] = m_pLBTS[q],
             m_rxCount'[q] = m_rxCount[q], m_txCount'[q] = m_txCount[q],
             m_events'[q] = m_events[q]
      PROVE  P(q)'
  <2> NextTs(q)' = NextTs(q)
    BY <1>2 DEF NextTs, PeekNext
  <2> QED
    BY <1>1, <1>2 DEF Contribution
<1>3. ASSUME NEW r \in Rank, ProcessOneEvent(r, SystemId) PROVE P(q)'
  <2>1. CASE q = r
    BY <1>3, <2>1, ProcessFacts
  <2>2. CASE q # r
    <3> m_txCount'[q] = m_txCount[q]
      BY <1>3, <2>2, ProcessFacts DEF Sends, TypeOK
    <3> QED
      BY <1>2, <1>3, <2>2, ProcessFacts DEF TypeOK
  <2> QED
    BY <2>1, <2>2
<1>4. ASSUME NEW r \in Rank, ReceiveMessage(r) PROVE P(q)'
  <2>1. /\ UNCHANGED <<pc, m_stop, m_pLBTS, m_txCount>> /\ pc[r] = "recv"
        /\ q # r => m_rxCount'[q] = m_rxCount[q]
    BY <1>4 DEF ReceiveMessage, TypeOK
  <2>2. CASE q = r
    BY <1>1, <2>1, <2>2
  <2>3. CASE q # r
    BY <1>2, <1>4, <2>1, <2>3, ReceiveFacts
  <2> QED
    BY <2>2, <2>3
<1>5. ASSUME NEW r \in Rank, EnterLbts(r) PROVE P(q)'
  BY <1>1, <1>2, <1>5 DEF IsFinished, EnterLbts, TypeOK
<1>6. ASSUME NEW r \in Rank, EnterAllgather(r) PROVE P(q)'
  <2>1. CASE q = r
    <3>1. NextTs(q)' = NextTs(q)
      BY <1>6 DEF NextTs, PeekNext, EnterAllgather
    <3>2. m_pLBTS'[r][r] = Contribution(r)
      BY <1>6 DEF EnterAllgather, TypeOK
    <3> QED
      BY <1>1, <1>6, <2>1, <3>1, <3>2 DEF Contribution, EnterAllgather, TypeOK
  <2>2. CASE q # r
    BY <1>2, <1>6, <2>2 DEF EnterAllgather, TypeOK
  <2> QED
    BY <2>1, <2>2
<1>7. ASSUME NEW r \in Rank, UpdateGrantedTime(r) PROVE P(q)'
  <2>1. CASE q = r
    BY <1>7, <2>1 DEF UpdateGrantedTime, TypeOK
  <2>2. CASE q # r
    BY <1>2, <1>7, <2>2 DEF UpdateGrantedTime, TypeOK
  <2> QED
    BY <2>1, <2>2
<1>8. ASSUME NEW r \in Rank, ExitRun(r) PROVE P(q)'
  <2>1. CASE q = r
    BY <1>8, <2>1 DEF ExitRun, TypeOK
  <2>2. CASE q # r
    BY <1>2, <1>8, <2>2 DEF ExitRun, TypeOK
  <2> QED
    BY <2>1, <2>2
<1>9. ASSUME Allgather PROVE P(q)'
  BY <1>1, <1>9 DEF Allgather
<1>10. ASSUME UNCHANGED vars PROVE P(q)'
  BY <1>2, <1>10 DEF vars
<1> QED
  BY <1>3, <1>4, <1>5, <1>6, <1>7, <1>8, <1>9, <1>10 DEF Next, Step, Finished

\* Sending and receiving keep the wrapped counters in step with the network.
LEMMA CountersStep == TypeOK /\ CountersMatch /\ [Next]_vars => CountersMatch'
<1> SUFFICES ASSUME TypeOK, CountersMatch, [Next]_vars PROVE CountersMatch'
  OBVIOUS
<1> DEFINE a == Total(m_rxCount)
           b == Total(m_txCount)
           c == Cardinality(InFlight)
<1>1. a \in 0 .. W - 1 /\ b \in 0 .. W - 1 /\ c \in 0 .. W - 1 /\ W \in Nat /\ W > 0
  BY TotalType, InFlightFinite, CounterWidth DEF TypeOK
<1>2. b = IF a + c < W THEN a + c ELSE a + c - W
  <2>1. b = (a + c) % W
    BY DEF CountersMatch
  <2> HIDE DEF a, b, c
  <2> QED
    BY <1>1, <2>1, ModSum
<1>3. ASSUME UNCHANGED <<m_rxCount, m_txCount, net>> PROVE CountersMatch'
  <2> InFlight' = InFlight
    BY <1>3 DEF InFlight
  <2> QED
    BY <1>3 DEF CountersMatch
<1>4. ASSUME NEW r \in Rank, NEW s \in Slot, NEW m \in Msg, Sends(r, s, m),
             m_rxCount' = m_rxCount
      PROVE  CountersMatch'
  <2>1. Total(m_txCount') = (b + 1) % W
    BY <1>4, TotalIncrement DEF Sends, TypeOK
  <2>2. Cardinality(InFlight') = c + 1
    BY <1>4, SendInFlight, InFlightFinite, FS_AddElement
  <2>3. c + 1 \in 0 .. W - 1
    <3>1. InFlight' \subseteq Slot /\ IsFiniteSet(Slot) /\ Cardinality(Slot) < W
      BY <1>4, SendInFlight, CounterAssumption DEF InFlight
    <3>2. Cardinality(InFlight') <= Cardinality(Slot) /\ Cardinality(Slot) \in Nat
      BY <3>1, FS_Subset, FS_CardinalityType
    <3> QED
      BY <1>1, <2>2, <3>1, <3>2
  <2> HIDE DEF a, b, c
  <2>4. (a + (c + 1)) % W = IF a + (c + 1) < W THEN a + (c + 1) ELSE a + (c + 1) - W
    BY <1>1, <2>3, ModSum
  <2>5. 1 \in 0 .. W - 1
    BY <1>1, <2>3
  <2>6. (b + 1) % W = IF b + 1 < W THEN b + 1 ELSE b + 1 - W
    BY <1>1, <2>5, ModSum
  <2>7. (b + 1) % W = (a + (c + 1)) % W
    BY <1>1, <1>2, <2>3, <2>4, <2>6
  <2>8. Total(m_rxCount)' = a /\ Total(m_txCount)' = Total(m_txCount')
    BY <1>4 DEF a, Total, Sums
  <2> QED
    BY <2>1, <2>2, <2>7, <2>8 DEF CountersMatch
<1>5. ASSUME NEW r \in Rank, ReceiveMessage(r) PROVE CountersMatch'
  <2>1. /\ m_rxCount' = [m_rxCount EXCEPT ![r] = (m_rxCount[r] + 1) % W]
        /\ m_txCount' = m_txCount
    BY <1>5 DEF Increment, ReceiveMessage
  <2>2. Total(m_rxCount') = (a + 1) % W
    BY <2>1, TotalIncrement DEF TypeOK
  <2>3. PICK s \in InFlight : net' = [net EXCEPT ![s] = NoMsg]
    BY <1>5, ReceiveFacts
  <2>4. Cardinality(InFlight') = c - 1
    BY <2>3, ReceiveInFlight, InFlightFinite, FS_RemoveElement
  <2>5. c # 0
    BY InFlightFinite, FS_EmptySet
  <2> HIDE DEF a, b, c
  <2>6. 1 \in 0 .. W - 1 /\ c - 1 \in 0 .. W - 1
    BY <1>1, <2>5
  <2>7. (a + 1) % W = IF a + 1 < W THEN a + 1 ELSE a + 1 - W
    BY <1>1, <2>6, ModSum
  <2> DEFINE d == (a + 1) % W
  <2>8. d \in 0 .. W - 1
    BY <1>1, <2>7
  <2> HIDE DEF d
  <2>9. (d + (c - 1)) % W = IF d + (c - 1) < W THEN d + (c - 1) ELSE d + (c - 1) - W
    BY <2>6, <2>8, ModSum
  <2>10. b = (d + (c - 1)) % W
    BY <1>1, <1>2, <2>5, <2>7, <2>8, <2>9 DEF d
  <2>11. Total(m_txCount)' = b /\ Total(m_rxCount)' = Total(m_rxCount')
    BY <2>1 DEF b, Total, Sums
  <2> QED
    BY <2>2, <2>4, <2>10, <2>11 DEF CountersMatch, d
<1>6. ASSUME NEW r \in Rank, ProcessOneEvent(r, SystemId) PROVE CountersMatch'
  BY <1>3, <1>4, <1>6, ProcessFacts
<1>7. ASSUME NEW r \in Rank, EnterLbts(r) \/ EnterAllgather(r) \/ UpdateGrantedTime(r) \/ ExitRun(r)
      PROVE  CountersMatch'
  BY <1>3, <1>7 DEF EnterLbts, EnterAllgather, UpdateGrantedTime, ExitRun
<1>8. ASSUME Allgather \/ UNCHANGED vars PROVE CountersMatch'
  BY <1>3, <1>8 DEF Allgather, vars
<1> QED
  BY <1>5, <1>6, <1>7, <1>8 DEF Next, Step, Finished

\* Right after an Allgather, equal totals mean that nothing is in flight.
LEMMA AllgatherTotals ==
  ASSUME TypeOK, CountersMatch, Contributions, Allgather, NEW r \in Rank,
         TotRx(r)' = TotTx(r)'
  PROVE  InFlight = {} /\ InFlight' = {}
<1> DEFINE a == Total(m_rxCount)
           c == Cardinality(InFlight)
<1>1. \A q \in Rank : /\ m_pLBTS'[r][q].rx = m_rxCount[q]
                        /\ m_pLBTS'[r][q].tx = m_txCount[q]
  <2>1. \A q \in Rank : m_pLBTS'[r][q] = m_pLBTS[q][q]
    BY DEF Allgather
  <2>2. \A q \in Rank :
          m_pLBTS[q][q] = Contribution(q)
    BY DEF Allgather, Contributions
  <2> TAKE q \in Rank
  <2>3. m_pLBTS'[r][q] = Contribution(q)
    BY <2>1, <2>2
  <2> QED
    BY <2>3 DEF Contribution
<1>2. /\ [q \in Rank |-> m_pLBTS'[r][q].rx] = m_rxCount
      /\ [q \in Rank |-> m_pLBTS'[r][q].tx] = m_txCount
  BY <1>1 DEF TypeOK
<1>3. TotRx(r)' = a /\ TotTx(r)' = Total(m_txCount)
  <2>1. TotRx(r)' = Total([q \in Rank |-> m_pLBTS'[r][q].rx])
    BY DEF TotRx, Total, Sums
  <2>2. TotTx(r)' = Total([q \in Rank |-> m_pLBTS'[r][q].tx])
    BY DEF TotTx, Total, Sums
  <2>3. QED
    BY <1>2, <2>1, <2>2
<1>4. a = (a + c) % W
  BY <1>3 DEF CountersMatch
<1>5. a \in 0 .. W - 1 /\ c \in 0 .. W - 1 /\ W \in Nat
  BY TotalType, InFlightFinite, CounterWidth DEF TypeOK
<1>6. c = 0
  <2> HIDE DEF a, c
  <2>1. a = IF a + c < W THEN a + c ELSE a + c - W
    BY <1>4, <1>5, ModSum
  <2> QED
    BY <1>5, <2>1
<1>7. InFlight = {}
  BY <1>6, InFlightFinite, FS_EmptySet
<1> QED
  BY <1>7 DEF Allgather, InFlight

\* Equal totals keep excluding messages in flight until the first rank leaves.
LEMMA TransientsStep ==
  TypeOK /\ CountersMatch /\ Contributions /\ TransientsDetected /\ [Next]_vars
    => TransientsDetected'
<1> SUFFICES ASSUME TypeOK, CountersMatch, Contributions, TransientsDetected, [Next]_vars,
                    \A r \in Rank : pc'[r] = "lbts"
             PROVE  \A r \in Rank : TotRx(r)' = TotTx(r)' => InFlight' = {}
  BY DEF TransientsDetected
<1>1. CASE Allgather
  BY <1>1, AllgatherTotals
<1>2. CASE UNCHANGED vars
  <2> \A r \in Rank : TotRx(r)' = TotRx(r) /\ TotTx(r)' = TotTx(r)
    BY <1>2 DEF vars, TotRx, TotTx, Total, Sums
  <2> InFlight' = InFlight /\ pc' = pc
    BY <1>2 DEF vars, InFlight
  <2> QED
    BY DEF TransientsDetected
<1>3. ASSUME NEW r \in Rank, Step(r) \/ ReceiveMessage(r) PROVE pc'[r] # "lbts"
  <2>1. CASE ProcessOneEvent(r, SystemId)
    BY <2>1, ProcessFacts
  <2> QED
    BY <1>3, <2>1 DEF Step, ReceiveMessage, EnterLbts, EnterAllgather,
       UpdateGrantedTime, ExitRun, TypeOK
<1> QED
  BY <1>1, <1>2, <1>3 DEF Next, Finished

\* The time of every event and message after the step t was reached before it.
Follows(t) == \/ \E q \in Rank : \E e \in m_events[q] : t >= e.ts
              \/ \E s \in InFlight : t >= net[s].ts

\* Whatever a step puts into a queue or into the network is no older than
\* something that was there before.
LEMMA NothingOlder ==
  ASSUME TypeOK, [Next]_vars
  PROVE  /\ \A q \in Rank : \A e \in m_events'[q] : Follows(e.ts)
         /\ \A s \in InFlight' : Follows(net'[s].ts)
<1>1. \A q \in Rank : \A e \in m_events[q] : e.ts \in Nat /\ Follows(e.ts)
  BY DEF Follows, TypeOK, Event
<1>2. \A s \in InFlight : net[s].ts \in Nat /\ Follows(net[s].ts)
  BY DEF Follows, TypeOK, Msg, InFlight
<1>3. CASE UNCHANGED <<m_events, net>>
  <2> InFlight' = InFlight
    BY <1>3 DEF InFlight
  <2> QED
    BY <1>1, <1>2, <1>3
<1>4. ASSUME NEW r \in Rank, ProcessOneEvent(r, SystemId)
      PROVE  /\ \A q \in Rank : \A e \in m_events'[q] : Follows(e.ts)
             /\ \A s \in InFlight' : Follows(net'[s].ts)
  <2>1. ASSUME NEW t, t >= NextTs(r) PROVE Follows(t)
    BY <1>4, <2>1, ProcessFacts DEF Follows
  <2>2. \A q \in Rank : \A e \in m_events'[q] : Follows(e.ts)
    BY <1>1, <1>4, <2>1, ProcessFacts
  <2>3. CASE UNCHANGED <<m_txCount, net>>
    BY <1>2, <2>2, <2>3 DEF InFlight
  <2>4. ASSUME NEW s \in Slot, NEW m \in Msg, Sends(r, s, m)
        PROVE  \A u \in InFlight' : Follows(net'[u].ts)
    <3>1. Follows(m.ts)
      BY <2>1, <2>4 DEF Sends
    <3> QED
      BY <1>2, <2>4, <3>1, SendInFlight
  <2> QED
    BY <1>4, <2>2, <2>3, <2>4, ProcessFacts
<1>5. ASSUME NEW r \in Rank, ReceiveMessage(r)
      PROVE  /\ \A q \in Rank : \A e \in m_events'[q] : Follows(e.ts)
             /\ \A s \in InFlight' : Follows(net'[s].ts)
  <2>1. PICK s \in InFlight :
           /\ net' = [net EXCEPT ![s] = NoMsg]
           /\ \A q \in Rank : q # r => m_events'[q] = m_events[q]
           /\ \A f \in m_events'[r] : f \in m_events[r] \/ f.ts = net[s].ts
    BY <1>5, ReceiveFacts
  <2>2. \A q \in Rank : \A e \in m_events'[q] : Follows(e.ts)
    BY <1>1, <1>2, <2>1
  <2>3. InFlight' \subseteq InFlight /\ \A t \in InFlight' : net'[t] = net[t]
    BY <2>1, ReceiveInFlight
  <2> QED
    BY <1>2, <2>2, <2>3
<1> QED
  BY <1>3, <1>4, <1>5 DEF Next, Step, Finished, EnterLbts, EnterAllgather,
     UpdateGrantedTime, ExitRun, Allgather, vars

\* So the ranks' grants stay within their lookaheads of all there is.
LEMMA GrantsStep ==
  TypeOK /\ GrantsBounded /\ LbtsHolds /\ [Next]_vars /\ TypeOK' => GrantsBounded'
<1> SUFFICES ASSUME TypeOK, GrantsBounded, LbtsHolds, [Next]_vars, TypeOK'
             PROVE  GrantsBounded'
  OBVIOUS
<1> DEFINE Bound(t) == \A r \in Rank : t + LookAhead(r) >= m_grantedTime'[r]
<1>1. \A r \in Rank : m_grantedTime[r] \in Nat /\ m_grantedTime'[r] \in Nat
                        /\ LookAhead(r) \in Nat
  BY LookAheadType DEF TypeOK
<1>2. /\ \A q \in Rank : \A e \in m_events[q] : e.ts \in Nat
      /\ \A s \in InFlight : net[s].ts \in Nat
      /\ \A q \in Rank : \A e \in m_events'[q] : e.ts \in Nat
      /\ \A s \in InFlight' : net'[s].ts \in Nat
  BY DEF TypeOK, Event, InFlight, Msg
<1>3. /\ \A q \in Rank : \A e \in m_events[q] : Bound(e.ts)
      /\ \A s \in InFlight : Bound(net[s].ts)
  <2>1. CASE m_grantedTime' = m_grantedTime
    BY <2>1 DEF GrantsBounded, GrantBound
  <2>2. ASSUME NEW r \in Rank, UpdateGrantedTime(r), m_grantedTime' # m_grantedTime
        PROVE  /\ \A q \in Rank : \A e \in m_events[q] : Bound(e.ts)
               /\ \A s \in InFlight : Bound(net[s].ts)
    <3>1. /\ pc[r] = "lbts" /\ TotRx(r) = TotTx(r)
          /\ m_grantedTime' = [m_grantedTime EXCEPT ![r] = SmallestTime(r) + LookAhead(r)]
      BY <2>2 DEF NewGrant, UpdateGrantedTime, TypeOK
    <3>2. SmallestTime(r) \in Nat
      BY LeastTimeProps DEF SmallestTime, TypeOK
    <3>3. ASSUME NEW t \in Nat, t >= SmallestTime(r), GrantBound(t) PROVE Bound(t)
      BY <1>1, <3>1, <3>2, <3>3 DEF GrantBound, TypeOK
    <3> QED
      BY <1>2, <3>1, <3>3 DEF LbtsHolds, GrantsBounded
  <2>3. ASSUME NEW r \in Rank, ProcessOneEvent(r, SystemId) PROVE m_grantedTime' = m_grantedTime
    BY <2>3, ProcessFacts
  <2> QED
    BY <2>1, <2>2, <2>3 DEF Next, Step, Finished, EnterLbts, EnterAllgather,
       ReceiveMessage, ExitRun, Allgather, vars
<1>4. ASSUME NEW t \in Nat, Follows(t) PROVE Bound(t)
  <2>1. ASSUME NEW u \in Nat, t >= u, Bound(u) PROVE Bound(t)
    BY <1>1, <2>1
  <2> HIDE DEF Bound
  <2> QED
    BY <1>2, <1>3, <1>4, <2>1 DEF Follows
<1>5. /\ \A q \in Rank : \A e \in m_events'[q] : Bound(e.ts)
      /\ \A s \in InFlight' : Bound(net'[s].ts)
  <2> HIDE DEF Bound
  <2> QED
    BY <1>2, <1>4, NothingOlder
<1> QED
  BY <1>5 DEF GrantsBounded, GrantBound

\* The result of an Allgather stays usable until the last rank has used it.
LEMMA LbtsStep == ProtocolInv /\ [Next]_vars /\ TypeOK' => LbtsHolds'
<1> SUFFICES ASSUME ProtocolInv, [Next]_vars, TypeOK', NEW r \in Rank, pc'[r] = "lbts"
             PROVE  /\ SmallestTime(r)' + LookAhead(r) >= m_grantedTime'[r]
                    /\ TotRx(r)' = TotTx(r)' =>
                         /\ \A q \in Rank : \A e \in m_events'[q] : e.ts >= SmallestTime(r)'
                         /\ \A s \in InFlight' : net'[s].ts >= SmallestTime(r)'
  BY DEF LbtsHolds
<1> USE DEF ProtocolInv
<1>1. /\ \A q \in Rank : \A e \in m_events[q] : e.ts \in Nat
      /\ \A s \in InFlight : net[s].ts \in Nat
      /\ \A q \in Rank : \A e \in m_events'[q] : e.ts \in Nat
      /\ \A s \in InFlight' : net'[s].ts \in Nat
  BY DEF TypeOK, Event, InFlight, Msg
<1>2. \A q \in Rank : m_grantedTime[q] \in Nat /\ LookAhead(q) \in Nat
  BY LookAheadType DEF TypeOK
<1>3. CASE Allgather
  <2> DEFINE t == LeastTime(m_pLBTS'[r])
  <2>1. /\ t \in Nat /\ SmallestTime(r)' = t
        /\ \E q \in Rank : t = m_pLBTS'[r][q].time
        /\ \A q \in Rank : t <= m_pLBTS'[r][q].time
    BY LeastTimeProps DEF SmallestTime, TypeOK
  <2>2. ASSUME NEW q \in Rank
        PROVE  /\ m_pLBTS'[r][q].time = NextTs(q) /\ PeekNext(q) \in m_events[q]
               /\ PeekNext(q).ts = NextTs(q) /\ NextTs(q) \in Nat
               /\ \A f \in m_events[q] : NextTs(q) <= f.ts
    <3>1. pc[q] = "gather" /\ m_pLBTS'[r][q] = m_pLBTS[q][q]
      BY <1>3 DEF Allgather
    <3>2. m_pLBTS[q][q] = Contribution(q)
      BY <3>1 DEF Contributions
    <3>3. m_events[q] # {}
      BY <3>1 DEF Contributions, StopPending
    <3>4. m_pLBTS'[r][q].time = NextTs(q) /\ PeekNext(q).ts = NextTs(q)
      BY <3>1, <3>2 DEF Contribution, NextTs
    <3> QED
      BY <3>3, <3>4, PeekNextProps DEF TypeOK
  <2> HIDE DEF t
  <2>3. t + LookAhead(r) >= m_grantedTime[r]
    <3>1. PICK q \in Rank : t = m_pLBTS'[r][q].time
      BY <2>1
    <3> QED
      BY <2>2, <3>1 DEF GrantsBounded, GrantBound
  <2>4. \A q \in Rank : \A e \in m_events[q] : e.ts >= t
    BY <1>1, <2>1, <2>2
  <2>5. TotRx(r)' = TotTx(r)' => InFlight' = {}
    BY <1>3, AllgatherTotals
  <2>6. m_events' = m_events /\ m_grantedTime' = m_grantedTime
    BY <1>3 DEF Allgather
  <2> QED
    BY <2>1, <2>3, <2>4, <2>5, <2>6
<1>4. CASE pc[r] = "lbts" /\ m_pLBTS'[r] = m_pLBTS[r] /\ m_grantedTime'[r] = m_grantedTime[r]
  <2>1. SmallestTime(r)' = SmallestTime(r) /\ SmallestTime(r) \in Nat
    BY <1>4, LeastTimeProps DEF SmallestTime, TypeOK
  <2>2. TotRx(r)' = TotRx(r) /\ TotTx(r)' = TotTx(r)
    BY <1>4 DEF TotRx, TotTx, Total, Sums
  <2>3. ASSUME TotRx(r) = TotTx(r), NEW t \in Nat, Follows(t) PROVE t >= SmallestTime(r)
    BY <1>1, <1>4, <2>1, <2>3 DEF Follows, LbtsHolds
  <2>4. SmallestTime(r) + LookAhead(r) >= m_grantedTime[r]
    BY <1>4 DEF LbtsHolds
  <2>5. TotRx(r) = TotTx(r) =>
          /\ \A q \in Rank : \A e \in m_events'[q] : e.ts >= SmallestTime(r)
          /\ \A s \in InFlight' : net'[s].ts >= SmallestTime(r)
    BY <1>1, <2>3, NothingOlder
  <2> QED
    BY <1>4, <2>1, <2>2, <2>4, <2>5
<1>5. ASSUME NEW q \in Rank, Step(q) \/ ReceiveMessage(q)
      PROVE  pc[r] = "lbts" /\ m_pLBTS'[r] = m_pLBTS[r] /\ m_grantedTime'[r] = m_grantedTime[r]
  <2>1. CASE ProcessOneEvent(q, SystemId)
    BY <2>1, ProcessFacts
  <2> QED
    BY <1>5, <2>1 DEF Step, ReceiveMessage, EnterLbts, EnterAllgather,
       UpdateGrantedTime, ExitRun, TypeOK
<1> QED
  BY <1>3, <1>4, <1>5 DEF Next, Finished, vars
-------------------------------------------------------------------------------
(* The protocol invariant. *)

\* The initial state satisfies the protocol invariant.
LEMMA ProtocolInit == Init => ProtocolInv
<1> SUFFICES ASSUME Init PROVE ProtocolInv
  OBVIOUS
<1>1. TypeOK
  BY TypeInit
<1>2. InFlight = {}
  BY DEF Init, InFlight
<1>3. CountersMatch
  <2>1. m_txCount = m_rxCount
    BY DEF Init
  <2> DEFINE a == Total(m_rxCount)
  <2>2. a \in 0 .. W - 1 /\ 0 \in 0 .. W - 1
    BY <1>1, TotalType, CounterWidth DEF TypeOK
  <2>3. Cardinality(InFlight) = 0
    BY <1>2, FS_EmptySet
  <2> HIDE DEF a
  <2>4. (a + 0) % W = a
    BY <2>2, ModSum, CounterWidth
  <2> QED
    BY <2>1, <2>3, <2>4 DEF CountersMatch, a
<1>4. GrantsBounded
  <2>1. \A q \in Rank : \A e \in m_events[q] : e.ts \in Nat
    BY <1>1 DEF TypeOK, Event
  <2>2. \A r \in Rank : m_grantedTime[r] = LookAhead(r) /\ LookAhead(r) \in Nat
    BY LookAheadType DEF Init
  <2> QED
    BY <1>2, <2>1, <2>2 DEF GrantsBounded, GrantBound
<1>5. Contributions /\ LbtsHolds
  BY DEF Init, Contributions, LbtsHolds
<1>6. TransientsDetected
  BY <1>2 DEF TransientsDetected
<1>7. StopPending
  BY DEF Init, StopPending, InitialEvents, StartEvent, StopEvent, LbStartEvent
<1> QED
  BY <1>1, <1>3, <1>4, <1>5, <1>6, <1>7 DEF ProtocolInv

\* Every step preserves the protocol invariant.
LEMMA ProtocolStep == ProtocolInv /\ [Next]_vars => ProtocolInv'
<1> SUFFICES ASSUME ProtocolInv, [Next]_vars PROVE ProtocolInv'
  OBVIOUS
<1>1. TypeOK'
  BY TypeStep DEF ProtocolInv
<1>2. CountersMatch'
  BY CountersStep DEF ProtocolInv
<1>3. GrantsBounded'
  BY <1>1, GrantsStep DEF ProtocolInv
<1>4. Contributions'
  BY ContributionsStep DEF ProtocolInv
<1>5. LbtsHolds'
  BY <1>1, LbtsStep
<1>6. TransientsDetected'
  BY TransientsStep DEF ProtocolInv
<1>7. StopPending'
  BY StopStep DEF ProtocolInv
<1> QED
  BY <1>1, <1>2, <1>3, <1>4, <1>5, <1>6, <1>7 DEF ProtocolInv

\* The invariant of the granted-time protocol of Run and MpiInterface holds for
\* every number of ranks, every topology and every set of delays.
THEOREM ProtocolSafe == Spec => []ProtocolInv
BY ProtocolInit, ProtocolStep, PTL DEF Spec

\* The state of Run and of MpiInterface is well typed; in particular Next is
\* never asked for the first event of an empty queue.
THEOREM TypeCorrect == Spec => []TypeOK
<1>1. ProtocolInv => TypeOK
  BY DEF ProtocolInv
<1> QED
  BY <1>1, ProtocolSafe, PTL

\* Comparing the sums of the 32 bit counters detects every transient message,
\* although the counters wrap.
THEOREM TransientsAreDetected == Spec => []TransientsDetected
<1>1. ProtocolInv => TransientsDetected
  BY DEF ProtocolInv
<1> QED
  BY <1>1, ProtocolSafe, PTL

\* A new granted time is never below the old one, for any delays.
THEOREM GrantsAdvance == Spec => GrantNeverRetracted
<1> DEFINE A == \A r \in Rank : m_grantedTime'[r] >= m_grantedTime[r]
<1>1. ProtocolInv /\ [Next]_vars => [A]_vars
  <2> SUFFICES ASSUME ProtocolInv, Next PROVE A
    OBVIOUS
  <2>1. \A r \in Rank : m_grantedTime[r] \in Nat
    BY DEF ProtocolInv, TypeOK
  <2>2. ASSUME NEW r \in Rank, UpdateGrantedTime(r) PROVE A
    BY <2>1, <2>2 DEF NewGrant, UpdateGrantedTime, ProtocolInv, TypeOK, LbtsHolds
  <2>3. ASSUME NEW r \in Rank, ProcessOneEvent(r, SystemId) PROVE A
    BY <2>1, <2>3, ProcessFacts DEF ProtocolInv
  <2> QED
    BY <2>1, <2>2, <2>3 DEF Next, Step, Finished, EnterLbts, EnterAllgather,
       ReceiveMessage, ExitRun, Allgather, vars
<1> QED
  BY <1>1, ProtocolSafe, PTL DEF Spec, GrantNeverRetracted
-------------------------------------------------------------------------------
(* Causality. *)

\* Initially nothing is late.
LEMMA CausalityInit == Init => CausalityInv
<1> SUFFICES ASSUME Init PROVE CausalityInv
  OBVIOUS
<1>1. TypeOK /\ InFlight = {}
  BY TypeInit DEF Init, InFlight
<1>2. \A r \in Rank : \A e \in m_events[r] : e.ts \in Nat
  BY <1>1 DEF TypeOK, Event
<1>3. \A r \in Rank : m_currentTs[r] = 0 /\ m_grantedTime[r] \in Nat /\ pc[r] = "run"
  BY <1>1 DEF Init, TypeOK
<1> QED
  BY <1>1, <1>2, <1>3 DEF CausalityInv

\* With positive delays between ranks and quiet replicas of node 0, every step
\* keeps the messages in flight ahead of the grants of their destinations.
LEMMA CausalityStep ==
  ASSUME PositiveCrossDelays, ReplicasQuiet
  PROVE  ProtocolInv /\ CausalityInv /\ [Next]_vars => CausalityInv'
<1> SUFFICES ASSUME ProtocolInv, CausalityInv, [Next]_vars PROVE CausalityInv'
  OBVIOUS
<1>1. TypeOK /\ TypeOK' /\ ProtocolInv'
  BY ProtocolStep DEF ProtocolInv
<1>2. \A r \in Rank : /\ m_currentTs[r] \in Nat /\ m_currentTs'[r] \in Nat
                        /\ m_grantedTime[r] \in Nat /\ m_grantedTime'[r] \in Nat
                        /\ LookAhead(r) \in Nat
                        /\ SmallestTime(r) \in Nat /\ SmallestTime(r)' \in Nat
  BY <1>1, LookAheadType, LeastTimeProps DEF TypeOK, SmallestTime
<1>3. /\ \A q \in Rank : \A e \in m_events[q] : e.ts \in Nat
      /\ \A s \in InFlight : net[s].ts \in Nat /\ net[s].dst \in Rank
      /\ \A q \in Rank : \A e \in m_events'[q] : e.ts \in Nat
      /\ \A s \in InFlight' : net'[s].ts \in Nat /\ net'[s].dst \in Rank
  BY <1>1 DEF TypeOK, Event, InFlight, Msg
<1> DEFINE Late(t, d) == \A q \in Rank : pc[q] = "lbts" /\ TotRx(q) = TotTx(q) =>
                             t >= SmallestTime(q) + LookAhead(d)
<1>4. /\ \A r \in Rank : m_currentTs[r] <= m_grantedTime[r]
      /\ \A r \in Rank : \A e \in m_events[r] : e.ts >= m_currentTs[r]
      /\ \A s \in InFlight : net[s].ts >= m_grantedTime[net[s].dst]
      /\ \A s \in InFlight : Late(net[s].ts, net[s].dst)
  BY DEF CausalityInv
<1>5. ASSUME m_pLBTS' = m_pLBTS
      PROVE  \A q \in Rank : /\ SmallestTime(q)' = SmallestTime(q)
                               /\ TotRx(q)' = TotRx(q) /\ TotTx(q)' = TotTx(q)
  BY <1>5 DEF SmallestTime, TotRx, TotTx, Total, Sums
<1>6. ASSUME NEW r \in Rank, ProcessOneEvent(r, SystemId) PROVE CausalityInv'
  <2>1. /\ pc' = pc /\ m_grantedTime' = m_grantedTime /\ m_pLBTS' = m_pLBTS
        /\ PeekNext(r) \in m_events[r] /\ PeekNext(r).ts = NextTs(r)
        /\ NextTs(r) \in Nat /\ NextTs(r) <= m_grantedTime[r]
        /\ m_currentTs' = [m_currentTs EXCEPT ![r] = NextTs(r)]
        /\ \A q \in Rank : q # r => m_events'[q] = m_events[q]
        /\ \A f \in m_events'[r] : f \in m_events[r] \/ f.ts >= NextTs(r)
        /\ \/ UNCHANGED <<m_txCount, net>>
           \/ \E s \in Slot, m \in Msg : Sends(r, s, m)
    BY <1>1, <1>6, ProcessFacts
  <2>2. \A f \in m_events[r] : NextTs(r) <= f.ts
    BY <1>1, <2>1, PeekNextProps DEF TypeOK
  <2>3. \A q \in Rank : m_currentTs'[q] <= m_grantedTime'[q]
    BY <1>1, <1>4, <2>1 DEF TypeOK
  <2>4. \A q \in Rank : \A e \in m_events'[q] : e.ts >= m_currentTs'[q]
    <3> TAKE q \in Rank
    <3>1. CASE q = r
      BY <1>1, <1>3, <2>1, <2>2, <3>1 DEF TypeOK
    <3>2. CASE q # r
      BY <1>4, <2>1, <3>2, <1>1 DEF TypeOK
    <3> QED
      BY <3>1, <3>2
  <2>5. /\ \A s \in InFlight' : net'[s].ts >= m_grantedTime[net'[s].dst]
        /\ \A s \in InFlight' : Late(net'[s].ts, net'[s].dst)
    <3>1. CASE UNCHANGED <<m_txCount, net>>
      <4> InFlight' = InFlight
        BY <3>1 DEF InFlight
      <4> QED
        BY <1>4, <3>1
    <3>2. ASSUME NEW s \in Slot, NEW m \in Msg, Sends(r, s, m)
          PROVE  /\ \A u \in InFlight' : net'[u].ts >= m_grantedTime[net'[u].dst]
                 /\ \A u \in InFlight' : Late(net'[u].ts, net'[u].dst)
      <4>1. m.ts \in Nat /\ m.dst \in Rank /\ m.ts >= NextTs(r) + LookAhead(m.dst)
        BY <3>2 DEF Sends, Msg
      <4>2. NextTs(r) + LookAhead(m.dst) >= m_grantedTime[m.dst]
        BY <2>1, <4>1 DEF ProtocolInv, GrantsBounded, GrantBound
      <4>3. m.ts >= m_grantedTime[m.dst]
        BY <1>2, <2>1, <4>1, <4>2
      <4>4. Late(m.ts, m.dst)
        <5> SUFFICES ASSUME NEW q \in Rank, pc[q] = "lbts", TotRx(q) = TotTx(q)
                     PROVE  m.ts >= SmallestTime(q) + LookAhead(m.dst)
          OBVIOUS
        <5>1. NextTs(r) >= SmallestTime(q)
          BY <2>1 DEF ProtocolInv, LbtsHolds
        <5> QED
          BY <1>2, <2>1, <4>1, <5>1
      <4> HIDE DEF Late
      <4> QED
        BY <1>1, <1>4, <3>2, <4>3, <4>4, SendInFlight
    <3> HIDE DEF Late
    <3> QED
      BY <2>1, <3>1, <3>2
  <2> QED
    BY <1>5, <2>1, <2>3, <2>4, <2>5 DEF CausalityInv
<1>7. ASSUME NEW r \in Rank, ReceiveMessage(r) PROVE CausalityInv'
  <2>1. UNCHANGED <<pc, m_currentTs, m_grantedTime, m_pLBTS>>
    BY <1>7 DEF ReceiveMessage
  <2>2. PICK s \in InFlight :
           /\ net[s].dst = r
           /\ net' = [net EXCEPT ![s] = NoMsg]
           /\ \A q \in Rank : q # r => m_events'[q] = m_events[q]
           /\ \A f \in m_events'[r] : f \in m_events[r] \/ f.ts = net[s].ts
    BY <1>1, <1>7, ReceiveFacts
  <2>3. net[s].ts >= m_currentTs[r]
    BY <1>2, <1>3, <1>4, <2>2
  <2>4. \A q \in Rank : \A e \in m_events'[q] : e.ts >= m_currentTs[q]
    BY <1>4, <2>2, <2>3
  <2>5. InFlight' \subseteq InFlight /\ \A u \in InFlight' : net'[u] = net[u]
    BY <1>1, <2>2, ReceiveInFlight
  <2> QED
    BY <1>4, <1>5, <2>1, <2>4, <2>5 DEF CausalityInv
<1>8. ASSUME NEW r \in Rank, UpdateGrantedTime(r) PROVE CausalityInv'
  <2>1. UNCHANGED <<m_events, m_currentTs, m_pLBTS, net>> /\ InFlight' = InFlight
    BY <1>8 DEF UpdateGrantedTime, InFlight
  <2>2. /\ pc[r] = "lbts" /\ pc'[r] = "run"
        /\ \A q \in Rank : q # r => pc'[q] = pc[q] /\ m_grantedTime'[q] = m_grantedTime[q]
        /\ TotRx(r) = TotTx(r) => m_grantedTime'[r] = SmallestTime(r) + LookAhead(r)
        /\ TotRx(r) # TotTx(r) => m_grantedTime'[r] = m_grantedTime[r]
    BY <1>1, <1>8 DEF NewGrant, UpdateGrantedTime, TypeOK
  <2>3. m_grantedTime'[r] >= m_grantedTime[r]
    BY <1>2, <2>2 DEF ProtocolInv, LbtsHolds
  <2>4. \A q \in Rank : m_currentTs[q] <= m_grantedTime'[q]
    BY <1>2, <1>4, <2>2, <2>3
  <2>5. \A s \in InFlight : net[s].ts >= m_grantedTime'[net[s].dst]
    BY <1>2, <1>3, <1>4, <2>2
  <2>6. \A q \in Rank : pc'[q] = "lbts" => pc[q] = "lbts"
    BY <2>2
  <2> QED
    BY <1>4, <1>5, <2>1, <2>4, <2>5, <2>6 DEF CausalityInv
<1>9. CASE Allgather
  <2>1. UNCHANGED <<m_events, m_currentTs, m_grantedTime, net>> /\ InFlight' = InFlight
    BY <1>9 DEF Allgather, InFlight
  <2>2. \A q \in Rank : TotRx(q)' = TotTx(q)' => InFlight' = {}
    BY <1>1, <1>9, AllgatherTotals DEF ProtocolInv
  <2> QED
    BY <1>4, <2>1, <2>2 DEF CausalityInv
<1>10. ASSUME UNCHANGED <<m_events, m_currentTs, m_grantedTime, net>>,
              \A q \in Rank : pc'[q] = "lbts" => pc[q] = "lbts" /\ m_pLBTS'[q] = m_pLBTS[q]
       PROVE  CausalityInv'
  <2>1. InFlight' = InFlight
    BY <1>10 DEF InFlight
  <2>2. \A q \in Rank : pc'[q] = "lbts" =>
          /\ SmallestTime(q)' = SmallestTime(q)
          /\ TotRx(q)' = TotRx(q) /\ TotTx(q)' = TotTx(q)
    <3> TAKE q \in Rank
    <3> HAVE pc'[q] = "lbts"
    <3>1. m_pLBTS'[q] = m_pLBTS[q]
      BY <1>10
    <3> QED
      BY <3>1 DEF SmallestTime, TotRx, TotTx, Total, Sums
  <2> QED
    BY <1>4, <1>10, <2>1, <2>2 DEF CausalityInv
<1>11. ASSUME NEW r \in Rank, EnterLbts(r) \/ EnterAllgather(r) \/ ExitRun(r)
       PROVE  CausalityInv'
  BY <1>1, <1>10, <1>11 DEF EnterLbts, EnterAllgather, ExitRun, TypeOK
<1>12. CASE UNCHANGED vars
  BY <1>10, <1>12 DEF vars
<1> QED
  BY <1>6, <1>7, <1>8, <1>9, <1>11, <1>12 DEF Next, Step, Finished

\* The conservative protocol is correct: if no channel between ranks has delay
\* zero and the replicas of node 0 keep quiet, no rank ever meets an event older
\* than its clock, whatever the topology, the delays and the schedule.
THEOREM Causality ==
  ASSUME PositiveCrossDelays, ReplicasQuiet
  PROVE  Spec => []NoEventFromThePast
<1>1. ProtocolInv /\ CausalityInv => NoEventFromThePast
  <2> SUFFICES ASSUME ProtocolInv, CausalityInv PROVE NoEventFromThePast
    OBVIOUS
  <2>1. \A r \in Rank : m_currentTs[r] \in Nat /\ m_grantedTime[r] \in Nat
    BY DEF ProtocolInv, TypeOK
  <2>2. \A s \in InFlight : net[s].ts \in Nat /\ net[s].dst \in Rank
    BY DEF ProtocolInv, TypeOK, InFlight, Msg
  <2> QED
    BY <2>1, <2>2 DEF CausalityInv, NoEventFromThePast
<1>2. Spec => []CausalityInv
  BY CausalityInit, CausalityStep, ProtocolSafe, PTL DEF Spec
<1> QED
  BY <1>1, <1>2, ProtocolSafe, PTL

\* Under the same premises a rank that has returned from Run has processed, and
\* received, everything that was due before the stop time.
THEOREM StopIsComplete ==
  ASSUME PositiveCrossDelays, ReplicasQuiet
  PROVE  Spec => []StopLosesNothing
<1>1. ProtocolInv /\ NoEventFromThePast => StopLosesNothing
  <2> SUFFICES ASSUME ProtocolInv, NoEventFromThePast, NEW r \in Rank, pc[r] = "done"
               PROVE  /\ \A e \in m_events[r] : e.ts >= StopTime
                      /\ \A s \in InFlight : net[s].dst = r => net[s].ts >= StopTime
    BY DEF StopLosesNothing
  <2>1. m_currentTs[r] = StopTime
    BY DEF ProtocolInv, StopPending
  <2> QED
    BY <2>1 DEF NoEventFromThePast
<1> QED
  BY <1>1, Causality, ProtocolSafe, PTL

\* A packet sent over MPI finds an MpiReceiver on the device it is meant for.
THEOREM ReceiversPresent ==
  ASSUME ReplicasQuiet
  PROVE  Spec => []ReceiverPresent
<1>1. Init => ReceiverPresent
  BY DEF Init, ReceiverPresent, InFlight
<1>2. ProtocolInv /\ ReceiverPresent /\ [Next]_vars => ReceiverPresent'
  <2> SUFFICES ASSUME ProtocolInv, ReceiverPresent, [Next]_vars,
                      NEW z \in Slot, net'[z] # NoMsg
               PROVE  IsRemote(net'[z].dst, net'[z].link)
    BY DEF ReceiverPresent, InFlight
  <2> TypeOK
    BY DEF ProtocolInv
  <2>1. ASSUME net'[z] = net[z] PROVE IsRemote(net'[z].dst, net'[z].link)
    BY <2>1 DEF ReceiverPresent, InFlight
  <2>2. ASSUME NEW r \in Rank, ProcessOneEvent(r, SystemId)
        PROVE  IsRemote(net'[z].dst, net'[z].link)
    <3>1. CASE net' = net
      BY <2>1, <3>1
    <3>2. ASSUME NEW s \in Slot, NEW m \in Msg, Sends(r, s, m)
          PROVE  IsRemote(net'[z].dst, net'[z].link)
      <4>1. IsRemote(m.dst, m.link) /\ net'[z] = IF z = s THEN m ELSE net[z]
        BY <3>2 DEF Sends, TypeOK
      <4> QED
        BY <2>1, <4>1
    <3> QED
      BY <2>2, <3>1, <3>2, ProcessFacts
  <2>3. ASSUME NEW r \in Rank, ReceiveMessage(r)
        PROVE  IsRemote(net'[z].dst, net'[z].link)
    <3>1. PICK s \in InFlight : net' = [net EXCEPT ![s] = NoMsg]
      BY <2>3, ReceiveFacts
    <3>2. z # s /\ net'[z] = net[z]
      BY <3>1 DEF TypeOK
    <3> QED
      BY <2>1, <3>2
  <2>4. CASE UNCHANGED net
    BY <2>1, <2>4
  <2> QED
    BY <2>2, <2>3, <2>4
       DEF Next, Step, EnterLbts, EnterAllgather, UpdateGrantedTime, ExitRun,
           Allgather, Finished, vars
<1> QED
  BY <1>1, <1>2, ProtocolSafe, PTL DEF Spec
-------------------------------------------------------------------------------
(* Termination in lockstep. *)

\* What one pair of ranks contributes to GrantsAgree
GrantPair(r, q) ==
  /\ pc[r] # "lbts" /\ pc[q] # "lbts" => m_grantedTime[r] = m_grantedTime[q]
  /\ pc[r] = "lbts" /\ pc[q] = "lbts" =>
       m_grantedTime[r] = m_grantedTime[q] /\ m_pLBTS[r] = m_pLBTS[q]
  /\ pc[r] = "lbts" /\ pc[q] # "lbts" => m_grantedTime[q] = NewGrant(r)

\* Steps that change neither the grants nor the ranks that are to update theirs
LEMMA GrantsStay ==
  ASSUME GrantsAgree, m_grantedTime' = m_grantedTime,
         \A r \in Rank : pc'[r] = "lbts" => pc[r] = "lbts",
         \A r \in Rank : pc[r] = "lbts" => pc'[r] = "lbts" /\ m_pLBTS'[r] = m_pLBTS[r]
  PROVE  GrantsAgree'
<1>1. ASSUME NEW r \in Rank, pc[r] = "lbts" PROVE NewGrant(r)' = NewGrant(r)
  <2>1. m_pLBTS'[r] = m_pLBTS[r] /\ m_grantedTime'[r] = m_grantedTime[r]
    BY <1>1
  <2> QED
    BY <2>1 DEF NewGrant, SmallestTime, TotRx, TotTx, Total, Sums
<1>2. ASSUME NEW r \in Rank, NEW q \in Rank PROVE GrantPair(r, q)'
  <2>1. GrantPair(r, q)
    BY DEF GrantsAgree, GrantPair
  <2>2. pc[r] = "lbts" => m_pLBTS'[r] = m_pLBTS[r] /\ NewGrant(r)' = NewGrant(r)
    BY <1>1
  <2>3. pc[q] = "lbts" => m_pLBTS'[q] = m_pLBTS[q]
    OBVIOUS
  <2>4. (pc'[r] = "lbts") = (pc[r] = "lbts") /\ (pc'[q] = "lbts") = (pc[q] = "lbts")
    OBVIOUS
  <2> QED
    BY <2>1, <2>2, <2>3, <2>4 DEF GrantPair
<1> QED
  BY <1>2 DEF GrantsAgree, GrantPair

\* A rank computes the grant that the others have computed, or will.
LEMMA GrantsUpdate ==
  ASSUME UniformLookAhead, GrantsAgree, NEW S, pc \in [Rank -> S],
         m_grantedTime \in [Rank -> Nat], NEW r \in Rank, UpdateGrantedTime(r)
  PROVE  GrantsAgree'
<1>1. /\ m_pLBTS' = m_pLBTS
      /\ pc[r] = "lbts" /\ pc'[r] = "run"
      /\ m_grantedTime'[r] = NewGrant(r)
      /\ \A q \in Rank : q # r => pc'[q] = pc[q] /\ m_grantedTime'[q] = m_grantedTime[q]
  BY DEF UpdateGrantedTime
<1>2. \A p, q \in Rank : GrantPair(p, q)
  BY DEF GrantsAgree, GrantPair
<1>3. ASSUME NEW q \in Rank, q # r, pc[q] = "lbts"
      PROVE  NewGrant(q)' = NewGrant(q) /\ NewGrant(q) = NewGrant(r)
  <2>1. m_pLBTS'[q] = m_pLBTS[q] /\ m_grantedTime'[q] = m_grantedTime[q]
    BY <1>1, <1>3
  <2>2. NewGrant(q)' = NewGrant(q)
    BY <2>1 DEF NewGrant, SmallestTime, TotRx, TotTx, Total, Sums
  <2>3. m_pLBTS[q] = m_pLBTS[r] /\ m_grantedTime[q] = m_grantedTime[r]
        /\ LookAhead(q) = LookAhead(r)
    BY <1>1, <1>2, <1>3 DEF UniformLookAhead, GrantPair
  <2>4. NewGrant(q) = NewGrant(r)
    BY <2>3 DEF NewGrant, SmallestTime, TotRx, TotTx
  <2> QED
    BY <2>2, <2>4
<1>4. \A p, q \in Rank : GrantPair(p, q)'
  BY <1>1, <1>2, <1>3 DEF GrantPair
<1> QED
  BY <1>4 DEF GrantsAgree, GrantPair

\* The Allgather gives all ranks the same messages.
LEMMA GrantsGather ==
  ASSUME GrantsAgree, Allgather
  PROVE  GrantsAgree'
<1>1. \A r \in Rank : pc[r] = "gather" /\ pc'[r] = "lbts"
  BY DEF Allgather
<1>2. m_grantedTime' = m_grantedTime /\ \A r, q \in Rank : m_pLBTS'[r] = m_pLBTS'[q]
  BY DEF Allgather
<1> QED
  BY <1>1, <1>2 DEF GrantsAgree

\* With one lookahead for all ranks, every step keeps the grants in lockstep.
LEMMA LockStepStep ==
  ASSUME UniformLookAhead
  PROVE  ProtocolInv /\ LockStep /\ [Next]_vars => LockStep'
<1> SUFFICES ASSUME ProtocolInv, LockStep, [Next]_vars PROVE LockStep'
  OBVIOUS
<1>1. TypeOK /\ TypeOK' /\ ProtocolInv'
  BY ProtocolStep DEF ProtocolInv
<1>2. \A r \in Rank : m_grantedTime[r] \in Nat
  BY <1>1 DEF TypeOK
<1> DEFINE One(r) == /\ m_stop[r] => m_grantedTime[r] >= StopTime
                     /\ pc[r] \in {"recv", "gather"} => m_grantedTime[r] < StopTime
<1>3. GrantsAgree /\ \A r \in Rank : One(r)
  BY DEF LockStep
<1>4. ASSUME m_grantedTime' = m_grantedTime,
             \A r \in Rank : pc'[r] = "lbts" => pc[r] = "lbts",
             \A r \in Rank : pc[r] = "lbts" => pc'[r] = "lbts" /\ m_pLBTS'[r] = m_pLBTS[r],
             \A r \in Rank : One(r)'
      PROVE  LockStep'
  <2>1. GrantsAgree'
    BY <1>3, <1>4, GrantsStay
  <2> QED
    BY <1>4, <2>1 DEF LockStep
<1>5. ASSUME NEW r \in Rank, ProcessOneEvent(r, SystemId) PROVE LockStep'
  <2>1. /\ pc' = pc /\ m_grantedTime' = m_grantedTime /\ m_pLBTS' = m_pLBTS
        /\ NextTs(r) <= m_grantedTime[r] /\ pc[r] = "run"
        /\ m_stop' = IF PeekNext(r).kind = "stop" THEN [m_stop EXCEPT ![r] = TRUE] ELSE m_stop
    BY <1>1, <1>5, ProcessFacts
  <2>2. PeekNext(r).kind = "stop" => NextTs(r) = StopTime
    BY <1>1, <1>5, ProcessFacts DEF ProtocolInv, StopPending, StopEvent, NextTs
  <2>3. \A q \in Rank : One(q)'
    BY <1>1, <1>3, <2>1, <2>2 DEF TypeOK
  <2> HIDE DEF One
  <2> QED
    BY <1>4, <2>1, <2>3
<1>6. ASSUME NEW r \in Rank, EnterLbts(r) PROVE LockStep'
  <2>1. NextTs(r) <= StopTime
    <3> StopEvent \in m_events[r]
      BY <1>6 DEF IsFinished, EnterLbts, ProtocolInv, StopPending
    <3> QED
      BY <1>1, PeekNextProps DEF TypeOK, StopEvent
  <2>2. NextTs(r) \in Nat /\ NextTs(r) > m_grantedTime[r]
    BY <1>1, <1>6, PeekNextProps DEF IsFinished, EnterLbts, TypeOK
  <2>3. m_grantedTime[r] < StopTime
    BY <1>2, <2>1, <2>2, TimeAssumption
  <2>4. \A q \in Rank : One(q)'
    BY <1>1, <1>3, <1>6, <2>3 DEF EnterLbts, TypeOK
  <2> HIDE DEF One
  <2> QED
    BY <1>1, <1>4, <1>6, <2>4 DEF EnterLbts, TypeOK
<1>7. ASSUME NEW r \in Rank, EnterAllgather(r) \/ ReceiveMessage(r) \/ ExitRun(r)
      PROVE  LockStep'
  <2>1. \A q \in Rank : One(q)'
    BY <1>1, <1>3, <1>7 DEF EnterAllgather, ReceiveMessage, ExitRun, TypeOK
  <2>2. /\ m_grantedTime' = m_grantedTime
        /\ \A q \in Rank : pc'[q] = "lbts" => pc[q] = "lbts"
        /\ \A q \in Rank : pc[q] = "lbts" => pc'[q] = "lbts" /\ m_pLBTS'[q] = m_pLBTS[q]
    BY <1>1, <1>7 DEF EnterAllgather, ReceiveMessage, ExitRun, TypeOK
  <2> HIDE DEF One
  <2> QED
    BY <1>4, <2>1, <2>2
<1>8. ASSUME NEW r \in Rank, UpdateGrantedTime(r) PROVE LockStep'
  <2>1. /\ m_stop' = m_stop /\ pc[r] = "lbts" /\ pc'[r] = "run"
        /\ \A q \in Rank : q # r => pc'[q] = pc[q] /\ m_grantedTime'[q] = m_grantedTime[q]
    BY <1>1, <1>8 DEF UpdateGrantedTime, TypeOK
  <2>2. ~m_stop[r]
    BY <2>1 DEF ProtocolInv, Contributions
  <2>3. \A q \in Rank : One(q)'
    BY <1>3, <2>1, <2>2
  <2>4. GrantsAgree'
    BY <1>1, <1>3, <1>8, GrantsUpdate DEF TypeOK
  <2> QED
    BY <2>3, <2>4 DEF LockStep
<1>9. CASE Allgather
  <2>1. \A q \in Rank : One(q)'
    BY <1>3, <1>9 DEF Allgather
  <2> QED
    BY <1>3, <1>9, <2>1, GrantsGather DEF LockStep
<1>10. CASE UNCHANGED vars
  <2>1. \A q \in Rank : One(q)'
    BY <1>3, <1>10 DEF vars
  <2> HIDE DEF One
  <2> QED
    BY <1>4, <1>10, <2>1 DEF vars
<1> QED
  BY <1>5, <1>6, <1>7, <1>8, <1>9, <1>10 DEF Next, Step, Finished

LEMMA LockStepInit ==
  ASSUME UniformLookAhead
  PROVE  Init => LockStep
<1> SUFFICES ASSUME Init PROVE LockStep
  OBVIOUS
<1>1. \A r \in Rank : pc[r] = "run" /\ ~m_stop[r] /\ m_grantedTime[r] = LookAhead(r)
  BY DEF Init
<1> QED
  BY <1>1 DEF LockStep, GrantsAgree, UniformLookAhead

\* If all ranks compute the same lookahead, no rank leaves the run while another
\* still needs it for an Allgather: the ranks stop in the same round.
THEOREM NoneStranded ==
  ASSUME UniformLookAhead
  PROVE  Spec => []NoStrandedRank
<1>1. ProtocolInv /\ LockStep => NoStrandedRank
  <2> SUFFICES ASSUME ProtocolInv, LockStep, NEW r \in Rank, NEW q \in Rank,
                      pc[r] = "done", pc[q] \in {"recv", "gather"}
               PROVE  FALSE
    BY DEF NoStrandedRank
  <2>1. m_stop[r]
    BY DEF ProtocolInv, StopPending
  <2>2. m_grantedTime[r] >= StopTime /\ m_grantedTime[q] < StopTime
    BY <2>1 DEF LockStep
  <2>3. m_grantedTime[r] = m_grantedTime[q] /\ m_grantedTime[r] \in Nat
    BY DEF LockStep, GrantsAgree, ProtocolInv, TypeOK
  <2> QED
    BY <2>2, <2>3, TimeAssumption
<1> QED
  BY <1>1, LockStepInit, LockStepStep, ProtocolSafe, PTL DEF Spec

\* All parts of the invariant hold together when all premises do: counters,
\* grants, contributions and messages in flight fit together at every point of
\* the loop of Run, on any number of ranks.
THEOREM EverythingFits ==
  ASSUME PositiveCrossDelays, ReplicasQuiet, UniformLookAhead
  PROVE  Spec => []InductiveInvariant
<1>1. InductiveInvariant <=> ProtocolInv /\ CausalityInv /\ LockStep
  BY DEF InductiveInvariant
<1>2. Init => InductiveInvariant
  BY <1>1, ProtocolInit, CausalityInit, LockStepInit
<1>3. InductiveInvariant /\ [Next]_vars => InductiveInvariant'
  <2> SUFFICES ASSUME ProtocolInv, CausalityInv, LockStep, [Next]_vars
               PROVE  ProtocolInv' /\ CausalityInv' /\ LockStep'
    BY DEF InductiveInvariant
  <2> QED
    BY ProtocolStep, CausalityStep, LockStepStep
<1> QED
  BY <1>2, <1>3, PTL DEF Spec

-------------------------------------------------------------------------------
(* The load balancer *)

\* The steps of Run, of the network and of the barriers leave the nodes alone.
LEMMA ExecutorStep == ExecutorInv /\ [LbNext]_allVars => ExecutorInv'
<1> SUFFICES ASSUME ExecutorInv, [LbNext]_allVars PROVE ExecutorInv'
  OBVIOUS
<1>1. CASE UNCHANGED <<m_sid, nodeQueue>>
  BY <1>1 DEF ExecutorInv
<1>2. CASE ClusterNetworkGraph
  <2>1. m_sid' = m_sid
    BY <1>2 DEF ClusterNetworkGraph
  <2>2. CASE UNCHANGED nodeQueue
    BY <1>1, <2>1, <2>2
  <2>3. ASSUME NEW c \in Clusterings,
               nodeQueue' = [r \in Rank |-> {v \in NodesForMoving(c) : Addressee(v) = r}]
        PROVE  ExecutorInv'
    <3>1. \A v \in NodesForMoving(c) : v \in NodeForMoving /\ v.new_cluster # Addressee(v)
      BY DEF NodesForMoving, Addressee
    <3>2. ASSUME NEW r \in Rank
          PROVE  /\ nodeQueue'[r] \in SUBSET NodeForMoving
                 /\ \A v \in nodeQueue'[r] : v.new_cluster # r
      BY <2>3, <3>1
    <3>3. nodeQueue' \in [Rank -> SUBSET NodeForMoving]
      BY <2>3, <3>2
    <3> QED
      BY <2>1, <3>2, <3>3 DEF ExecutorInv
  <2> QED
    BY <1>2, <2>2, <2>3 DEF ClusterNetworkGraph
<1>3. ASSUME NEW r \in Rank, MoveNode(r) PROVE ExecutorInv'
  <2>1. PICK v \in nodeQueue[r] :
          /\ nodeQueue' = [nodeQueue EXCEPT ![r] = @ \ {v}]
          /\ m_sid' = [m_sid EXCEPT ![r][v.context] = v.new_cluster]
    BY <1>3 DEF MoveNode, PopNode
  <2>2. v.context \in Node /\ v.new_cluster \in Rank /\ v.new_cluster # r
    BY DEF ExecutorInv, NodeForMoving
  <2>3. m_sid' \in [Rank -> [Node -> Rank]]
    BY <2>1, <2>2 DEF ExecutorInv
  <2>4. \A q \in Rank : \A n \in Node :
          m_sid'[q][n] = IF q = r /\ n = v.context THEN v.new_cluster ELSE m_sid[q][n]
    BY <2>1, <2>2 DEF ExecutorInv
  <2>5. \A q \in Rank : \A n \in Node : m_sid'[q][n] = q => SystemId[n] = q
    BY <2>2, <2>4 DEF ExecutorInv
  <2>6. /\ nodeQueue' \in [Rank -> SUBSET NodeForMoving]
        /\ \A q \in Rank : nodeQueue'[q] \subseteq nodeQueue[q]
    BY <2>1 DEF ExecutorInv
  <2> QED
    BY <2>3, <2>5, <2>6 DEF ExecutorInv
<1>4. CASE \E r \in Rank : \/ RunStep(r) \/ Receive(r) \/ Reclustering(r)
                           \/ StartApps(r) \/ ProcessApp(r) \/ ProcessAdded(r)
  BY <1>1, <1>4 DEF RunStep, Receive, Reclustering, StartApps, ProcessApp,
                    ProcessAdded, lbVars
<1>5. CASE ((Allgather \/ Finished) /\ UNCHANGED lbVars) \/ CompleteNodes \/ CompleteApps
  BY <1>1, <1>5 DEF CompleteNodes, CompleteApps, lbVars
<1>6. CASE UNCHANGED allVars
  BY <1>1, <1>6 DEF allVars, lbVars
<1> QED
  BY <1>2, <1>3, <1>4, <1>5, <1>6 DEF LbNext, LbStep, Collective

\* Whatever the clusterings, a node is never executed by two ranks: a rank's
\* replica of a node names the rank itself only on the node's first rank.
THEOREM OneExecutor == LbSpec => []AtMostOneExecutor
<1>1. LbInit => ExecutorInv
  BY SystemIdAssumption DEF LbInit, ExecutorInv
<1>2. ExecutorInv => AtMostOneExecutor
  BY DEF ExecutorInv, AtMostOneExecutor
<1> QED
  BY <1>1, <1>2, ExecutorStep, PTL DEF LbSpec

-------------------------------------------------------------------------------
(* The types of the load balancer's state *)

\* The reclustering that StartApplication schedules.
FirstReclustering(r) == NewEvent(r, 0, NextTs(r) + ReclusteringInterval, NoContext, "recluster")

\* The events new of the given kinds take the place of rank r's next event; a
\* message may leave.
Inserts(r, new, kinds) ==
  /\ new \in SUBSET Event /\ \A f \in new : f.kind \in kinds
  /\ m_events' = [m_events EXCEPT ![r] = (@ \ {PeekNext(r)}) \cup new]
  /\ m_uid' \in [Rank -> Nat] /\ \A q \in Rank : m_uid'[q] >= m_uid[q]
  /\ m_currentTs' = [m_currentTs EXCEPT ![r] = NextTs(r)]
  /\ m_txCount' \in [Rank -> 0 .. W - 1] /\ net' \in [Slot -> Msg \cup {NoMsg}]

\* Rank r takes its next event.
Takes(r, new) ==
  /\ MayProcess(r)
  /\ Inserts(r, new, IF PeekNext(r).kind = "lb" THEN {"recluster"} ELSE {"node", "app"})
  /\ PeekNext(r).kind = "lb" => new = {FirstReclustering(r)}
  /\ m_stop' = IF PeekNext(r).kind = "stop" THEN [m_stop EXCEPT ![r] = TRUE] ELSE m_stop
  /\ pc' = IF PeekNext(r).kind = "recluster" THEN [pc EXCEPT ![r] = "graph"] ELSE pc
  /\ UNCHANGED <<m_grantedTime, m_rxCount, m_pLBTS, lbVars>>

\* The next event of a rank that has one
LEMMA LbPeekNext ==
  ASSUME LbTypeOK, NEW r \in Rank, m_events[r] # {}
  PROVE  /\ PeekNext(r) \in m_events[r] /\ PeekNext(r) \in Event
         /\ NextTs(r) \in Nat /\ NextTs(r) = PeekNext(r).ts
         /\ \A f \in m_events[r] : NextTs(r) <= f.ts /\ Before(PeekNext(r), f)
<1>1. m_events[r] \in SUBSET Event
  BY DEF LbTypeOK
<1> QED
  BY <1>1, PeekNextProps DEF NextTs

LEMMA NewEventType ==
  ASSUME LbTypeOK, NEW r \in Rank, NEW i \in Nat, NEW ts \in Nat, NEW c \in Context, NEW k \in EventKind
  PROVE  /\ NewEvent(r, i, ts, c, k) \in Event
         /\ NewEvent(r, i, ts, c, k).kind = k /\ NewEvent(r, i, ts, c, k).ts = ts
         /\ NewEvent(r, i, ts, c, k).uid = m_uid[r] + i
<1>1. m_uid[r] \in Nat
  BY DEF LbTypeOK
<1> QED
  BY <1>1 DEF NewEvent, Event

LEMMA ConsumeFacts ==
  ASSUME LbTypeOK, NEW r \in Rank, NEW k \in Nat, NEW new \in SUBSET Event, NEW kinds,
         \A f \in new : f.kind \in kinds, Consume(r, new, k),
         m_txCount' \in [Rank -> 0 .. W - 1], net' \in [Slot -> Msg \cup {NoMsg}]
  PROVE  Inserts(r, new, kinds)
<1>1. m_uid \in [Rank -> Nat] /\ m_uid' = [m_uid EXCEPT ![r] = @ + k]
  BY DEF LbTypeOK, Consume
<1>2. m_uid' \in [Rank -> Nat] /\ \A q \in Rank : m_uid'[q] >= m_uid[q]
  BY <1>1
<1> QED
  BY <1>2 DEF Consume, Inserts

\* A node transmits: as an event's handler, or as an application that was moved.
LEMMA TransmitFacts ==
  ASSUME LbTypeOK, NEW r \in Rank, m_events[r] # {}, NEW n \in Node, NEW c \in Context,
         NEW k \in {"node", "app"}, Transmit(r, m_sid[r], n, c, k)
  PROVE  \E new : Inserts(r, new, {"node", "app"})
<1> DEFINE t == NextTs(r)
<1>1. t \in Nat /\ k \in EventKind /\ "node" \in EventKind
  BY LbPeekNext DEF EventKind
<1>2. PICK l \in Link, tx \in TxTime :
        /\ n \in {Ends[l][1], Ends[l][2]}
        /\ \/ TransmitLocal(r, n, NewEvent(r, 0, t + tx, c, k), l, tx)
           \/ TransmitRemote(r, m_sid[r], n, NewEvent(r, 0, t + tx, c, k), l, tx)
  BY DEF Transmit
<1> DEFINE p == Peer(n, l)
           done == NewEvent(r, 0, t + tx, c, k)
           rx == NewEvent(r, 1, t + tx + Delay[l], p, "node")
<1>3. p \in Node /\ p \in Context /\ m_sid[r][p] \in Rank
  <2>1. Ends[l][1] \in Node /\ Ends[l][2] \in Node
    BY LinkAssumption
  <2>2. p \in Node
    BY <2>1 DEF Peer
  <2>3. m_sid[r] \in [Node -> Rank]
    BY DEF LbTypeOK
  <2> QED
    BY <2>2, <2>3 DEF Context
<1>4. t + tx \in Nat /\ t + tx + Delay[l] \in Nat
  BY <1>1, TimeAssumption, LinkAssumption
<1> HIDE DEF t, p
<1>5. done \in Event /\ done.kind = k /\ rx \in Event /\ rx.kind = "node"
  BY <1>1, <1>3, <1>4, NewEventType
<1> HIDE DEF done, rx
<1>6. CASE TransmitLocal(r, n, done, l, tx)
  <2>1. Consume(r, {done, rx}, 2) /\ UNCHANGED <<m_txCount, net>>
    BY <1>6 DEF TransmitLocal, p, rx, t
  <2>2. m_txCount' \in [Rank -> 0 .. W - 1] /\ net' \in [Slot -> Msg \cup {NoMsg}]
    BY <2>1 DEF LbTypeOK
  <2>3. Inserts(r, {done, rx}, {"node", "app"})
    BY <1>5, <2>1, <2>2, ConsumeFacts
  <2> QED
    BY <2>3
<1>7. CASE TransmitRemote(r, m_sid[r], n, done, l, tx)
  <2> DEFINE m == [dst |-> m_sid[r][p], ts |-> t + tx + Delay[l], node |-> p, link |-> l]
  <2>1. PICK s \in Slot : net' = [net EXCEPT ![s] = m]
    BY <1>7 DEF TransmitRemote, p, t
  <2>2. m \in Msg
    BY <1>3, <1>4 DEF Msg
  <2> HIDE DEF m
  <2>3. net' \in [Slot -> Msg \cup {NoMsg}]
    BY <2>1, <2>2 DEF LbTypeOK
  <2>4. m_txCount' \in [Rank -> 0 .. W - 1]
    <3>1. m_txCount' = [m_txCount EXCEPT ![r] = (@ + 1) % W] /\ m_txCount \in [Rank -> 0 .. W - 1]
      BY <1>7 DEF TransmitRemote, Increment, LbTypeOK
    <3> QED
      BY <3>1, CounterWidth
  <2>5. Inserts(r, {done}, {"node", "app"})
    <3>1. Consume(r, {done}, 1)
      BY <1>7 DEF TransmitRemote
    <3> QED
      BY <1>5, <2>3, <2>4, <3>1, ConsumeFacts
  <2> QED
    BY <2>5
<1> QED
  BY <1>2, <1>6, <1>7 DEF done

\* Every way of taking an event is of this form.
LEMMA TakesFacts ==
  ASSUME LbTypeOK, NEW r \in Rank,
         \/ ProcessOneEvent(r, m_sid[r]) /\ UNCHANGED lbVars
         \/ Reclustering(r) \/ ProcessApp(r) \/ ProcessAdded(r)
  PROVE  \E new : Takes(r, new)
<1> DEFINE e == PeekNext(r)
<1>1. MayProcess(r) /\ m_events[r] # {}
  BY DEF ProcessOneEvent, ProcessQuietly, ProcessSchedule, ProcessTransmit, ProcessStop, ProcessLbStart,
         HandlerActs, Reclustering, ProcessApp, ProcessAdded, MayProcess, IsFinished
<1>2. e \in Event /\ NextTs(r) \in Nat
  BY <1>1, LbPeekNext
<1>3. /\ e.ctx \in Context /\ NoContext \in Context
      /\ "node" \in EventKind /\ "app" \in EventKind /\ "recluster" \in EventKind
  BY <1>2 DEF Event, EventKind, Context
<1> HIDE DEF e
<1>4. m_txCount \in [Rank -> 0 .. W - 1] /\ net \in [Slot -> Msg \cup {NoMsg}]
  BY DEF LbTypeOK
\* Taken without a new event
<1>5. ASSUME Consume(r, {}, 0), UNCHANGED <<m_txCount, net>>, NEW kinds PROVE Inserts(r, {}, kinds)
  <2>1. \A f \in {} : f.kind \in kinds
    OBVIOUS
  <2> QED
    BY <1>4, <1>5, <2>1, ConsumeFacts
\* Taken with one new event
<1>6. ASSUME NEW d \in StepDelay, NEW c \in Context, NEW k \in {"node", "app"},
             Consume(r, {NewEvent(r, 0, NextTs(r) + d, c, k)}, 1), UNCHANGED <<m_txCount, net>>
      PROVE  \E new : Inserts(r, new, {"node", "app"})
  <2> DEFINE f == NewEvent(r, 0, NextTs(r) + d, c, k)
  <2>1. NextTs(r) + d \in Nat /\ k \in EventKind
    BY <1>2, TimeAssumption DEF EventKind
  <2>2. f \in Event /\ f.kind = k
    BY <2>1, NewEventType
  <2> HIDE DEF f
  <2>3. Inserts(r, {f}, {"node", "app"})
    BY <1>4, <1>6, <2>2, ConsumeFacts DEF f
  <2> QED
    BY <2>3
<1>7. CASE ProcessOneEvent(r, m_sid[r]) /\ UNCHANGED lbVars
  <2>1. CASE ProcessQuietly(r)
    <3>1. Inserts(r, {}, {"node", "app"}) /\ e.kind = "node"
      BY <1>5, <2>1 DEF ProcessQuietly, e
    <3>2. Takes(r, {})
      BY <1>1, <1>7, <2>1, <3>1 DEF ProcessQuietly, Takes, e
    <3> QED
      BY <3>2
  <2>2. CASE ProcessSchedule(r, m_sid[r]) \/ ProcessTransmit(r, m_sid[r])
    <3>1. e.kind = "node" /\ UNCHANGED <<pc, m_grantedTime, m_stop, m_rxCount, m_pLBTS>>
      BY <2>2 DEF ProcessSchedule, ProcessTransmit, HandlerActs, e
    <3>2. CASE ProcessSchedule(r, m_sid[r])
      <4>1. \E new : Inserts(r, new, {"node", "app"})
        <5>1. PICK d \in StepDelay : Consume(r, {NewEvent(r, 0, NextTs(r) + d, e.ctx, "node")}, 1)
          BY <3>2 DEF ProcessSchedule, e
        <5>2. UNCHANGED <<m_txCount, net>>
          BY <3>2 DEF ProcessSchedule
        <5> QED
          BY <1>3, <1>6, <5>1, <5>2
      <4> QED
        BY <1>1, <1>7, <3>1, <4>1 DEF Takes, e
    <3>3. CASE ProcessTransmit(r, m_sid[r])
      <4>1. e.ctx \in Node
        BY <3>3, InstalledAssumption DEF ProcessTransmit, HandlerActs, e
      <4>2. Transmit(r, m_sid[r], e.ctx, e.ctx, "node")
        BY <3>3 DEF ProcessTransmit, e
      <4>3. \E new : Inserts(r, new, {"node", "app"})
        BY <1>1, <1>3, <4>1, <4>2, TransmitFacts
      <4> QED
        BY <1>1, <1>7, <3>1, <4>3 DEF Takes, e
    <3> QED
      BY <2>2, <3>2, <3>3
  <2>3. CASE ProcessStop(r)
    <3>1. Inserts(r, {}, {"node", "app"}) /\ e.kind = "stop"
      BY <1>5, <2>3 DEF ProcessStop, e
    <3>2. Takes(r, {})
      BY <1>1, <1>7, <2>3, <3>1 DEF ProcessStop, Takes, e
    <3> QED
      BY <3>2
  <2>4. CASE ProcessLbStart(r)
    <3> DEFINE f == FirstReclustering(r)
    <3>1. NextTs(r) + ReclusteringInterval \in Nat
      BY <1>2, ReclusteringAssumption
    <3>2. f \in Event /\ f.kind = "recluster"
      BY <1>3, <3>1, NewEventType DEF FirstReclustering
    <3>3. Consume(r, {f}, 1) /\ UNCHANGED <<m_txCount, net>> /\ e.kind = "lb"
      BY <2>4 DEF ProcessLbStart, FirstReclustering, e
    <3> HIDE DEF f
    <3>4. Inserts(r, {f}, {"recluster"})
      BY <1>4, <3>2, <3>3, ConsumeFacts
    <3>5. Takes(r, {f})
      BY <1>1, <1>7, <2>4, <3>3, <3>4 DEF ProcessLbStart, Takes, e, f
    <3> QED
      BY <3>5
  <2> QED
    BY <1>7, <2>1, <2>2, <2>3, <2>4 DEF ProcessOneEvent
<1>8. CASE Reclustering(r)
  <2>1. Inserts(r, {}, {"node", "app"}) /\ e.kind = "recluster"
    BY <1>5, <1>8 DEF Reclustering, e
  <2>2. Takes(r, {})
    BY <1>1, <1>8, <2>1 DEF Reclustering, Takes, e
  <2> QED
    BY <2>2
<1>9. CASE ProcessAdded(r)
  <2>1. Inserts(r, {}, {"node", "app"}) /\ e.kind = "added"
    BY <1>5, <1>9 DEF ProcessAdded, e
  <2>2. Takes(r, {})
    BY <1>1, <1>9, <2>1 DEF ProcessAdded, Takes, e
  <2> QED
    BY <2>2
<1>10. CASE ProcessApp(r)
  <2>1. e.kind = "app" /\ UNCHANGED <<pc, m_grantedTime, m_stop, m_rxCount, m_pLBTS, lbVars>>
    BY <1>10 DEF ProcessApp, e
  <2>2. \E new : Inserts(r, new, {"node", "app"})
    <3>1. CASE Consume(r, {}, 0) /\ UNCHANGED <<m_txCount, net>>
      BY <1>5, <3>1
    <3>2. CASE /\ \E d \in StepDelay : Consume(r, {NewEvent(r, 0, NextTs(r) + d, NoContext, "app")}, 1)
               /\ UNCHANGED <<m_txCount, net>>
      BY <1>3, <1>6, <3>2
    <3>3. CASE \E n \in moved[r] : Transmit(r, m_sid[r], n, NoContext, "app")
      <4>1. PICK n \in moved[r] : Transmit(r, m_sid[r], n, NoContext, "app")
        BY <3>3
      <4>2. n \in Node
        BY DEF LbTypeOK
      <4> QED
        BY <1>1, <1>3, <4>1, <4>2, TransmitFacts
    <3> QED
      BY <1>10, <3>1, <3>2, <3>3 DEF ProcessApp
  <2> QED
    BY <1>1, <2>1, <2>2 DEF Takes, e
<1> QED
  BY <1>7, <1>8, <1>9, <1>10

\* The events of the applications that are created anew
LEMMA AppEventsType ==
  ASSUME LbTypeOK, NEW r \in Rank, NEW n \in Node, NEW k \in Nat
  PROVE  LET more == UNION {AppEvents(r, n, i) : i \in 0 .. k - 1}
         IN  more \in SUBSET Event /\ \A e \in more : e.kind \in {"app", "added"}
<1>1. ASSUME NEW i \in 0 .. k - 1, NEW e \in AppEvents(r, n, i)
      PROVE  e \in Event /\ e.kind \in {"app", "added"}
  <2>1. 2 * i \in Nat /\ 2 * i + 1 \in Nat
    OBVIOUS
  <2>2. m_currentTs[r] \in Nat /\ 2 * m_currentTs[r] \in Nat
    BY DEF LbTypeOK
  <2>3. /\ NoContext \in Context /\ n \in Context
        /\ "app" \in EventKind /\ "added" \in EventKind
    BY DEF Context, EventKind
  <2>4. PICK x \in Nat, t \in Nat, c \in Context, a \in {"app", "added"} : e = NewEvent(r, x, t, c, a)
    BY <1>1, <2>1, <2>2, <2>3 DEF AppEvents
  <2>5. e \in Event /\ e.kind = a
    BY <2>3, <2>4, NewEventType
  <2> QED
    BY <2>4, <2>5
<1> QED
  BY <1>1

\* Every step of the simulator and its balancer keeps the types and the stop.
LEMMA LbTypeStep == LbTyped /\ [LbNext]_allVars => LbTyped'
<1> SUFFICES ASSUME LbTypeOK, StopKept, [LbNext]_allVars PROVE LbTypeOK' /\ StopKept'
  BY DEF LbTyped
<1> USE DEF Phases
<1>1. ASSUME NEW r \in Rank, NEW new, Takes(r, new) PROVE LbTypeOK' /\ StopKept'
  <2>1. pc[r] = "run" /\ ~m_stop[r] /\ m_events[r] # {}
    BY <1>1 DEF Takes, MayProcess, IsFinished
  <2>2. PeekNext(r) \in m_events[r] /\ NextTs(r) \in Nat
    BY <2>1, LbPeekNext
  <2>3. Inserts(r, new, IF PeekNext(r).kind = "lb" THEN {"recluster"} ELSE {"node", "app"})
    BY <1>1 DEF Takes
  <2>4. new \in SUBSET Event /\ \A f \in new : f.kind # "stop"
    BY <2>3 DEF Inserts
  <2>5. m_events' = [m_events EXCEPT ![r] = (@ \ {PeekNext(r)}) \cup new]
    BY <2>3 DEF Inserts
  <2>6. m_events' \in [Rank -> SUBSET Event]
    BY <2>4, <2>5 DEF LbTypeOK
  <2>7. m_stop' \in [Rank -> BOOLEAN]
    BY <1>1 DEF Takes, LbTypeOK
  <2>8. pc' \in [Rank -> {"run", "recv", "gather", "lbts", "done"} \cup Phases]
    BY <1>1 DEF Takes, LbTypeOK
  <2>9. m_currentTs' \in [Rank -> Nat]
    BY <2>2, <2>3 DEF Inserts, LbTypeOK
  <2>10. LbTypeOK'
    BY <1>1, <2>3, <2>6, <2>7, <2>8, <2>9 DEF Takes, Inserts, LbTypeOK, lbVars
  <2>11. ASSUME NEW q \in Rank, q # r
         PROVE  m_events'[q] = m_events[q] /\ m_stop'[q] = m_stop[q] /\ pc'[q] = pc[q]
    BY <1>1, <2>5, <2>11 DEF Takes, LbTypeOK
  <2>12. m_events'[r] = (m_events[r] \ {PeekNext(r)}) \cup new
    BY <2>5 DEF LbTypeOK
  <2>13. \A e \in m_events'[r] : e.kind = "stop" => e = StopEvent
    BY <2>4, <2>12 DEF StopKept
  <2>14. pc'[r] # "done" /\ (m_stop'[r] => pc'[r] \in {"run", "done"})
    <3>1. CASE PeekNext(r).kind = "stop"
      BY <1>1, <2>1, <3>1 DEF Takes, LbTypeOK
    <3>2. CASE PeekNext(r).kind # "stop"
      BY <1>1, <2>1, <3>2 DEF Takes, LbTypeOK
    <3> QED
      BY <3>1, <3>2
  <2>15. ~m_stop'[r] => StopEvent \in m_events'[r]
    <3>1. CASE PeekNext(r).kind = "stop"
      BY <1>1, <3>1 DEF Takes, LbTypeOK
    <3>2. CASE PeekNext(r).kind # "stop"
      BY <2>1, <2>12, <3>2 DEF StopKept, StopEvent
    <3> QED
      BY <3>1, <3>2
  <2> QED
    BY <2>10, <2>11, <2>13, <2>14, <2>15 DEF StopKept
\* Steps that leave the queues and the stopping alone
<1>2. ASSUME m_events' = m_events, m_stop' = m_stop,
             \A r \in Rank : pc'[r] = "done" => pc[r] = "done" \/ m_stop[r],
             \A r \in Rank : m_stop[r] => pc'[r] \in {"run", "done"}
      PROVE  StopKept'
  BY <1>2 DEF StopKept
\* Steps that add events
<1>3. ASSUME m_stop' = m_stop, \A r \in Rank : pc'[r] = "done" => pc[r] = "done",
             \A r \in Rank : m_stop[r] => pc'[r] = pc[r],
             \A r \in Rank : /\ m_events[r] \subseteq m_events'[r]
                             /\ \A e \in m_events'[r] \ m_events[r] : e.kind # "stop"
      PROVE  StopKept'
  BY <1>3 DEF StopKept
<1>4. ASSUME NEW r \in Rank, Receive(r) PROVE LbTypeOK' /\ StopKept'
  <2>1. PICK s \in Slot :
          /\ net[s] # NoMsg
          /\ net' = [net EXCEPT ![s] = NoMsg]
          /\ m_events' = [m_events EXCEPT
                            ![r] = @ \cup {NewEvent(r, 0, net[s].ts, net[s].node, "node")}]
    BY <1>4 DEF Receive, ReceiveMessage
  <2> DEFINE f == NewEvent(r, 0, net[s].ts, net[s].node, "node")
  <2>2. net[s] \in Msg
    BY <2>1 DEF LbTypeOK
  <2>3. net[s].ts \in Nat /\ net[s].node \in Context /\ "node" \in EventKind
    BY <2>2 DEF Msg, Context, EventKind
  <2>4. f \in Event /\ f.kind = "node"
    BY <2>3, NewEventType
  <2> HIDE DEF f
  <2>5. m_events' \in [Rank -> SUBSET Event] /\ net' \in [Slot -> Msg \cup {NoMsg}]
    BY <2>1, <2>4 DEF LbTypeOK, f
  <2>6. m_rxCount' \in [Rank -> 0 .. W - 1]
    <3>1. m_rxCount' = [m_rxCount EXCEPT ![r] = (@ + 1) % W] /\ m_rxCount \in [Rank -> 0 .. W - 1]
      BY <1>4 DEF Receive, ReceiveMessage, Increment, LbTypeOK
    <3> QED
      BY <3>1, CounterWidth
  <2>7. m_uid' \in [Rank -> Nat]
    BY <1>4 DEF Receive, ReceiveMessage, LbTypeOK
  <2>8. UNCHANGED <<pc, m_currentTs, m_grantedTime, m_stop, m_txCount, m_pLBTS, lbVars>>
    BY <1>4 DEF Receive, ReceiveMessage
  <2>9. LbTypeOK'
    BY <2>5, <2>6, <2>7, <2>8 DEF LbTypeOK, lbVars
  <2>10. \A q \in Rank : /\ m_events[q] \subseteq m_events'[q]
                         /\ \A e \in m_events'[q] \ m_events[q] : e.kind # "stop"
    BY <2>1, <2>4 DEF LbTypeOK, f
  <2> QED
    BY <1>3, <2>8, <2>9, <2>10
<1>5. ASSUME NEW r \in Rank, EnterLbts(r) \/ ExitRun(r), UNCHANGED lbVars
      PROVE  LbTypeOK' /\ StopKept'
  <2>1. /\ UNCHANGED <<m_events, m_uid, m_currentTs, m_grantedTime, m_stop, m_rxCount, m_txCount,
                       m_pLBTS, net>>
        /\ pc' = [pc EXCEPT ![r] = pc'[r]]
        /\ (pc'[r] = "recv" /\ ~m_stop[r]) \/ (pc'[r] = "done" /\ m_stop[r])
    BY <1>5 DEF EnterLbts, ExitRun, IsFinished, LbTypeOK, StopKept
  <2>2. LbTypeOK'
    BY <1>5, <2>1 DEF LbTypeOK, lbVars
  <2>3. \A q \in Rank : q # r => pc'[q] = pc[q]
    BY <2>1 DEF LbTypeOK
  <2>4. \A q \in Rank : /\ pc'[q] = "done" => pc[q] = "done" \/ m_stop[q]
                        /\ m_stop[q] => pc'[q] \in {"run", "done"}
    BY <2>1, <2>3 DEF StopKept
  <2> QED
    BY <1>2, <2>1, <2>2, <2>4
<1>6. ASSUME NEW r \in Rank, EnterAllgather(r), UNCHANGED lbVars PROVE LbTypeOK' /\ StopKept'
  <2>1. m_events[r] # {} /\ ~m_stop[r]
    BY <1>6 DEF EnterAllgather, StopKept
  <2>2. Contribution(r) \in LbtsMessage
    BY <2>1, LbPeekNext DEF Contribution, LbtsMessage, LbTypeOK
  <2>3. m_pLBTS' \in [Rank -> [Rank -> LbtsMessage]]
    BY <1>6, <2>2 DEF EnterAllgather, LbTypeOK
  <2>4. LbTypeOK'
    BY <1>6, <2>3 DEF EnterAllgather, LbTypeOK, lbVars
  <2>5. \A q \in Rank : /\ pc'[q] = "done" => pc[q] = "done"
                        /\ m_stop[q] => pc'[q] \in {"run", "done"}
    BY <1>6, <2>1 DEF EnterAllgather, LbTypeOK, StopKept
  <2> QED
    BY <1>2, <1>6, <2>4, <2>5 DEF EnterAllgather
<1>7. ASSUME NEW r \in Rank, UpdateGrantedTime(r), UNCHANGED lbVars PROVE LbTypeOK' /\ StopKept'
  <2>1. m_pLBTS[r] \in [Rank -> LbtsMessage]
    BY DEF LbTypeOK
  <2>2. NewGrant(r) \in Nat
    <3>1. SmallestTime(r) \in Nat
      BY <2>1, LeastTimeProps DEF SmallestTime
    <3> QED
      BY <3>1, LookAheadType DEF NewGrant, LbTypeOK
  <2>3. m_grantedTime' \in [Rank -> Nat]
    BY <1>7, <2>2 DEF UpdateGrantedTime, LbTypeOK
  <2>4. LbTypeOK'
    BY <1>7, <2>3 DEF UpdateGrantedTime, LbTypeOK, lbVars
  <2>5. \A q \in Rank : /\ pc'[q] = "done" => pc[q] = "done"
                        /\ m_stop[q] => pc'[q] \in {"run", "done"}
    BY <1>7 DEF UpdateGrantedTime, LbTypeOK, StopKept
  <2> QED
    BY <1>2, <1>7, <2>4, <2>5 DEF UpdateGrantedTime
<1>8. CASE Allgather /\ UNCHANGED lbVars
  <2>1. m_pLBTS' \in [Rank -> [Rank -> LbtsMessage]]
    BY <1>8 DEF Allgather, LbTypeOK
  <2>2. pc' \in [Rank -> {"run", "recv", "gather", "lbts", "done"} \cup Phases]
    BY <1>8 DEF Allgather
  <2>3. LbTypeOK'
    BY <1>8, <2>1, <2>2 DEF Allgather, LbTypeOK, lbVars
  <2>4. \A q \in Rank : pc'[q] # "done" /\ ~m_stop[q]
    BY <1>8 DEF Allgather, StopKept
  <2> QED
    BY <1>2, <1>8, <2>3, <2>4 DEF Allgather
<1>9. CASE UNCHANGED allVars
  <2>1. LbTypeOK'
    BY <1>9 DEF allVars, vars, lbVars, LbTypeOK
  <2> QED
    BY <1>9, <2>1 DEF allVars, vars, StopKept
<1>10. CASE ClusterNetworkGraph
  <2>1. nodeQueue' \in [Rank -> SUBSET NodeForMoving]
    <3>1. CASE UNCHANGED nodeQueue
      BY <3>1 DEF LbTypeOK
    <3>2. ASSUME NEW c \in Clusterings,
                 nodeQueue' = [r \in Rank |-> {v \in NodesForMoving(c) : Addressee(v) = r}]
          PROVE  nodeQueue' \in [Rank -> SUBSET NodeForMoving]
      BY <3>2 DEF NodesForMoving
    <3> QED
      BY <1>10, <3>1, <3>2 DEF ClusterNetworkGraph
  <2>2. pc' \in [Rank -> {"run", "recv", "gather", "lbts", "done"} \cup Phases]
    BY <1>10 DEF ClusterNetworkGraph
  <2>3. LbTypeOK'
    BY <1>10, <2>1, <2>2 DEF ClusterNetworkGraph, simVars, LbTypeOK
  <2>4. \A q \in Rank : pc'[q] # "done" /\ ~m_stop[q]
    BY <1>10 DEF ClusterNetworkGraph, AllAt, StopKept
  <2> QED
    BY <1>2, <1>10, <2>3, <2>4 DEF ClusterNetworkGraph, simVars
<1>11. ASSUME NEW r \in Rank, MoveNode(r) PROVE LbTypeOK' /\ StopKept'
  <2>1. PICK v \in nodeQueue[r] :
          /\ nodeQueue' = [nodeQueue EXCEPT ![r] = @ \ {v}]
          /\ m_sid' = [m_sid EXCEPT ![r][v.context] = v.new_cluster]
          /\ appsQueue' = [appsQueue EXCEPT ![v.new_cluster] = @ \cup
                             {[context |-> v.context, count |-> m_apps[r][v.context]]}]
    BY <1>11 DEF MoveNode, PopNode
  <2>2. v.context \in Node /\ v.new_cluster \in Rank
    BY DEF LbTypeOK, NodeForMoving
  <2>3. nodeQueue' \in [Rank -> SUBSET NodeForMoving] /\ m_sid' \in [Rank -> [Node -> Rank]]
    BY <2>1, <2>2 DEF LbTypeOK
  <2>4. [context |-> v.context, count |-> m_apps[r][v.context]] \in AppsForMoving
    BY <2>2 DEF LbTypeOK, AppsForMoving
  <2>5. appsQueue' \in [Rank -> SUBSET AppsForMoving]
    BY <2>1, <2>2, <2>4 DEF LbTypeOK
  <2>6. LbTypeOK'
    BY <1>11, <2>3, <2>5 DEF MoveNode, simVars, LbTypeOK
  <2>7. \A q \in Rank : pc'[q] # "done" /\ ~m_stop[q]
    BY <1>11 DEF MoveNode, AllAt, StopKept
  <2> QED
    BY <1>2, <1>11, <2>6, <2>7 DEF MoveNode, simVars
<1>12. CASE CompleteNodes
  <2>1. pc' \in [Rank -> {"run", "recv", "gather", "lbts", "done"} \cup Phases]
    BY <1>12 DEF CompleteNodes
  <2>2. LbTypeOK'
    BY <1>12, <2>1 DEF CompleteNodes, simVars, lbVars, LbTypeOK
  <2>3. \A q \in Rank : pc'[q] # "done" /\ ~m_stop[q]
    BY <1>12 DEF CompleteNodes, AllAt, StopKept
  <2> QED
    BY <1>2, <1>12, <2>2, <2>3 DEF CompleteNodes, simVars
<1>13. ASSUME NEW r \in Rank, StartApps(r) PROVE LbTypeOK' /\ StopKept'
  <2>1. PICK v \in appsQueue[r] :
          /\ appsQueue' = [appsQueue EXCEPT ![r] = @ \ {v}]
          /\ m_apps' = [m_apps EXCEPT ![r][v.context] = @ + v.count]
          /\ moved' = [moved EXCEPT ![r] = IF v.count = 0 THEN @ ELSE @ \cup {v.context}]
          /\ m_events' = [m_events EXCEPT ![r] = @ \cup
                            UNION {AppEvents(r, v.context, i) : i \in 0 .. v.count - 1}]
          /\ m_uid' = [m_uid EXCEPT ![r] = @ + 2 * v.count]
    BY <1>13 DEF StartApps
  <2>2. v.context \in Node /\ v.count \in Nat
    BY DEF LbTypeOK, AppsForMoving
  <2>3. /\ appsQueue' \in [Rank -> SUBSET AppsForMoving] /\ moved' \in [Rank -> SUBSET Node]
        /\ m_uid' \in [Rank -> Nat]
    BY <2>1, <2>2 DEF LbTypeOK
  <2>4. m_apps' \in [Rank -> [Node -> Nat]]
    BY <2>1, <2>2 DEF LbTypeOK
  <2> DEFINE more == UNION {AppEvents(r, v.context, i) : i \in 0 .. v.count - 1}
  <2>5. more \in SUBSET Event /\ \A e \in more : e.kind \in {"app", "added"}
    BY <2>2, AppEventsType
  <2> HIDE DEF more
  <2>6. m_events' = [m_events EXCEPT ![r] = @ \cup more]
    BY <2>1 DEF more
  <2>7. m_events' \in [Rank -> SUBSET Event]
    BY <2>5, <2>6 DEF LbTypeOK
  <2>8. LbTypeOK'
    BY <1>13, <2>3, <2>4, <2>7 DEF StartApps, simVars, LbTypeOK
  <2>9. \A q \in Rank : /\ m_events[q] \subseteq m_events'[q]
                        /\ \A e \in m_events'[q] \ m_events[q] : e.kind # "stop"
    BY <2>5, <2>6 DEF LbTypeOK
  <2> QED
    BY <1>3, <1>13, <2>8, <2>9 DEF StartApps, simVars
<1>14. CASE CompleteApps
  <2> DEFINE f(r) == NewEvent(r, 0, m_currentTs[r] + ReclusteringInterval, NoContext, "recluster")
  <2>1. ASSUME NEW r \in Rank PROVE f(r) \in Event /\ f(r).kind = "recluster"
    <3>1. m_currentTs[r] + ReclusteringInterval \in Nat /\ NoContext \in Context
          /\ "recluster" \in EventKind
      BY ReclusteringAssumption DEF LbTypeOK, Context, EventKind
    <3> QED
      BY <3>1, NewEventType
  <2> HIDE DEF f
  <2>2. m_events' = [r \in Rank |-> m_events[r] \cup {f(r)}]
    BY <1>14 DEF CompleteApps, f
  <2>3. m_events' \in [Rank -> SUBSET Event]
    BY <2>1, <2>2 DEF LbTypeOK
  <2>4. m_uid' \in [Rank -> Nat]
    BY <1>14 DEF CompleteApps, LbTypeOK
  <2>5. pc' \in [Rank -> {"run", "recv", "gather", "lbts", "done"} \cup Phases]
    BY <1>14 DEF CompleteApps
  <2>6. LbTypeOK'
    BY <1>14, <2>3, <2>4, <2>5 DEF CompleteApps, simVars, lbVars, LbTypeOK
  <2>7. \A q \in Rank : /\ m_events[q] \subseteq m_events'[q]
                        /\ \A e \in m_events'[q] \ m_events[q] : e.kind # "stop"
    BY <2>1, <2>2
  <2>8. \A q \in Rank : pc'[q] = "run" /\ ~m_stop[q]
    BY <1>14 DEF CompleteApps, AllAt, StopKept
  <2> QED
    BY <1>3, <1>14, <2>6, <2>7, <2>8 DEF CompleteApps, simVars
<1>15. CASE Finished /\ UNCHANGED lbVars
  BY <1>9, <1>15 DEF Finished, allVars
<1>16. ASSUME NEW r \in Rank, LbStep(r) \/ Receive(r) PROVE LbTypeOK' /\ StopKept'
  <2>1. CASE \/ ProcessOneEvent(r, m_sid[r]) /\ UNCHANGED lbVars
             \/ Reclustering(r) \/ ProcessApp(r) \/ ProcessAdded(r)
    BY <1>1, <2>1, TakesFacts
  <2> QED
    BY <1>4, <1>5, <1>6, <1>7, <1>11, <1>13, <1>16, <2>1 DEF LbStep, RunStep
<1> QED
  BY <1>8, <1>9, <1>10, <1>12, <1>14, <1>15, <1>16 DEF LbNext, Collective


LEMMA LbTypedInit == LbInit => LbTyped
<1> SUFFICES ASSUME LbInit PROVE LbTyped
  OBVIOUS
<1>1. TypeOK
  BY TypeInit DEF LbInit
<1>2. LbTypeOK
  BY <1>1, SystemIdAssumption, InstalledAssumption
     DEF TypeOK, LbTypeOK, LbInit, NodeForMoving, AppsForMoving
<1>3. \A e \in InitialEvents : e.kind = "stop" => e = StopEvent
  BY DEF InitialEvents, StartEvent, LbStartEvent, StopEvent
<1>4. StopKept
  BY <1>3 DEF LbInit, Init, StopKept, InitialEvents
<1> QED
  BY <1>2, <1>4 DEF LbTyped

\* The types hold in all states of the load-balanced simulation, whatever the
\* clusterings: a rank that waits always has an event, its stop, to contribute.
THEOREM LbTypes == LbSpec => []LbTypeOK
<1>1. LbTyped => LbTypeOK
  BY DEF LbTyped
<1> QED
  BY <1>1, LbTypedInit, LbTypeStep, PTL DEF LbSpec

-------------------------------------------------------------------------------
(* The timetable of the reclusterings *)

\* OneReclustering and DueAt of one rank
Pending(r) == {e \in m_events[r] : e.kind = "recluster"}
Starts(r) == {e \in m_events[r] : e.kind = "lb"}
HasOne(r) ==
  /\ m_uid[r] >= 6 + NumNodes
  /\ \A e \in Pending(r) : e.uid >= 6 + NumNodes
  /\ \A e, f \in Pending(r) : e = f
  /\ Starts(r) \subseteq {LbStartEvent}
  /\ pc[r] \in Phases => Pending(r) = {} /\ Starts(r) = {}
  /\ pc[r] \notin Phases => (Pending(r) = {}) = (Starts(r) # {})
DueRank(r, t) ==
  /\ LbStartEvent \in m_events[r] => t = ReclusteringInterval
  /\ \A e \in m_events[r] : e.kind = "recluster" => e.ts = t
  /\ pc[r] \in Phases => m_currentTs[r] = t /\ m_grantedTime[r] >= t /\ t < StopTime
  /\ pc[r] \in {"recv", "gather"} => m_grantedTime[r] < t
  /\ m_stop[r] => StopTime <= t

LEMMA OneReclusteringRanks == OneReclustering <=> \A r \in Rank : HasOne(r)
BY DEF OneReclustering, HasOne, Pending, Starts

LEMMA DueAtRanks == \A t : DueAt(t) <=> \A r \in Rank : DueRank(r, t)
BY DEF DueAt, DueRank

\* A rank outside of MergeNetworkGraph never looks beyond the reclustering.
LEMMA ReclusteringAhead ==
  ASSUME LbTypeOK, NEW r \in Rank, NEW t \in Nat, HasOne(r), DueRank(r, t), pc[r] \notin Phases
  PROVE  /\ m_events[r] # {} /\ NextTs(r) <= t
         /\ (\E e \in m_events[r] : e.kind = "recluster" /\ e.ts = t) \/ NextTs(r) <= 0
<1>1. CASE Pending(r) # {}
  <2>1. PICK e \in m_events[r] : e.kind = "recluster"
    BY <1>1 DEF Pending
  <2>2. e.ts = t
    BY <2>1 DEF DueRank
  <2>3. NextTs(r) <= e.ts
    BY <2>1, LbPeekNext
  <2> QED
    BY <2>1, <2>2, <2>3
<1>2. CASE Pending(r) = {}
  <2>1. LbStartEvent \in m_events[r]
    BY <1>2 DEF HasOne, Starts
  <2>2. NextTs(r) <= 0 /\ NextTs(r) \in Nat
    BY <2>1, LbPeekNext DEF LbStartEvent
  <2> QED
    BY <2>1, <2>2
<1> QED
  BY <1>1, <1>2

\* A rank whose reclusterings stay as they are
LEMMA RankKeepsOne ==
  ASSUME LbTypeOK, LbTypeOK', NEW r \in Rank, HasOne(r),
         Pending(r)' = Pending(r), Starts(r)' = Starts(r), m_uid'[r] >= m_uid[r],
         (pc'[r] \in Phases) = (pc[r] \in Phases)
  PROVE  HasOne(r)'
<1>1. m_uid'[r] >= 6 + NumNodes
  BY NodeAssumption DEF HasOne, LbTypeOK
<1> HIDE DEF Pending, Starts, Phases
<1> QED
  BY <1>1 DEF HasOne

\* Steps in which no rank begins or ends its reclustering
LEMMA TimetableStays ==
  ASSUME LbTypeOK, LbTypeOK', OneReclustering, NEW t \in Nat, DueAt(t), GrantsAgree',
         PhasesAgree',
         \A r \in Rank :
           /\ Pending(r)' = Pending(r) /\ Starts(r)' = Starts(r) /\ m_uid'[r] >= m_uid[r]
           /\ (pc'[r] \in Phases) = (pc[r] \in Phases)
           /\ pc'[r] \in Phases => m_currentTs'[r] = m_currentTs[r] /\ m_grantedTime'[r] = m_grantedTime[r]
           /\ pc'[r] \in {"recv", "gather"} => m_grantedTime'[r] < t
           /\ m_stop'[r] => StopTime <= t
  PROVE  Timetable'
<1>1. ASSUME NEW r \in Rank PROVE HasOne(r)' /\ DueRank(r, t)'
  <2>1. HasOne(r) /\ DueRank(r, t)
    BY OneReclusteringRanks, DueAtRanks
  <2>2. HasOne(r)'
    BY <2>1, RankKeepsOne
  <2>3. LbStartEvent \in m_events'[r] => LbStartEvent \in m_events[r]
    BY DEF Starts, LbStartEvent
  <2>4. \A e \in m_events'[r] : e.kind = "recluster" => e \in m_events[r]
    BY DEF Pending
  <2>5. DueRank(r, t)'
    BY <2>1, <2>3, <2>4 DEF DueRank
  <2> QED
    BY <2>2, <2>5
<1>2. OneReclustering'
  BY <1>1 DEF OneReclustering, HasOne, Pending, Starts
<1>3. DueAt(t)'
  BY <1>1 DEF DueAt, DueRank
<1> QED
  BY <1>2, <1>3 DEF Timetable


\* Every step keeps the timetable: only CompleteApps puts the reclustering off,
\* and it does so on all ranks at once.
LEMMA TimetableStep ==
  ASSUME UniformLookAhead
  PROVE  LbTyped /\ Timetable /\ [LbNext]_allVars => Timetable'
<1> SUFFICES ASSUME LbTyped, Timetable, [LbNext]_allVars PROVE Timetable'
  OBVIOUS
<1>1. LbTypeOK /\ StopKept /\ LbTypeOK' /\ StopKept'
  BY LbTypeStep DEF LbTyped
<1>2. GrantsAgree /\ OneReclustering /\ PhasesAgree
  BY DEF Timetable
<1>3. PICK t \in Nat : DueAt(t)
  BY DEF Timetable
<1>4. ASSUME NEW r \in Rank PROVE HasOne(r) /\ DueRank(r, t)
  BY <1>2, <1>3, OneReclusteringRanks, DueAtRanks
<1>5. \A r \in Rank : m_grantedTime[r] \in Nat /\ m_uid[r] \in Nat
  BY <1>1 DEF LbTypeOK
\* Outside of "nodes" and "apps", PhasesAgree is about nobody.
<1>6. ASSUME NEW r \in Rank, pc[r] \notin {"nodes", "apps"},
             \A q \in Rank : pc'[q] \in {"nodes", "apps"} => pc[q] = pc'[q]
      PROVE  PhasesAgree'
  BY <1>2, <1>6 DEF PhasesAgree
<1>7. ASSUME NEW r \in Rank, NEW new, Takes(r, new) PROVE Timetable'
  <2> DEFINE e == PeekNext(r)
  <2>1. pc[r] = "run" /\ ~m_stop[r] /\ m_events[r] # {} /\ NextTs(r) <= m_grantedTime[r]
    BY <1>7 DEF Takes, MayProcess, IsFinished
  <2>2. /\ e \in m_events[r] /\ NextTs(r) \in Nat /\ NextTs(r) = e.ts /\ e \in Event
        /\ \A f \in m_events[r] : NextTs(r) <= f.ts /\ Before(e, f)
    BY <1>1, <2>1, LbPeekNext
  <2>3. /\ m_events'[r] = (m_events[r] \ {e}) \cup new
        /\ \A q \in Rank : q # r => /\ m_events'[q] = m_events[q] /\ m_stop'[q] = m_stop[q]
                                    /\ m_currentTs'[q] = m_currentTs[q] /\ pc'[q] = pc[q]
        /\ \A q \in Rank : m_uid'[q] >= m_uid[q]
        /\ m_currentTs'[r] = NextTs(r)
    BY <1>1, <1>7 DEF Takes, Inserts, LbTypeOK
  <2>4. /\ pc'[r] = IF e.kind = "recluster" THEN "graph" ELSE "run"
        /\ m_grantedTime' = m_grantedTime /\ m_pLBTS' = m_pLBTS
    BY <1>1, <1>7, <2>1 DEF Takes, LbTypeOK
  <2>5. /\ e.kind # "lb" => \A f \in new : f.kind \in {"node", "app"}
        /\ e.kind = "lb" => new = {FirstReclustering(r)}
    BY <1>7 DEF Takes, Inserts
  <2>6. HasOne(r) /\ DueRank(r, t) /\ pc[r] \notin Phases
    BY <1>4, <2>1 DEF Phases
  <2>7. GrantsAgree' /\ PhasesAgree'
    <3>1. \A q \in Rank : (pc'[q] = "lbts" => pc[q] = "lbts") /\ (pc[q] = "lbts" => pc'[q] = "lbts")
      BY <2>1, <2>3, <2>4
    <3>2. GrantsAgree'
      BY <1>2, <2>4, <3>1, GrantsStay
    <3> QED
      BY <1>6, <2>1, <2>3, <2>4, <3>2
  <2> HIDE DEF e
  <2>8. ASSUME NEW q \in Rank, q # r PROVE HasOne(q)' /\ DueRank(q, t)'
    <3>1. HasOne(q) /\ DueRank(q, t)
      BY <1>4
    <3>2. Pending(q)' = Pending(q) /\ Starts(q)' = Starts(q)
      BY <2>3, <2>8 DEF Pending, Starts
    <3>3. HasOne(q)'
      BY <1>1, <2>3, <2>8, <3>1, <3>2, RankKeepsOne
    <3>4. DueRank(q, t)'
      BY <2>3, <2>4, <2>8, <3>1 DEF DueRank
    <3> QED
      BY <3>3, <3>4
  <2>9. HasOne(r)' /\ DueRank(r, t)'
    <3>1. CASE e.kind = "recluster"
      <4>1. e.ts = t /\ e.uid >= 6 + NumNodes
        BY <2>2, <2>6, <3>1 DEF DueRank, HasOne, Pending
      <4>2. StopEvent \in m_events[r] /\ StopEvent.ts = StopTime /\ StopEvent.uid = 4 + NumNodes
        BY <1>1, <2>1 DEF StopKept, StopEvent
      <4>3. Before(e, StopEvent) /\ e.uid \in Nat
        BY <2>2, <4>2 DEF Event
      <4>4. t < StopTime
        BY <4>1, <4>2, <4>3, TimeAssumption, NodeAssumption DEF Before
      <4>5. Pending(r)' = {} /\ Starts(r)' = {}
        <5>1. \A f \in Pending(r) : f = e
          BY <2>2, <2>6, <3>1 DEF HasOne, Pending
        <5>2. Starts(r) = {}
          BY <2>2, <2>6, <3>1 DEF HasOne, Pending
        <5>3. \A f \in new : f.kind \notin {"recluster", "lb"}
          BY <2>5, <3>1
        <5> QED
          BY <2>3, <5>1, <5>2, <5>3 DEF Pending, Starts
      <4>6. m_uid'[r] >= 6 + NumNodes
        BY <1>1, <1>5, <2>3, <2>6, NodeAssumption DEF HasOne, LbTypeOK
      <4>7. pc'[r] = "graph" /\ pc'[r] \in Phases
        BY <2>4, <3>1 DEF Phases
      <4>8. HasOne(r)'
        BY <4>5, <4>6, <4>7 DEF HasOne
      <4>9. ~m_stop'[r]
        BY <1>7, <2>1, <3>1 DEF Takes, e
      <4>10. DueRank(r, t)'
        <5>1. LbStartEvent \notin m_events'[r] /\ \A f \in m_events'[r] : f.kind # "recluster"
          BY <4>5 DEF Pending, Starts, LbStartEvent
        <5>2. m_currentTs'[r] = t /\ m_grantedTime'[r] >= t
          BY <1>5, <2>1, <2>2, <2>3, <2>4, <4>1
        <5> QED
          BY <4>4, <4>7, <4>9, <5>1, <5>2 DEF DueRank
      <4> QED
        BY <4>8, <4>10
    <3>2. CASE e.kind = "lb"
      <4> DEFINE f == FirstReclustering(r)
      <4>1. e = LbStartEvent /\ Pending(r) = {} /\ Starts(r) = {e}
        BY <2>2, <2>6, <3>2 DEF HasOne, Starts
      <4>2. t = ReclusteringInterval /\ NextTs(r) = 0
        BY <2>2, <2>6, <4>1 DEF DueRank, LbStartEvent
      <4>3. f.kind = "recluster" /\ f.ts = t /\ f.uid = m_uid[r] /\ new = {f}
        BY <1>5, <2>5, <3>2, <4>2, ReclusteringAssumption DEF FirstReclustering, NewEvent
      <4> HIDE DEF f
      <4>4. Pending(r)' = {f} /\ Starts(r)' = {}
        BY <2>3, <4>1, <4>3 DEF Pending, Starts
      <4>5. m_uid'[r] >= 6 + NumNodes /\ f.uid >= 6 + NumNodes
        BY <1>1, <1>5, <2>3, <2>6, <4>3, NodeAssumption DEF HasOne, LbTypeOK
      <4>6. pc'[r] = "run" /\ pc'[r] \notin Phases
        BY <2>4, <3>2 DEF Phases
      <4>7. HasOne(r)'
        BY <4>4, <4>5, <4>6 DEF HasOne
      <4>8. ~m_stop'[r]
        BY <1>7, <2>1, <3>2 DEF Takes, e
      <4>9. LbStartEvent \notin m_events'[r]
        BY <4>4 DEF Starts, LbStartEvent
      <4>10. \A g \in m_events'[r] : g.kind = "recluster" => g.ts = t
        BY <4>3, <4>4 DEF Pending
      <4>11. DueRank(r, t)'
        BY <4>6, <4>8, <4>9, <4>10 DEF DueRank
      <4> QED
        BY <4>7, <4>11
    <3>3. CASE e.kind \notin {"recluster", "lb"}
      <4>1. \A f \in new : f.kind \notin {"recluster", "lb"}
        BY <2>5, <3>3
      <4>2. Pending(r)' = Pending(r) /\ Starts(r)' = Starts(r)
        BY <2>3, <3>3, <4>1 DEF Pending, Starts
      <4>3. pc'[r] = "run" /\ pc'[r] \notin Phases
        BY <2>4, <3>3 DEF Phases
      <4>4. HasOne(r)'
        BY <1>1, <2>3, <2>6, <4>2, <4>3, RankKeepsOne
      <4>5. m_stop'[r] => StopTime <= t
        <5>1. m_stop'[r] => e.kind = "stop"
          BY <1>7, <2>1 DEF Takes, e
        <5>2. e.kind = "stop" => NextTs(r) = StopTime
          BY <1>1, <2>2 DEF StopKept, StopEvent
        <5>3. NextTs(r) <= t
          BY <1>1, <2>6, ReclusteringAhead
        <5> QED
          BY <5>1, <5>2, <5>3
      <4>6. LbStartEvent \in m_events'[r] => LbStartEvent \in m_events[r]
        BY <4>2 DEF Starts, LbStartEvent
      <4>7. \A f \in m_events'[r] : f.kind = "recluster" => f \in m_events[r]
        BY <4>2 DEF Pending
      <4>8. DueRank(r, t)'
        BY <2>6, <4>3, <4>5, <4>6, <4>7 DEF DueRank
      <4> QED
        BY <4>4, <4>8
    <3> QED
      BY <3>1, <3>2, <3>3
  <2>10. \A q \in Rank : HasOne(q)' /\ DueRank(q, t)'
    BY <2>8, <2>9
  <2>11. OneReclustering'
    BY <2>10 DEF OneReclustering, HasOne, Pending, Starts
  <2>12. DueAt(t)'
    BY <2>10 DEF DueAt, DueRank
  <2> QED
    BY <2>7, <2>11, <2>12 DEF Timetable
\* The queues stay; only pc, the grants and the LBTS messages change.
<1>8. ASSUME NEW r \in Rank, m_events' = m_events, m_uid' = m_uid, m_stop' = m_stop,
             m_currentTs' = m_currentTs, GrantsAgree',
             pc[r] \notin Phases, pc'[r] \notin Phases,
             \A q \in Rank : q # r => pc'[q] = pc[q] /\ m_grantedTime'[q] = m_grantedTime[q],
             pc'[r] \in {"recv", "gather"} => m_grantedTime'[r] < t
      PROVE  Timetable'
  <2>1. PhasesAgree'
    BY <1>6, <1>8 DEF Phases
  <2>2. ASSUME NEW q \in Rank
        PROVE  /\ Pending(q)' = Pending(q) /\ Starts(q)' = Starts(q) /\ m_uid'[q] >= m_uid[q]
               /\ (pc'[q] \in Phases) = (pc[q] \in Phases)
               /\ pc'[q] \in Phases => m_currentTs'[q] = m_currentTs[q] /\ m_grantedTime'[q] = m_grantedTime[q]
               /\ pc'[q] \in {"recv", "gather"} => m_grantedTime'[q] < t
               /\ m_stop'[q] => StopTime <= t
    <3>1. DueRank(q, t)
      BY <1>4
    <3>2. Pending(q)' = Pending(q) /\ Starts(q)' = Starts(q) /\ m_uid'[q] >= m_uid[q]
      BY <1>5, <1>8 DEF Pending, Starts
    <3>3. q = r \/ (q # r /\ pc'[q] = pc[q] /\ m_grantedTime'[q] = m_grantedTime[q])
      BY <1>8
    <3> QED
      BY <1>8, <3>1, <3>2, <3>3 DEF DueRank
  <2> QED
    BY <1>1, <1>2, <1>3, <1>8, <2>1, <2>2, TimetableStays
<1>9. ASSUME NEW r \in Rank, Receive(r) PROVE Timetable'
  <2>1. PICK s \in Slot :
          m_events' = [m_events EXCEPT
                         ![r] = @ \cup {NewEvent(r, 0, net[s].ts, net[s].node, "node")}]
    BY <1>9 DEF Receive, ReceiveMessage
  <2>2. UNCHANGED <<pc, m_currentTs, m_grantedTime, m_stop, m_pLBTS>>
        /\ m_uid' = [m_uid EXCEPT ![r] = @ + 1]
    BY <1>9 DEF Receive, ReceiveMessage
  <2>3. GrantsAgree' /\ PhasesAgree'
    <3>1. GrantsAgree'
      BY <1>2, <2>2, GrantsStay
    <3> QED
      BY <1>2, <2>2, <3>1 DEF PhasesAgree
  <2>4. ASSUME NEW q \in Rank
        PROVE  Pending(q)' = Pending(q) /\ Starts(q)' = Starts(q) /\ m_uid'[q] >= m_uid[q]
    <3>1. m_uid'[q] >= m_uid[q]
      BY <1>1, <1>5, <2>2 DEF LbTypeOK
    <3> DEFINE f == NewEvent(r, 0, net[s].ts, net[s].node, "node")
    <3>2. f.kind = "node"
      BY DEF NewEvent
    <3> HIDE DEF f
    <3>3. m_events'[q] = IF q = r THEN m_events[q] \cup {f} ELSE m_events[q]
      BY <1>1, <2>1 DEF LbTypeOK, f
    <3> QED
      BY <3>1, <3>2, <3>3 DEF Pending, Starts
  <2>5. \A q \in Rank : /\ pc[q] \in {"recv", "gather"} => m_grantedTime[q] < t
                        /\ m_stop[q] => StopTime <= t
    BY <1>4 DEF DueRank
  <2> QED
    BY <1>1, <1>2, <1>3, <2>2, <2>3, <2>4, <2>5, TimetableStays
<1>10. ASSUME NEW r \in Rank, EnterLbts(r), UNCHANGED lbVars PROVE Timetable'
  <2>1. /\ pc[r] = "run" /\ NextTs(r) > m_grantedTime[r]
        /\ pc' = [pc EXCEPT ![r] = "recv"]
        /\ UNCHANGED <<m_events, m_uid, m_currentTs, m_grantedTime, m_stop, m_pLBTS>>
    BY <1>10 DEF EnterLbts
  <2>2. /\ pc'[r] = "recv" /\ \A q \in Rank : q # r => pc'[q] = pc[q]
        /\ pc[r] \notin Phases /\ pc'[r] \notin Phases
    BY <1>1, <2>1 DEF LbTypeOK, Phases
  <2>3. NextTs(r) <= t /\ NextTs(r) \in Nat
    BY <1>1, <1>4, <2>2, ReclusteringAhead, LbPeekNext
  <2>4. m_grantedTime'[r] < t
    BY <1>5, <2>1, <2>3
  <2>5. GrantsAgree'
    BY <1>2, <2>1, <2>2, GrantsStay
  <2> QED
    BY <1>8, <2>1, <2>2, <2>4, <2>5
<1>11. ASSUME NEW r \in Rank, EnterAllgather(r) \/ ExitRun(r), UNCHANGED lbVars PROVE Timetable'
  <2>1. /\ UNCHANGED <<m_events, m_uid, m_currentTs, m_grantedTime, m_stop>>
        /\ (pc[r] = "recv" /\ pc'[r] = "gather") \/ (pc[r] = "run" /\ pc'[r] = "done")
        /\ \A q \in Rank : q # r => pc'[q] = pc[q] /\ m_pLBTS'[q] = m_pLBTS[q]
    BY <1>1, <1>11 DEF EnterAllgather, ExitRun, LbTypeOK
  <2>2. GrantsAgree'
    <3>1. \A q \in Rank : /\ pc'[q] = "lbts" => pc[q] = "lbts"
                          /\ pc[q] = "lbts" => pc'[q] = "lbts" /\ m_pLBTS'[q] = m_pLBTS[q]
      BY <2>1
    <3> QED
      BY <1>2, <2>1, <3>1, GrantsStay
  <2>3. pc'[r] \in {"recv", "gather"} => m_grantedTime'[r] < t
    BY <1>4, <2>1 DEF DueRank
  <2>4. pc[r] \notin Phases /\ pc'[r] \notin Phases
    BY <2>1 DEF Phases
  <2> QED
    BY <1>8, <2>1, <2>2, <2>3, <2>4
<1>12. ASSUME NEW r \in Rank, UpdateGrantedTime(r), UNCHANGED lbVars PROVE Timetable'
  <2>1. /\ UNCHANGED <<m_events, m_uid, m_currentTs, m_stop>>
        /\ pc[r] = "lbts" /\ pc'[r] = "run"
        /\ \A q \in Rank : q # r => pc'[q] = pc[q] /\ m_grantedTime'[q] = m_grantedTime[q]
    BY <1>1, <1>12 DEF UpdateGrantedTime, LbTypeOK
  <2>2. GrantsAgree'
    BY <1>1, <1>2, <1>12, GrantsUpdate DEF LbTypeOK
  <2>3. pc[r] \notin Phases /\ pc'[r] \notin Phases
    BY <2>1 DEF Phases
  <2> QED
    BY <1>8, <2>1, <2>2, <2>3
\* All ranks together; the queues stay.
<1>13. ASSUME m_events' = m_events, m_uid' = m_uid, m_stop' = m_stop, m_currentTs' = m_currentTs,
              m_grantedTime' = m_grantedTime, GrantsAgree',
              NEW p, NEW p2, \A q \in Rank : pc[q] = p /\ pc'[q] = p2,
              (p \in Phases) = (p2 \in Phases), p2 \notin {"recv", "gather"}
       PROVE  Timetable'
  <2>1. PhasesAgree'
    BY <1>13 DEF PhasesAgree
  <2>2. \A q \in Rank : Pending(q)' = Pending(q) /\ Starts(q)' = Starts(q) /\ m_uid'[q] >= m_uid[q]
    BY <1>5, <1>13 DEF Pending, Starts
  <2>3. \A q \in Rank : m_stop[q] => StopTime <= t
    BY <1>4 DEF DueRank
  <2>4. \A q \in Rank : /\ (pc'[q] \in Phases) = (pc[q] \in Phases)
                        /\ pc'[q] \notin {"recv", "gather"}
    BY <1>13
  <2> QED
    BY <1>1, <1>2, <1>3, <1>13, <2>1, <2>2, <2>3, <2>4, TimetableStays
<1>14. CASE Allgather /\ UNCHANGED lbVars
  <2>1. GrantsAgree'
    BY <1>2, <1>14, GrantsGather
  <2>2. \A q \in Rank : pc[q] = "gather" /\ pc'[q] = "lbts"
    BY <1>14 DEF Allgather
  <2>3. UNCHANGED <<m_events, m_uid, m_currentTs, m_grantedTime, m_stop>>
    BY <1>14 DEF Allgather
  <2>4. "gather" \notin Phases /\ "lbts" \notin Phases
    BY DEF Phases
  <2> QED
    BY <1>13, <2>1, <2>2, <2>3, <2>4
<1>15. CASE ClusterNetworkGraph \/ CompleteNodes
  <2>1. UNCHANGED <<m_events, m_uid, m_currentTs, m_grantedTime, m_stop, m_pLBTS>>
    BY <1>15 DEF ClusterNetworkGraph, CompleteNodes, simVars
  <2>2. \/ \A q \in Rank : pc[q] = "graph" /\ pc'[q] = "nodes"
        \/ \A q \in Rank : pc[q] = "nodes" /\ pc'[q] = "apps"
    BY <1>15 DEF ClusterNetworkGraph, CompleteNodes, AllAt
  <2>3. GrantsAgree'
    <3>1. \A q \in Rank : pc[q] # "lbts" /\ pc'[q] # "lbts"
      BY <2>2
    <3> QED
      BY <1>2, <2>1, <3>1, GrantsStay
  <2>4. "graph" \in Phases /\ "nodes" \in Phases /\ "apps" \in Phases
    BY DEF Phases
  <2> QED
    BY <1>13, <2>1, <2>2, <2>3, <2>4
<1>16. CASE \E r \in Rank : MoveNode(r)
  <2>1. UNCHANGED <<pc, m_events, m_uid, m_currentTs, m_grantedTime, m_stop, m_pLBTS>>
        /\ \A q \in Rank : pc[q] = "nodes"
    BY <1>16 DEF MoveNode, AllAt, simVars
  <2>2. GrantsAgree'
    BY <1>2, <2>1, GrantsStay
  <2>3. \A q \in Rank : pc[q] = "nodes" /\ pc'[q] = "nodes"
    BY <2>1
  <2> QED
    BY <1>13, <2>1, <2>2, <2>3
<1>17. ASSUME NEW r \in Rank, StartApps(r) PROVE Timetable'
  <2>1. PICK v \in appsQueue[r] :
          /\ m_events' = [m_events EXCEPT ![r] = @ \cup
                            UNION {AppEvents(r, v.context, i) : i \in 0 .. v.count - 1}]
          /\ m_uid' = [m_uid EXCEPT ![r] = @ + 2 * v.count]
    BY <1>17 DEF StartApps
  <2>2. v.context \in Node /\ v.count \in Nat
    BY <1>1 DEF LbTypeOK, AppsForMoving
  <2> DEFINE more == UNION {AppEvents(r, v.context, i) : i \in 0 .. v.count - 1}
  <2>3. \A f \in more : f.kind \in {"app", "added"}
    BY <1>1, <2>2, AppEventsType
  <2> HIDE DEF more
  <2>4. ASSUME NEW q \in Rank
        PROVE  Pending(q)' = Pending(q) /\ Starts(q)' = Starts(q) /\ m_uid'[q] >= m_uid[q]
    <3>1. m_uid'[q] >= m_uid[q]
      <4>1. m_uid'[q] = IF q = r THEN m_uid[q] + 2 * v.count ELSE m_uid[q]
        BY <1>1, <2>1 DEF LbTypeOK
      <4> QED
        BY <1>5, <2>2, <4>1
    <3>2. m_events'[q] = IF q = r THEN m_events[q] \cup more ELSE m_events[q]
      BY <1>1, <2>1 DEF LbTypeOK, more
    <3> QED
      BY <2>3, <3>1, <3>2 DEF Pending, Starts
  <2>5. UNCHANGED <<pc, m_currentTs, m_grantedTime, m_stop, m_pLBTS>>
    BY <1>17 DEF StartApps, simVars
  <2>6. GrantsAgree' /\ PhasesAgree'
    <3>1. GrantsAgree'
      BY <1>2, <2>5, GrantsStay
    <3> QED
      BY <1>2, <2>5, <3>1 DEF PhasesAgree
  <2>7. \A q \in Rank : /\ pc[q] \in {"recv", "gather"} => m_grantedTime[q] < t
                        /\ m_stop[q] => StopTime <= t
    BY <1>4 DEF DueRank
  <2> QED
    BY <1>1, <1>2, <1>3, <2>4, <2>5, <2>6, <2>7, TimetableStays
<1>18. CASE CompleteApps
  <2> DEFINE u == t + ReclusteringInterval
             f(r) == NewEvent(r, 0, m_currentTs[r] + ReclusteringInterval, NoContext, "recluster")
  <2>1. \A r \in Rank : pc[r] = "apps" /\ pc'[r] = "run"
    BY <1>18 DEF CompleteApps, AllAt
  <2>2. UNCHANGED <<m_currentTs, m_grantedTime, m_stop, m_pLBTS>>
    BY <1>18 DEF CompleteApps, simVars
  <2>3. \A r \in Rank : m_events'[r] = m_events[r] \cup {f(r)} /\ m_uid'[r] = m_uid[r] + 1
    BY <1>18 DEF CompleteApps
  <2>4. u \in Nat
    BY ReclusteringAssumption
  <2>5. GrantsAgree' /\ PhasesAgree'
    <3>1. \A q \in Rank : pc[q] # "lbts" /\ pc'[q] # "lbts"
      BY <2>1
    <3>2. GrantsAgree'
      BY <1>2, <2>2, <3>1, GrantsStay
    <3> QED
      BY <2>1, <3>2 DEF PhasesAgree
  <2>6. ASSUME NEW r \in Rank PROVE HasOne(r)' /\ DueRank(r, u)'
    <3>1. pc[r] \in Phases /\ pc'[r] \notin Phases
      BY <2>1 DEF Phases
    <3>2. Pending(r) = {} /\ Starts(r) = {} /\ m_currentTs[r] = t /\ m_uid[r] >= 6 + NumNodes
      BY <1>4, <3>1 DEF HasOne, DueRank
    <3>3. f(r).kind = "recluster" /\ f(r).ts = u /\ f(r).uid = m_uid[r]
      BY <1>5, <3>2 DEF NewEvent
    <3> HIDE DEF f, u
    <3>4. Pending(r)' = {f(r)} /\ Starts(r)' = {}
      BY <2>3, <3>2, <3>3 DEF Pending, Starts
    <3>5. m_uid'[r] >= 6 + NumNodes /\ f(r).uid >= 6 + NumNodes
      BY <1>5, <2>3, <3>2, <3>3, NodeAssumption
    <3>6. HasOne(r)'
      BY <3>1, <3>4, <3>5 DEF HasOne
    <3>7. ~m_stop'[r]
      BY <1>1, <2>1, <2>2 DEF StopKept
    <3>8. LbStartEvent \notin m_events'[r]
      BY <3>4 DEF Starts, LbStartEvent
    <3>9. \A g \in m_events'[r] : g.kind = "recluster" => g.ts = u
      BY <3>3, <3>4 DEF Pending
    <3>10. DueRank(r, u)'
      BY <2>1, <3>1, <3>7, <3>8, <3>9 DEF DueRank
    <3> QED
      BY <3>6, <3>10
  <2> HIDE DEF f, u
  <2>7. OneReclustering'
    BY <2>6 DEF OneReclustering, HasOne, Pending, Starts
  <2>8. DueAt(u)'
    BY <2>6 DEF DueAt, DueRank
  <2> QED
    BY <2>4, <2>5, <2>7, <2>8 DEF Timetable
<1>19. CASE UNCHANGED vars
  <2>1. GrantsAgree'
    BY <1>2, <1>19, GrantsStay DEF vars
  <2>2. \A q \in Rank : /\ pc[q] \in {"recv", "gather"} => m_grantedTime[q] < t
                        /\ m_stop[q] => StopTime <= t
    BY <1>4 DEF DueRank
  <2>3. PhasesAgree'
    BY <1>2, <1>19 DEF vars, PhasesAgree
  <2>4. \A q \in Rank : Pending(q)' = Pending(q) /\ Starts(q)' = Starts(q) /\ m_uid'[q] >= m_uid[q]
    BY <1>5, <1>19 DEF vars, Pending, Starts
  <2>5. UNCHANGED <<pc, m_currentTs, m_grantedTime, m_stop>>
    BY <1>19 DEF vars
  <2> QED
    BY <1>1, <1>2, <1>3, <2>1, <2>2, <2>3, <2>4, <2>5, TimetableStays
<1>20. ASSUME NEW r \in Rank, LbStep(r) \/ Receive(r) PROVE Timetable'
  <2>1. CASE \/ ProcessOneEvent(r, m_sid[r]) /\ UNCHANGED lbVars
             \/ Reclustering(r) \/ ProcessApp(r) \/ ProcessAdded(r)
    BY <1>1, <1>7, <2>1, TakesFacts
  <2> QED
    BY <1>9, <1>10, <1>11, <1>12, <1>16, <1>17, <1>20, <2>1 DEF LbStep, RunStep
<1>21. CASE (Finished /\ UNCHANGED lbVars) \/ UNCHANGED allVars
  BY <1>19, <1>21 DEF Finished, allVars
<1> QED
  BY <1>14, <1>15, <1>18, <1>20, <1>21 DEF LbNext, Collective

\* When all ranks compute the same lookahead, the barriers of MergeNetworkGraph
\* and the Allgather of Run never hold different ranks: the reclustering is due
\* at the same time everywhere, either before the stop or after it, and a rank
\* only waits in the Allgather before it.
THEOREM BarriersMeet ==
  ASSUME UniformLookAhead
  PROVE  LbSpec => []BarriersAgree
<1>1. LbInit => LbTyped /\ Timetable
  <2> SUFFICES ASSUME LbInit PROVE LbTyped /\ Timetable
    OBVIOUS
  <2>1. LbTyped
    BY LbTypedInit
  <2>2. \A r \in Rank : /\ pc[r] = "run" /\ ~m_stop[r] /\ m_grantedTime[r] = LookAhead(r)
                        /\ m_events[r] = InitialEvents /\ m_uid[r] = 6 + NumNodes
    BY DEF LbInit, Init
  <2>3. GrantsAgree /\ PhasesAgree
    BY <2>2 DEF GrantsAgree, PhasesAgree, UniformLookAhead
  <2>4. \A e \in InitialEvents : e.kind # "recluster" /\ (e.kind = "lb" => e = LbStartEvent)
    BY DEF InitialEvents, StartEvent, StopEvent, LbStartEvent
  <2>5. LbStartEvent \in InitialEvents /\ LbStartEvent.kind = "lb"
    BY DEF InitialEvents, LbStartEvent
  <2>6. ASSUME NEW r \in Rank PROVE HasOne(r) /\ DueRank(r, ReclusteringInterval)
    <3>1. Pending(r) = {} /\ Starts(r) = {LbStartEvent}
      BY <2>2, <2>4, <2>5 DEF Pending, Starts
    <3>2. pc[r] \notin Phases
      BY <2>2 DEF Phases
    <3>3. m_uid[r] >= 6 + NumNodes
      BY <2>2, NodeAssumption
    <3>4. HasOne(r)
      BY <3>1, <3>2, <3>3 DEF HasOne
    <3> QED
      BY <2>2, <2>4, <3>2, <3>4 DEF DueRank
  <2>7. OneReclustering /\ DueAt(ReclusteringInterval)
    BY <2>6, OneReclusteringRanks, DueAtRanks
  <2> QED
    BY <2>1, <2>3, <2>7, ReclusteringAssumption DEF Timetable
<1>2. LbTyped /\ Timetable => BarriersAgree
  <2> SUFFICES ASSUME LbTyped, Timetable, NEW r \in Rank, NEW q \in Rank,
                      pc[r] \in Phases, pc[q] \in {"recv", "gather", "done"}
               PROVE  FALSE
    BY DEF BarriersAgree
  <2>1. PICK t \in Nat : DueAt(t)
    BY DEF Timetable
  <2>2. m_grantedTime[r] \in Nat /\ m_grantedTime[q] \in Nat
    BY DEF LbTyped, LbTypeOK
  <2>3. m_grantedTime[r] >= t /\ t < StopTime
    BY <2>1 DEF DueAt
  <2>4. CASE pc[q] = "done"
    <3>1. m_stop[q]
      BY <2>4 DEF LbTyped, StopKept
    <3>2. StopTime <= t
      BY <2>1, <3>1 DEF DueAt
    <3> QED
      BY <2>3, <3>2, TimeAssumption
  <2>5. CASE pc[q] \in {"recv", "gather"}
    <3>1. m_grantedTime[q] < t
      BY <2>1, <2>5 DEF DueAt
    <3>2. m_grantedTime[r] = m_grantedTime[q]
      BY <2>5 DEF Timetable, GrantsAgree, Phases
    <3> QED
      BY <2>2, <2>3, <3>1, <3>2
  <2> QED
    BY <2>4, <2>5
<1> QED
  BY <1>1, <1>2, LbTypeStep, TimetableStep, PTL DEF LbSpec

===============================================================================
