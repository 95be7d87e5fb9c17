------------------------------ MODULE HwmpProofs ------------------------------
(***************************************************************************)
(* Theorems about HwmpProtocol.  Every handler is an operator from the     *)
(* members of a station to the next ones; each is shown to keep them sound *)
(* and to send only frames that are.                                       *)
(***************************************************************************)
EXTENDS HwmpProtocol, RecursionLemmas, FiniteSetTheorems

\* The numbers that the stations have issued, when s is at work with members n
Now(s, n, I) == [I EXCEPT ![s] = n.m_hwmpSeqno]

Fits(s, n, I) ==
  /\ n \in Members /\ I[s] <= n.m_hwmpSeqno
  /\ RoutesLead(s, n) /\ QueueBounded(n) /\ Genuine(n, Now(s, n, I))
Sound(s, n, I) == Fits(s, n, I) /\ Awaited(n) /\ Timed(n)

Numbers == [Station -> Nat]

\* What does not concern the routes, the queue and the numbers.
SameRoutes(n, m) ==
  /\ m.m_routes = n.m_routes /\ m.m_rqueue = n.m_rqueue
  /\ m.m_preqTimeouts = n.m_preqTimeouts /\ m.m_hwmpSeqno = n.m_hwmpSeqno
  /\ m.m_hwmpSeqnoMetricDatabase = n.m_hwmpSeqnoMetricDatabase

\* What a frame has cost when it has passed one more link.
LEMMA MetricType ==
  ASSUME NEW s \in Station, NEW t \in Neighbours(s), NEW m \in Nat
  PROVE  m + Metric[<<s, t>>] \in Nat
<1> DEFINE x == Metric[<<s, t>>]
<1>1. x \in Nat
  BY HwmpAssumption DEF Neighbours
<1> HIDE DEF x
<1>2. m + x \in Nat
  BY <1>1
<1> QED
  BY <1>2 DEF x

LEMMA SameAwaited ==
  ASSUME NEW n, NEW m, SameRoutes(n, m)
  PROVE  /\ Awaited(n) => Awaited(m)
         /\ \A d : Valid(m, d) = Valid(n, d)
BY DEF SameRoutes, Awaited, Valid

LEMMA MemberTypes ==
  ASSUME NEW n \in Members
  PROVE  /\ n.m_routes \in [Station -> Route]
         /\ n.m_hwmpSeqnoMetricDatabase \in [Station -> [seqno : Int, metric : Nat]]
         /\ n.m_hwmpSeqno \in Nat \ {0}
         /\ n.m_rqueue \in SUBSET Packet
         /\ n.m_preqTimeouts \in [Station -> 0 .. MaxRetries + 1]
         /\ n.m_myPreq \in Seq(Preq) /\ n.m_preqTimer \in BOOLEAN
         /\ n.m_myPerr \in [destinations : SUBSET FailedDestination, receivers : SUBSET Station]
         /\ n.m_perrTimer \in BOOLEAN
         /\ n.out \in SUBSET Frame
BY DEF Members

LEMMA NeighbourFacts ==
  ASSUME NEW s \in Station, NEW t \in Neighbours(s)
  PROVE  /\ t \in Station /\ t # None /\ <<s, t>> \in DOMAIN Metric /\ <<t, s>> \in DOMAIN Metric
         /\ Metric[<<s, t>>] \in Nat
BY HwmpAssumption DEF Neighbours

-------------------------------------------------------------------------------
(* HwmpProtocolMac *)

\* Members that differ only in what waits for the timers, all of it genuine
LEMMA AlikeFits ==
  ASSUME NEW s \in Station, NEW n, NEW I \in Numbers, Fits(s, n, I),
         NEW m \in Members, SameRoutes(n, m), m.out = n.out,
         \A i \in DOMAIN m.m_myPreq : GenuinePreq(m.m_myPreq[i], Now(s, n, I)),
         m.m_myPerr.receivers \subseteq Neighbours(s)
  PROVE  Fits(s, m, I)
<1>1. Now(s, m, I) = Now(s, n, I)
  BY DEF Now, SameRoutes
<1>2. Genuine(m, Now(s, m, I)) /\ RoutesLead(s, m) /\ QueueBounded(m)
  BY <1>1 DEF Fits, Genuine, RoutesLead, QueueBounded, SameRoutes
<1> QED
  BY <1>2 DEF Fits, SameRoutes

\* Frames that tell nothing but what was issued may be sent at any time.
LEMMA SendToFits ==
  ASSUME NEW s \in Station, NEW n, NEW I \in Numbers, Fits(s, n, I),
         NEW F \in SUBSET Frame, \A f \in F : GenuineFrame(f, Now(s, n, I))
  PROVE  /\ Fits(s, SendTo(n, F), I) /\ SameRoutes(n, SendTo(n, F))
         /\ SendTo(n, F).m_myPreq = n.m_myPreq /\ SendTo(n, F).m_preqTimer = n.m_preqTimer
         /\ SendTo(n, F).m_myPerr = n.m_myPerr
<1> DEFINE m == SendTo(n, F)
<1>1. m = [n EXCEPT !.out = @ \cup F]
  BY DEF SendTo
<1>2. m \in Members
  BY <1>1 DEF Fits, Members
<1>3. /\ SameRoutes(n, m) /\ m.m_myPreq = n.m_myPreq /\ m.m_preqTimer = n.m_preqTimer
      /\ m.m_myPerr = n.m_myPerr /\ m.out = n.out \cup F
  BY <1>1 DEF SameRoutes, Fits, Members
<1> HIDE DEF m
<1>4. Now(s, m, I) = Now(s, n, I)
  BY <1>3 DEF Now, SameRoutes
<1>5. Genuine(m, Now(s, m, I))
  BY <1>3, <1>4 DEF Fits, Genuine, SameRoutes
<1>6. RoutesLead(s, m) /\ QueueBounded(m)
  BY <1>3 DEF Fits, RoutesLead, QueueBounded, SameRoutes
<1>7. Fits(s, m, I)
  BY <1>2, <1>3, <1>5, <1>6 DEF Fits, SameRoutes
<1> QED
  BY <1>3, <1>7 DEF m

LEMMA SendPreqFits ==
  ASSUME NEW s \in Station, NEW n, NEW I \in Numbers, Fits(s, n, I),
         NEW preqs \in Seq(Preq), \A i \in DOMAIN preqs : GenuinePreq(preqs[i], Now(s, n, I))
  PROVE  /\ Fits(s, SendPreq(s, n, preqs), I) /\ SameRoutes(n, SendPreq(s, n, preqs))
         /\ SendPreq(s, n, preqs).m_myPreq = n.m_myPreq
         /\ SendPreq(s, n, preqs).m_preqTimer = n.m_preqTimer
         /\ SendPreq(s, n, preqs).m_myPerr = n.m_myPerr
<1> DEFINE F == {[kind |-> "PREQ", from |-> s, to |-> t, preqs |-> preqs] : t \in Neighbours(s)}
<1>1. ASSUME NEW t \in Neighbours(s)
      PROVE  LET f == [kind |-> "PREQ", from |-> s, to |-> t, preqs |-> preqs]
             IN  f \in Frame /\ GenuineFrame(f, Now(s, n, I))
  BY NeighbourFacts DEF Frame, GenuineFrame
<1>2. F \in SUBSET Frame /\ \A f \in F : GenuineFrame(f, Now(s, n, I))
  BY <1>1
<1>3. SendPreq(s, n, preqs) = SendTo(n, F)
  BY DEF SendPreq
<1> HIDE DEF F
<1> QED
  BY <1>2, <1>3, SendToFits

\* Requests that wait are sent as soon as the timer has run out.
LEMMA SendMyPreqSound ==
  ASSUME NEW s \in Station, NEW n, NEW I \in Numbers, Fits(s, n, I)
  PROVE  /\ Fits(s, SendMyPreq(s, n), I) /\ SameRoutes(n, SendMyPreq(s, n))
         /\ Timed(SendMyPreq(s, n))
<1>1. CASE n.m_preqTimer \/ n.m_myPreq = << >>
  BY <1>1 DEF SendMyPreq, SameRoutes, Timed
<1>2. CASE ~(n.m_preqTimer \/ n.m_myPreq = << >>)
  <2> DEFINE k == SendPreq(s, n, n.m_myPreq)
             m == [k EXCEPT !.m_preqTimer = TRUE, !.m_myPreq = << >>]
  <2>1. /\ n.m_myPreq \in Seq(Preq)
        /\ \A i \in DOMAIN n.m_myPreq : GenuinePreq(n.m_myPreq[i], Now(s, n, I))
    BY MemberTypes DEF Fits, Genuine
  <2>2. Fits(s, k, I) /\ SameRoutes(n, k)
    BY <2>1, SendPreqFits
  <2>3. SendMyPreq(s, n) = m
    BY <1>2 DEF SendMyPreq
  <2> HIDE DEF k
  <2>4. m \in Members
    <3> << >> \in Seq(Preq)
      OBVIOUS
    <3> QED
      BY <2>2 DEF Fits, Members
  <2>5. /\ SameRoutes(k, m) /\ m.m_myPreq = << >> /\ m.m_preqTimer /\ m.out = k.out
        /\ m.m_myPerr = k.m_myPerr
    BY <2>2 DEF SameRoutes, Fits, Members
  <2> HIDE DEF m
  <2>6. k.m_myPerr.receivers \subseteq Neighbours(s)
    BY <2>2 DEF Fits, RoutesLead
  <2>7. Fits(s, m, I)
    BY <2>2, <2>4, <2>5, <2>6, AlikeFits
  <2>8. SameRoutes(n, m) /\ Timed(m)
    BY <2>2, <2>5 DEF SameRoutes, Timed
  <2> QED
    BY <2>3, <2>7, <2>8
<1> QED
  BY <1>1, <1>2

\* A request carries the flags of the attributes and the station's own number.
LEMMA RequestDestinationSound ==
  ASSUME NEW s \in Station, NEW n, NEW I \in Numbers, Fits(s, n, I),
         NEW dst \in Station, NEW seqno \in Nat, flags \in Flags
  PROVE  /\ Fits(s, RequestDestination(s, n, dst, seqno), I)
         /\ SameRoutes(n, RequestDestination(s, n, dst, seqno))
         /\ Timed(RequestDestination(s, n, dst, seqno))
<1> DEFINE unit == [dst |-> dst, seqnum |-> seqno, do |-> m_doFlag, rf |-> m_rfFlag]
           add(q) == IF \E u \in q.destinations : u.dst = dst THEN q
                     ELSE [q EXCEPT !.destinations = @ \cup {unit}]
           own == [originator |-> s, seqno |-> n.m_hwmpSeqno, metric |-> 0, destinations |-> {unit}]
           waiting == [i \in DOMAIN n.m_myPreq |-> add(n.m_myPreq[i])]
           m == [n EXCEPT !.m_myPreq = Append(waiting, own)]
           N == Now(s, n, I)
<1>1. n \in Members /\ n.m_hwmpSeqno \in Nat /\ n.m_myPreq \in Seq(Preq) /\ N[s] = n.m_hwmpSeqno
  BY MemberTypes DEF Fits, Now, Numbers
<1>2. unit \in Unit /\ unit.do = m_doFlag
  BY HwmpAssumption DEF Unit, flags
<1> HIDE DEF unit
<1>3. own \in Preq /\ GenuinePreq(own, N)
  BY <1>1, <1>2 DEF Preq, GenuinePreq
<1>4. ASSUME NEW q \in Preq
      PROVE  add(q) \in Preq /\ (GenuinePreq(q, N) => GenuinePreq(add(q), N))
  <2>1. [q EXCEPT !.destinations = @ \cup {unit}] \in Preq
    BY <1>2 DEF Preq
  <2>2. GenuinePreq(q, N) => GenuinePreq([q EXCEPT !.destinations = @ \cup {unit}], N)
    BY <1>2 DEF Preq, GenuinePreq
  <2> QED
    BY <2>1, <2>2
<1> HIDE DEF own, add, N
<1>5. waiting \in Seq(Preq) /\ Len(waiting) = Len(n.m_myPreq)
      /\ \A i \in 1 .. Len(waiting) : waiting[i] = add(n.m_myPreq[i])
  BY <1>1, <1>4
<1> HIDE DEF waiting
<1>6. /\ Append(waiting, own) \in Seq(Preq)
      /\ \A i \in DOMAIN Append(waiting, own) : GenuinePreq(Append(waiting, own)[i], N)
  <2>1. \A i \in 1 .. Len(waiting) : GenuinePreq(waiting[i], N)
    BY <1>1, <1>4, <1>5 DEF Fits, Genuine, N
  <2>2. /\ Append(waiting, own) \in Seq(Preq) /\ DOMAIN Append(waiting, own) = 1 .. Len(waiting) + 1
        /\ \A i \in 1 .. Len(waiting) : Append(waiting, own)[i] = waiting[i]
        /\ Append(waiting, own)[Len(waiting) + 1] = own
    BY <1>3, <1>5
  <2>3. ASSUME NEW i \in 1 .. Len(waiting) + 1 PROVE i \in 1 .. Len(waiting) \/ i = Len(waiting) + 1
    BY <1>5
  <2> QED
    BY <1>3, <2>1, <2>2, <2>3
<1>7. m \in Members
  BY <1>1, <1>6 DEF Members
<1>8. /\ SameRoutes(n, m) /\ m.m_myPreq = Append(waiting, own) /\ m.out = n.out /\ m.m_myPerr = n.m_myPerr
  BY <1>1 DEF SameRoutes, Members
<1> HIDE DEF m
<1>9. Fits(s, m, I)
  BY <1>6, <1>7, <1>8, AlikeFits DEF Fits, RoutesLead, N
<1>10. RequestDestination(s, n, dst, seqno) = SendMyPreq(s, m)
  BY DEF RequestDestination, m, waiting, add, own, unit
<1> QED
  BY <1>8, <1>9, <1>10, SendMyPreqSound DEF SameRoutes

\* Errors go to neighbours.
LEMMA ForwardPerrFits ==
  ASSUME NEW s \in Station, NEW n, NEW I \in Numbers, Fits(s, n, I),
         NEW perr \in [destinations : SUBSET FailedDestination, receivers : SUBSET Station],
         perr.receivers \subseteq Neighbours(s)
  PROVE  /\ Fits(s, ForwardPerr(s, n, perr), I) /\ SameRoutes(n, ForwardPerr(s, n, perr))
         /\ ForwardPerr(s, n, perr).m_myPreq = n.m_myPreq
         /\ ForwardPerr(s, n, perr).m_preqTimer = n.m_preqTimer
<1> DEFINE F == {[kind |-> "PERR", from |-> s, to |-> t, destinations |-> perr.destinations] : t \in perr.receivers}
<1>1. ASSUME NEW t \in perr.receivers
      PROVE  LET f == [kind |-> "PERR", from |-> s, to |-> t, destinations |-> perr.destinations]
             IN  f \in Frame /\ GenuineFrame(f, Now(s, n, I))
  <2>1. t \in Station /\ <<s, t>> \in DOMAIN Metric
    BY NeighbourFacts
  <2> QED
    BY <2>1 DEF Frame, GenuineFrame
<1>2. F \in SUBSET Frame /\ \A f \in F : GenuineFrame(f, Now(s, n, I))
  BY <1>1
<1>3. ForwardPerr(s, n, perr) = SendTo(n, F)
  BY DEF ForwardPerr
<1> HIDE DEF F
<1> QED
  BY <1>2, <1>3, SendToFits

LEMMA NoPerrType ==
  /\ NoPerr \in [destinations : SUBSET FailedDestination, receivers : SUBSET Station]
  /\ NoPerr.receivers = {}
BY DEF NoPerr

LEMMA SendMyPerrFits ==
  ASSUME NEW s \in Station, NEW n, NEW I \in Numbers, Fits(s, n, I)
  PROVE  /\ Fits(s, SendMyPerr(s, n), I) /\ SameRoutes(n, SendMyPerr(s, n))
         /\ SendMyPerr(s, n).m_myPreq = n.m_myPreq
         /\ SendMyPerr(s, n).m_preqTimer = n.m_preqTimer
<1>1. CASE n.m_perrTimer
  BY <1>1 DEF SendMyPerr, SameRoutes
<1>2. CASE ~n.m_perrTimer
  <2> DEFINE k == ForwardPerr(s, n, n.m_myPerr)
             m == [k EXCEPT !.m_perrTimer = TRUE, !.m_myPerr = NoPerr]
  <2>1. /\ n.m_myPerr \in [destinations : SUBSET FailedDestination, receivers : SUBSET Station]
        /\ n.m_myPerr.receivers \subseteq Neighbours(s)
    BY MemberTypes DEF Fits, RoutesLead
  <2>2. Fits(s, k, I) /\ SameRoutes(n, k) /\ k.m_myPreq = n.m_myPreq /\ k.m_preqTimer = n.m_preqTimer
    BY <2>1, ForwardPerrFits
  <2>3. SendMyPerr(s, n) = m
    BY <1>2 DEF SendMyPerr
  <2> HIDE DEF k
  <2>4. m \in Members
    BY <2>2, NoPerrType DEF Fits, Members
  <2>5. /\ SameRoutes(k, m) /\ m.m_myPreq = k.m_myPreq /\ m.m_preqTimer = k.m_preqTimer
        /\ m.out = k.out /\ m.m_myPerr = NoPerr
    BY <2>2 DEF SameRoutes, Fits, Members
  <2> HIDE DEF m
  <2>6. \A i \in DOMAIN k.m_myPreq : GenuinePreq(k.m_myPreq[i], Now(s, k, I))
    BY <2>2 DEF Fits, Genuine
  <2>7. Fits(s, m, I)
    BY <2>2, <2>4, <2>5, <2>6, NoPerrType, AlikeFits
  <2>8. SameRoutes(n, m)
    BY <2>2, <2>5 DEF SameRoutes
  <2> QED
    BY <2>2, <2>3, <2>5, <2>7, <2>8
<1> QED
  BY <1>1, <1>2

LEMMA InitiatePerrFits ==
  ASSUME NEW s \in Station, NEW n, NEW I \in Numbers, Fits(s, n, I),
         NEW perr \in [destinations : SUBSET FailedDestination, receivers : SUBSET Station],
         perr.receivers \subseteq Neighbours(s)
  PROVE  /\ Fits(s, InitiatePerr(s, n, perr), I) /\ SameRoutes(n, InitiatePerr(s, n, perr))
         /\ InitiatePerr(s, n, perr).m_myPreq = n.m_myPreq
         /\ InitiatePerr(s, n, perr).m_preqTimer = n.m_preqTimer
<1> DEFINE mine == n.m_myPerr.destinations
           new == {d \in perr.destinations : \A e \in mine : e.dst = d.dst => e.seqnum <= d.seqnum}
           both == [destinations |-> mine \cup new,
                    receivers |-> n.m_myPerr.receivers \cup perr.receivers]
           m == [n EXCEPT !.m_myPerr = both]
<1>1. /\ n \in Members /\ mine \in SUBSET FailedDestination /\ n.m_myPerr.receivers \in SUBSET Station
      /\ n.m_myPerr.receivers \subseteq Neighbours(s)
  BY MemberTypes DEF Fits, RoutesLead
<1>2. both \in [destinations : SUBSET FailedDestination, receivers : SUBSET Station]
      /\ both.receivers \subseteq Neighbours(s)
  BY <1>1
<1>3. InitiatePerr(s, n, perr) = SendMyPerr(s, m)
  BY <1>1 DEF InitiatePerr, Members
<1> HIDE DEF both
<1>4. m \in Members
  BY <1>1, <1>2 DEF Members
<1>5. /\ SameRoutes(n, m) /\ m.m_myPreq = n.m_myPreq /\ m.m_preqTimer = n.m_preqTimer
      /\ m.out = n.out /\ m.m_myPerr = both
  BY <1>1 DEF SameRoutes, Members
<1> HIDE DEF m
<1>6. \A i \in DOMAIN n.m_myPreq : GenuinePreq(n.m_myPreq[i], Now(s, n, I))
  BY DEF Fits, Genuine
<1>7. Fits(s, m, I)
  BY <1>2, <1>4, <1>5, <1>6, AlikeFits
<1> QED
  BY <1>3, <1>5, <1>7, SendMyPerrFits DEF SameRoutes

-------------------------------------------------------------------------------
(* HwmpRtable *)

\* Routes of station s that lead to its neighbours.
RoutesOf(s) ==
  {r \in Route : /\ r.retransmitter \in Neighbours(s) \cup {None}
                 /\ r.valid => r.retransmitter # None
                 /\ r.precursors \subseteq Neighbours(s)}

LEMMA RoutesType ==
  ASSUME NEW s \in Station, NEW n \in Members
  PROVE  RoutesLead(s, n) <=> /\ n.m_routes \in [Station -> RoutesOf(s)]
                              /\ n.m_myPerr.receivers \subseteq Neighbours(s)
BY MemberTypes DEF RoutesLead, RoutesOf

\* What does not concern the routes
SameElse(n, m) ==
  /\ m.m_rqueue = n.m_rqueue /\ m.m_preqTimeouts = n.m_preqTimeouts
  /\ m.m_hwmpSeqno = n.m_hwmpSeqno /\ m.m_hwmpSeqnoMetricDatabase = n.m_hwmpSeqnoMetricDatabase
  /\ m.m_myPreq = n.m_myPreq /\ m.m_preqTimer = n.m_preqTimer /\ m.m_myPerr = n.m_myPerr
  /\ m.out = n.out

LEMMA Rerouted ==
  ASSUME NEW s \in Station, NEW n, NEW I \in Numbers, Fits(s, n, I), NEW R \in [Station -> RoutesOf(s)]
  PROVE  LET m == [n EXCEPT !.m_routes = R]
         IN  Fits(s, m, I) /\ SameElse(n, m) /\ m.m_routes = R
<1> DEFINE m == [n EXCEPT !.m_routes = R]
<1>1. R \in [Station -> Route]
  BY DEF RoutesOf
<1>2. m \in Members /\ SameElse(n, m) /\ m.m_routes = R
  BY <1>1 DEF Fits, Members, SameElse
<1> HIDE DEF m
<1>3. Now(s, m, I) = Now(s, n, I) /\ n \in Members
  BY <1>2 DEF Now, SameElse, Fits
<1>4. Genuine(m, Now(s, m, I)) /\ QueueBounded(m)
  BY <1>2, <1>3 DEF Fits, Genuine, QueueBounded, SameElse
<1>5. RoutesLead(s, m)
  BY <1>2, <1>3, RoutesType DEF Fits, SameElse
<1>6. Fits(s, m, I)
  BY <1>2, <1>4, <1>5 DEF Fits, SameElse
<1> QED
  BY <1>2, <1>6 DEF m

LEMMA AddReactivePathFits ==
  ASSUME NEW s \in Station, NEW n, NEW I \in Numbers, Fits(s, n, I),
         NEW d \in Station, NEW via \in Neighbours(s), NEW metric \in Nat, NEW seqnum \in Nat
  PROVE  LET m == AddReactivePath(n, d, via, metric, seqnum)
         IN  /\ Fits(s, m, I) /\ SameElse(n, m) /\ m.m_routes[d].retransmitter = via
             /\ \A e \in Station \ {d} : m.m_routes[e] = n.m_routes[e]
<1> DEFINE r == [retransmitter |-> via, metric |-> metric, seqnum |-> seqnum,
                 valid |-> TRUE, precursors |-> n.m_routes[d].precursors]
           R == [n.m_routes EXCEPT ![d] = r]
<1>1. n \in Members /\ n.m_routes \in [Station -> RoutesOf(s)]
  BY RoutesType DEF Fits
<1>2. r \in RoutesOf(s) /\ r.retransmitter = via
  BY <1>1, NeighbourFacts DEF RoutesOf, Route
<1>3. AddReactivePath(n, d, via, metric, seqnum) = [n EXCEPT !.m_routes = R]
  BY <1>1 DEF AddReactivePath, Members
<1> HIDE DEF r
<1>4. R \in [Station -> RoutesOf(s)] /\ R[d] = r /\ \A e \in Station \ {d} : R[e] = n.m_routes[e]
  BY <1>1, <1>2
<1> HIDE DEF R
<1> QED
  BY <1>2, <1>3, <1>4, Rerouted

\* Precursors do not change where a route leads.
SameWays(n, m) ==
  \A d \in Station : /\ m.m_routes[d].retransmitter = n.m_routes[d].retransmitter
                      /\ m.m_routes[d].valid = n.m_routes[d].valid

LEMMA AddPrecursorFits ==
  ASSUME NEW s \in Station, NEW n, NEW I \in Numbers, Fits(s, n, I),
         NEW d \in Station, NEW p \in Neighbours(s)
  PROVE  LET m == AddPrecursor(n, d, p)
         IN  Fits(s, m, I) /\ SameElse(n, m) /\ SameWays(n, m)
<1>1. CASE n.m_routes[d].retransmitter = None
  BY <1>1 DEF AddPrecursor, SameElse, SameWays
<1>2. CASE n.m_routes[d].retransmitter # None
  <2> DEFINE r == [n.m_routes[d] EXCEPT !.precursors = @ \cup {p}]
             R == [n.m_routes EXCEPT ![d] = r]
  <2>1. n \in Members /\ n.m_routes \in [Station -> RoutesOf(s)] /\ n.m_routes[d] \in RoutesOf(s)
    BY RoutesType DEF Fits
  <2>2. r \in RoutesOf(s) /\ r.retransmitter = n.m_routes[d].retransmitter /\ r.valid = n.m_routes[d].valid
    BY <2>1, NeighbourFacts DEF RoutesOf, Route
  <2>3. AddPrecursor(n, d, p) = [n EXCEPT !.m_routes = R]
    BY <1>2, <2>1 DEF AddPrecursor, Members
  <2> HIDE DEF r
  <2>4. R \in [Station -> RoutesOf(s)] /\ R[d] = r /\ \A e \in Station \ {d} : R[e] = n.m_routes[e]
    BY <2>1, <2>2
  <2> HIDE DEF R
  <2>5. Fits(s, AddPrecursor(n, d, p), I) /\ SameElse(n, AddPrecursor(n, d, p)) /\ AddPrecursor(n, d, p).m_routes = R
    BY <2>3, <2>4, Rerouted
  <2> QED
    BY <2>2, <2>4, <2>5 DEF SameWays
<1> QED
  BY <1>1, <1>2

LEMMA SameWaysAwaited ==
  ASSUME NEW s \in Station, NEW n, NEW m, NEW I \in Numbers, Sound(s, n, I), Fits(s, m, I),
         SameElse(n, m), \A d \in Station : m.m_routes[d].valid => n.m_routes[d].valid
  PROVE  Sound(s, m, I)
<1>1. \A p \in m.m_rqueue : p.dst \in Station
  BY MemberTypes DEF Fits, Packet
<1> QED
  BY <1>1 DEF Sound, Awaited, Timed, SameElse, Valid

\* Routes are forgotten.
LEMMA ForgetSound ==
  ASSUME NEW s \in Station, NEW n, NEW I \in Numbers, Sound(s, n, I), NEW D \in SUBSET FailedDestination
  PROVE  Sound(s, Forget(n, D), I)
<1> DEFINE E == {d.dst : d \in D}
           R == [d \in Station |-> IF d \in E THEN NoRoute ELSE n.m_routes[d]]
<1>1. n \in Members /\ n.m_routes \in [Station -> RoutesOf(s)] /\ Fits(s, n, I)
  BY RoutesType DEF Sound, Fits
<1>2. NoRoute \in RoutesOf(s) /\ ~NoRoute.valid
  BY DEF NoRoute, RoutesOf, Route
<1>3. Forget(n, D) = [n EXCEPT !.m_routes = R]
  BY <1>1 DEF Forget, DeleteReactivePaths, Members
<1>4. R \in [Station -> RoutesOf(s)] /\ \A d \in Station : R[d].valid => n.m_routes[d].valid
  BY <1>1, <1>2
<1> HIDE DEF R
<1>5. Fits(s, Forget(n, D), I) /\ SameElse(n, Forget(n, D)) /\ Forget(n, D).m_routes = R
  BY <1>1, <1>3, <1>4, Rerouted
<1> QED
  BY <1>4, <1>5, SameWaysAwaited

\* What a path error says and to whom.
Perr == [destinations : SUBSET FailedDestination, receivers : SUBSET Station]

LEMMA MakePathErrorType ==
  ASSUME NEW s \in Station, NEW n, NEW I \in Numbers, Fits(s, n, I), NEW D \in SUBSET FailedDestination
  PROVE  MakePathError(n, D) \in Perr /\ MakePathError(n, D).receivers \subseteq Neighbours(s)
<1> DEFINE receivers == UNION {n.m_routes[d.dst].precursors : d \in D}
<1>1. \A d \in D : n.m_routes[d.dst] \in RoutesOf(s)
  BY RoutesType DEF Fits, FailedDestination
<1>2. receivers \subseteq Neighbours(s) /\ receivers \subseteq Station
  BY <1>1 DEF RoutesOf, Route
<1>3. MakePathError(n, D) = IF receivers = {} THEN NoPerr ELSE [destinations |-> D, receivers |-> receivers]
  BY DEF MakePathError
<1> HIDE DEF receivers
<1> QED
  BY <1>2, <1>3, NoPerrType DEF Perr

LEMMA SoundKept ==
  ASSUME NEW s \in Station, NEW n, NEW m, NEW I \in Numbers, Sound(s, n, I), Fits(s, m, I),
         SameRoutes(n, m), m.m_myPreq = n.m_myPreq, m.m_preqTimer = n.m_preqTimer
  PROVE  Sound(s, m, I)
BY SameAwaited DEF Sound, Timed

LEMMA InitiatePathErrorSound ==
  ASSUME NEW s \in Station, NEW n, NEW I \in Numbers, Sound(s, n, I), NEW peer
  PROVE  Sound(s, InitiatePathError(s, n, peer), I)
<1> DEFINE failed == GetUnreachableDestinations(n, peer)
<1>1. failed \in SUBSET FailedDestination
  <2>1. \A d \in Station : n.m_routes[d].seqnum + 1 \in Nat
    BY MemberTypes DEF Sound, Fits, Route
  <2> QED
    BY <2>1 DEF GetUnreachableDestinations, FailedDestination
<1>2. Fits(s, n, I)
  BY DEF Sound
<1>3. InitiatePathError(s, n, peer) = InitiatePerr(s, Forget(n, failed), MakePathError(n, failed))
  BY DEF InitiatePathError
<1> HIDE DEF failed
<1>4. MakePathError(n, failed) \in Perr /\ MakePathError(n, failed).receivers \subseteq Neighbours(s)
  BY <1>1, <1>2, MakePathErrorType
<1>5. Sound(s, Forget(n, failed), I) /\ Fits(s, Forget(n, failed), I)
  BY <1>1, ForgetSound DEF Sound
<1> QED
  BY <1>3, <1>4, <1>5, InitiatePerrFits, SoundKept DEF Perr

LEMMA ReceivePerrSound ==
  ASSUME NEW s \in Station, NEW n, NEW I \in Numbers, Sound(s, n, I), NEW from,
         NEW destinations \in SUBSET FailedDestination
  PROVE  Sound(s, ReceivePerr(s, n, from, destinations), I)
<1> DEFINE mine == {d \in destinations :
                      n.m_routes[d.dst].retransmitter = from /\ n.m_routes[d.dst].seqnum <= d.seqnum}
<1>1. mine \in SUBSET FailedDestination /\ Fits(s, n, I)
  BY DEF Sound
<1>3. ReceivePerr(s, n, from, destinations) = ForwardPerr(s, Forget(n, mine), MakePathError(n, mine))
  BY DEF ReceivePerr
<1> HIDE DEF mine
<1>4. MakePathError(n, mine) \in Perr /\ MakePathError(n, mine).receivers \subseteq Neighbours(s)
  BY <1>1, MakePathErrorType
<1>5. Sound(s, Forget(n, mine), I) /\ Fits(s, Forget(n, mine), I)
  BY <1>1, ForgetSound DEF Sound
<1> QED
  BY <1>3, <1>4, <1>5, ForwardPerrFits, SoundKept DEF Perr

-------------------------------------------------------------------------------
(* HwmpProtocol: data that waits *)

DataFrame(s, via, packet, ttl) == [kind |-> "DATA", from |-> s, to |-> via, packet |-> packet, ttl |-> ttl]

LEMMA DataGenuine ==
  ASSUME NEW s \in Station, NEW via \in Neighbours(s), NEW packet \in Packet, NEW ttl \in Int, NEW N
  PROVE  DataFrame(s, via, packet, ttl) \in Frame /\ GenuineFrame(DataFrame(s, via, packet, ttl), N)
BY NeighbourFacts DEF DataFrame, Frame, GenuineFrame

LEMMA SendDataSound ==
  ASSUME NEW s \in Station, NEW n, NEW I \in Numbers, Sound(s, n, I),
         NEW via \in Neighbours(s), NEW packet \in Packet, NEW ttl \in Int
  PROVE  Sound(s, SendData(s, n, via, packet, ttl), I)
<1> DEFINE F == {DataFrame(s, via, packet, ttl)}
<1>1. F \in SUBSET Frame /\ \A f \in F : GenuineFrame(f, Now(s, n, I))
  BY DataGenuine
<1>2. SendData(s, n, via, packet, ttl) = SendTo(n, F) /\ Fits(s, n, I)
  BY DEF SendData, DataFrame, Sound
<1> HIDE DEF F
<1> QED
  BY <1>1, <1>2, SendToFits, SoundKept

\* The queue and the pending retries change.
SameNews(n, m) ==
  /\ m.m_routes = n.m_routes /\ m.m_hwmpSeqno = n.m_hwmpSeqno
  /\ m.m_hwmpSeqnoMetricDatabase = n.m_hwmpSeqnoMetricDatabase
  /\ m.m_myPreq = n.m_myPreq /\ m.m_preqTimer = n.m_preqTimer /\ m.m_myPerr = n.m_myPerr
  /\ m.out = n.out

LEMMA Requeued ==
  ASSUME NEW s \in Station, NEW n, NEW I \in Numbers, Fits(s, n, I),
         NEW m \in Members, SameNews(n, m), QueueBounded(m)
  PROVE  Fits(s, m, I)
<1>1. Now(s, m, I) = Now(s, n, I)
  BY DEF Now, SameNews
<1>2. Genuine(m, Now(s, m, I)) /\ RoutesLead(s, m)
  BY <1>1 DEF Fits, Genuine, RoutesLead, SameNews
<1> QED
  BY <1>2 DEF Fits, SameNews

\* When the path to d is known, no packet for d is left in the queue.
LEMMA ResolvedSound ==
  ASSUME NEW s \in Station, NEW n, NEW I \in Numbers, Fits(s, n, I), Timed(n), NEW d \in Station,
         n.m_routes[d].retransmitter \in Neighbours(s),
         \A p \in n.m_rqueue : p.dst # d => n.m_preqTimeouts[p.dst] # 0 /\ ~n.m_routes[p.dst].valid
  PROVE  Sound(s, ReactivePathResolved(s, n, d), I)
<1> DEFINE via == n.m_routes[d].retransmitter
           ready == {p \in n.m_rqueue : p.dst = d}
           F == {DataFrame(s, via, p, MaxTtl) : p \in ready}
           k == SendTo(n, F)
           Q == k.m_rqueue \ ready
           m == ReactivePathResolved(s, n, d)
<1>1. n \in Members /\ ready \subseteq Packet /\ MaxTtl \in Int
  BY MemberTypes, HwmpAssumption DEF Fits
<1>2. F \in SUBSET Frame /\ \A f \in F : GenuineFrame(f, Now(s, n, I))
  BY <1>1, DataGenuine
<1>3. ReactivePathResolved(s, n, d) = [k EXCEPT !.m_rqueue = @ \ ready]
  BY DEF ReactivePathResolved, DataFrame
<1> HIDE DEF F
<1>4. /\ Fits(s, k, I) /\ SameRoutes(n, k) /\ k.m_myPreq = n.m_myPreq /\ k.m_preqTimer = n.m_preqTimer
  BY <1>2, SendToFits
<1> HIDE DEF k
<1>6. Q \in SUBSET Packet /\ IsFiniteSet(Q) /\ Cardinality(Q) <= MaxQueueSize + 1
  <2>1. IsFiniteSet(k.m_rqueue) /\ Cardinality(k.m_rqueue) <= MaxQueueSize + 1 /\ k.m_rqueue \in SUBSET Packet
    BY <1>4, MemberTypes DEF Fits, QueueBounded
  <2>2. IsFiniteSet(Q) /\ Cardinality(Q) <= Cardinality(k.m_rqueue)
    BY <2>1, FS_Subset
  <2> QED
    BY <2>1, <2>2, FS_CardinalityType, HwmpAssumption
<1>7. m = [k EXCEPT !.m_rqueue = Q]
  BY <1>3, <1>4 DEF Fits, Members
<1> HIDE DEF m, Q
<1>8. m \in Members /\ SameNews(k, m) /\ m.m_rqueue = Q /\ m.m_preqTimeouts = k.m_preqTimeouts
  BY <1>4, <1>6, <1>7 DEF Fits, Members, SameNews
<1>9. Awaited(m) /\ Timed(m)
  BY <1>4, <1>8 DEF Awaited, Timed, Valid, SameRoutes, SameNews, Q
<1>10. QueueBounded(m)
  BY <1>6, <1>8 DEF QueueBounded
<1> QED
  BY <1>4, <1>8, <1>9, <1>10, Requeued DEF Sound, m

\* A new route, which resolves the path to its destination
LEMMA LearnSound ==
  ASSUME NEW s \in Station, NEW n, NEW I \in Numbers, Sound(s, n, I),
         NEW d \in Station, NEW via \in Neighbours(s), NEW metric \in Nat, NEW seqnum \in Nat
  PROVE  Sound(s, Learn(s, n, d, via, metric, seqnum), I)
<1> DEFINE m == AddReactivePath(n, d, via, metric, seqnum)
<1>1. /\ Fits(s, m, I) /\ SameElse(n, m) /\ m.m_routes[d].retransmitter = via
      /\ \A e \in Station \ {d} : m.m_routes[e] = n.m_routes[e]
  BY AddReactivePathFits DEF Sound
<1>2. Learn(s, n, d, via, metric, seqnum) = ReactivePathResolved(s, m, d)
  BY DEF Learn
<1> HIDE DEF m
<1>3. \A p \in m.m_rqueue : p.dst \in Station
  BY <1>1, MemberTypes DEF Fits, Packet
<1>4. Timed(m) /\ \A p \in m.m_rqueue : p.dst # d => m.m_preqTimeouts[p.dst] # 0 /\ ~m.m_routes[p.dst].valid
  BY <1>1, <1>3 DEF Sound, Awaited, Timed, SameElse, Valid
<1> QED
  BY <1>1, <1>2, <1>4, ResolvedSound

LEMMA LearnNeighbourSound ==
  ASSUME NEW s \in Station, NEW n, NEW I \in Numbers, Sound(s, n, I),
         NEW from \in Neighbours(s), NEW seqnum \in Nat
  PROVE  Sound(s, LearnNeighbour(s, n, from, seqnum), I)
BY NeighbourFacts, LearnSound DEF LearnNeighbour

-------------------------------------------------------------------------------
(* HwmpProtocol: sequence numbers *)

LEMMA GenuineGrows ==
  ASSUME NEW M \in Numbers, NEW N \in Numbers, \A d \in Station : M[d] <= N[d]
  PROVE  /\ \A q \in Preq : GenuinePreq(q, M) => GenuinePreq(q, N)
         /\ \A f \in Frame : GenuineFrame(f, M) => GenuineFrame(f, N)
<1>1. ASSUME NEW q \in Preq, GenuinePreq(q, M) PROVE GenuinePreq(q, N)
  <2>1. q.originator \in Station /\ q.seqno \in Nat
    BY DEF Preq
  <2>2. M[q.originator] \in Nat /\ N[q.originator] \in Nat /\ M[q.originator] <= N[q.originator]
    BY <2>1 DEF Numbers
  <2> QED
    BY <1>1, <2>1, <2>2 DEF GenuinePreq
<1>2. ASSUME NEW f \in Frame, GenuineFrame(f, M) PROVE GenuineFrame(f, N)
  <2>1. CASE f.kind = "PREQ"
    <3>1. f.preqs \in Seq(Preq)
      BY <2>1 DEF Frame
    <3>2. \A i \in DOMAIN f.preqs : f.preqs[i] \in Preq
      BY <3>1
    <3> QED
      BY <1>1, <1>2, <2>1, <3>2 DEF GenuineFrame
  <2>2. CASE f.kind = "PREP"
    <3>1. f.originator \in Station /\ f.seqno \in Nat
      BY <2>2 DEF Frame
    <3>2. M[f.originator] \in Nat /\ N[f.originator] \in Nat /\ M[f.originator] <= N[f.originator]
      BY <3>1 DEF Numbers
    <3> QED
      BY <1>2, <2>2, <3>1, <3>2 DEF GenuineFrame
  <2> QED
    BY <1>2, <2>1, <2>2 DEF GenuineFrame
<1> QED
  BY <1>1, <1>2

LEMMA NowFacts ==
  ASSUME NEW s \in Station, NEW n, NEW I \in Numbers, Fits(s, n, I)
  PROVE  /\ Now(s, n, I) \in Numbers /\ Now(s, n, I)[s] = n.m_hwmpSeqno /\ n.m_hwmpSeqno \in Nat
         /\ \A d \in Station : I[d] <= Now(s, n, I)[d]
<1>1. n.m_hwmpSeqno \in Nat
  BY MemberTypes DEF Fits
<1> QED
  BY <1>1 DEF Now, Numbers, Fits

LEMMA GetNextSound ==
  ASSUME NEW s \in Station, NEW n, NEW I \in Numbers, Sound(s, n, I)
  PROVE  Sound(s, GetNextHwmpSeqno(n), I)
<1> DEFINE m == GetNextHwmpSeqno(n)
           x == n.m_hwmpSeqno + 1
           M == Now(s, n, I)
           N == Now(s, m, I)
<1>1. n \in Members /\ n.m_hwmpSeqno \in Nat /\ Fits(s, n, I)
  BY MemberTypes DEF Sound, Fits
<1>2. m = [n EXCEPT !.m_hwmpSeqno = x]
  BY <1>1 DEF GetNextHwmpSeqno, Members
<1>3. m \in Members
  <2>1. x \in Nat \ {0}
    BY <1>1
  <2> HIDE DEF x
  <2> QED
    BY <1>1, <1>2, <2>1 DEF Members
<1>4. /\ m.m_rqueue = n.m_rqueue /\ m.m_preqTimeouts = n.m_preqTimeouts /\ m.m_routes = n.m_routes
      /\ m.m_myPreq = n.m_myPreq /\ m.m_preqTimer = n.m_preqTimer /\ m.out = n.out
      /\ m.m_hwmpSeqno = n.m_hwmpSeqno + 1 /\ m.m_myPerr = n.m_myPerr
      /\ m.m_hwmpSeqnoMetricDatabase = n.m_hwmpSeqnoMetricDatabase
  BY <1>1, <1>2 DEF Members
<1> HIDE DEF m
<1>5. M \in Numbers /\ N \in Numbers /\ \A d \in Station : M[d] <= N[d]
  BY <1>1, <1>4 DEF Now, Numbers
<1> HIDE DEF M, N
<1>6. Genuine(m, N)
  <2>1. /\ m.m_myPreq \in Seq(Preq) /\ m.out \in SUBSET Frame
        /\ m.m_hwmpSeqnoMetricDatabase \in [Station -> [seqno : Int, metric : Nat]]
    BY <1>3, MemberTypes
  <2>2. \A i \in DOMAIN m.m_myPreq : m.m_myPreq[i] \in Preq
    BY <2>1
  <2>3. Genuine(n, M)
    BY <1>1 DEF Fits, M
  <2>4. /\ \A i \in DOMAIN m.m_myPreq : GenuinePreq(m.m_myPreq[i], N)
        /\ \A f \in m.out : GenuineFrame(f, N)
    BY <1>4, <1>5, <2>1, <2>2, <2>3, GenuineGrows DEF Genuine
  <2>5. m_doFlag => \A d \in Station : m.m_hwmpSeqnoMetricDatabase[d].seqno <= N[d]
    <3> SUFFICES ASSUME m_doFlag, NEW d \in Station PROVE m.m_hwmpSeqnoMetricDatabase[d].seqno <= N[d]
      OBVIOUS
    <3>1. m.m_hwmpSeqnoMetricDatabase[d].seqno \in Int /\ M[d] \in Nat /\ N[d] \in Nat
      BY <1>5, <2>1 DEF Numbers
    <3>2. m.m_hwmpSeqnoMetricDatabase[d].seqno <= M[d]
      BY <1>4, <2>3 DEF Genuine
    <3> QED
      BY <1>5, <3>1, <3>2
  <2> QED
    BY <2>4, <2>5 DEF Genuine
<1>7. QueueBounded(m) /\ RoutesLead(s, m) /\ Awaited(m) /\ Timed(m)
  BY <1>1, <1>4 DEF Sound, Fits, QueueBounded, RoutesLead, Awaited, Timed, Valid
<1>8. I[s] <= m.m_hwmpSeqno
  BY <1>1, <1>4 DEF Fits, Numbers
<1> QED
  BY <1>3, <1>6, <1>7, <1>8 DEF Sound, Fits, N, m

\* A genuine number is noted.
LEMMA NotedSound ==
  ASSUME NEW s \in Station, NEW n, NEW I \in Numbers, Sound(s, n, I), NEW o \in Station,
         NEW seqno \in Nat, NEW metric \in Nat, m_doFlag => seqno <= I[o]
  PROVE  LET m == [n EXCEPT !.m_hwmpSeqnoMetricDatabase[o] = [seqno |-> seqno, metric |-> metric]]
         IN  Sound(s, m, I) /\ m.m_routes = n.m_routes
<1> DEFINE m == [n EXCEPT !.m_hwmpSeqnoMetricDatabase[o] = [seqno |-> seqno, metric |-> metric]]
<1>1. n \in Members /\ Fits(s, n, I)
  BY DEF Sound, Fits
<1>2. m \in Members
  <2> DEFINE D == [n.m_hwmpSeqnoMetricDatabase EXCEPT ![o] = [seqno |-> seqno, metric |-> metric]]
  <2>1. D \in [Station -> [seqno : Int, metric : Nat]]
    BY <1>1, MemberTypes
  <2>2. m = [n EXCEPT !.m_hwmpSeqnoMetricDatabase = D]
    BY <1>1 DEF Members
  <2> HIDE DEF D, m
  <2> QED
    BY <1>1, <2>1, <2>2 DEF Members
<1>3. /\ m.m_rqueue = n.m_rqueue /\ m.m_preqTimeouts = n.m_preqTimeouts /\ m.m_routes = n.m_routes
      /\ m.m_myPreq = n.m_myPreq /\ m.m_preqTimer = n.m_preqTimer /\ m.out = n.out
      /\ m.m_hwmpSeqno = n.m_hwmpSeqno /\ m.m_myPerr = n.m_myPerr
      /\ m.m_hwmpSeqnoMetricDatabase = [n.m_hwmpSeqnoMetricDatabase EXCEPT ![o] = [seqno |-> seqno, metric |-> metric]]
  BY <1>1 DEF Members
<1> HIDE DEF m
<1>4. Now(s, m, I) = Now(s, n, I) /\ I[o] <= Now(s, n, I)[o] /\ I[o] \in Nat /\ Now(s, n, I)[o] \in Nat
  BY <1>1, <1>3, NowFacts DEF Now, Numbers
<1>5. Genuine(m, Now(s, m, I))
  <2>1. n.m_hwmpSeqnoMetricDatabase \in [Station -> [seqno : Int, metric : Nat]] /\ Genuine(n, Now(s, n, I))
    BY <1>1, MemberTypes DEF Fits
  <2>2. m_doFlag => \A d \in Station : m.m_hwmpSeqnoMetricDatabase[d].seqno <= Now(s, n, I)[d]
    BY <1>3, <1>4, <2>1 DEF Genuine
  <2> QED
    BY <1>3, <1>4, <2>1, <2>2 DEF Genuine
<1>6. QueueBounded(m) /\ RoutesLead(s, m) /\ Awaited(m) /\ Timed(m)
  BY <1>1, <1>3 DEF Sound, Fits, QueueBounded, RoutesLead, Awaited, Timed, Valid
<1>7. Sound(s, m, I)
  BY <1>1, <1>2, <1>3, <1>5, <1>6 DEF Sound, Fits
<1> QED
  BY <1>3, <1>7 DEF m

-------------------------------------------------------------------------------
(* HwmpProtocol: requests and answers *)

LEMMA PrepGenuine ==
  ASSUME NEW s \in Station, NEW to \in Neighbours(s), NEW orig \in Station, NEW dst \in Station,
         NEW metric \in Nat, NEW seqno \in Nat, NEW N, m_doFlag => seqno <= N[orig]
  PROVE  LET f == Prep(s, to, orig, dst, metric, seqno) IN f \in Frame /\ GenuineFrame(f, N)
BY NeighbourFacts DEF Prep, Frame, GenuineFrame

LEMMA AnswerForMyselfSound ==
  ASSUME NEW s \in Station, NEW n, NEW I \in Numbers, Sound(s, n, I), NEW from \in Neighbours(s), NEW q \in Preq
  PROVE  Sound(s, AnswerForMyself(s, n, from, q), I)
<1> DEFINE m == GetNextHwmpSeqno(n)
           f == Prep(s, from, s, q.originator, 0, m.m_hwmpSeqno)
<1>1. Sound(s, m, I) /\ Fits(s, m, I)
  BY GetNextSound DEF Sound
<1>2. AnswerForMyself(s, n, from, q) = IF \A u \in q.destinations : u.dst # s THEN n ELSE SendTo(m, {f})
  BY DEF AnswerForMyself
<1> HIDE DEF m
<1>3. Now(s, m, I)[s] = m.m_hwmpSeqno /\ m.m_hwmpSeqno \in Nat /\ q.originator \in Station
  BY <1>1, NowFacts DEF Preq
<1>4. f \in Frame /\ GenuineFrame(f, Now(s, m, I))
  BY <1>3, PrepGenuine
<1> HIDE DEF f
<1>5. {f} \in SUBSET Frame /\ \A g \in {f} : GenuineFrame(g, Now(s, m, I))
  BY <1>4
<1>6. Sound(s, SendTo(m, {f}), I)
  BY <1>1, <1>5, SendToFits, SoundKept
<1> QED
  BY <1>2, <1>6

\* With the destination-only flag nobody answers for others.
LEMMA AnsweredFacts ==
  ASSUME NEW ending, NEW s, NEW n, NEW q \in Preq, NEW N, GenuinePreq(q, N)
  PROVE  /\ Answered(s, n, q, ending) \subseteq q.destinations /\ q.destinations \subseteq Unit
         /\ m_doFlag => Answered(s, n, q, ending) = {}
BY DEF Answered, GenuinePreq, Preq

LEMMA AnswerForOthersSound ==
  ASSUME NEW ending, NEW s \in Station, NEW n, NEW I \in Numbers, Sound(s, n, I), NEW from \in Neighbours(s),
         NEW q \in Preq, GenuinePreq(q, I)
  PROVE  Sound(s, AnswerForOthers(s, n, from, q, ending), I)
<1> DEFINE dsts == {u.dst : u \in Answered(s, n, q, ending)}
           F == {Prep(s, from, d, q.originator, n.m_routes[d].metric, n.m_routes[d].seqnum) : d \in dsts}
           R == [d \in Station |-> IF d \in dsts
                                   THEN [n.m_routes[d] EXCEPT !.precursors = @ \cup {from}]
                                   ELSE n.m_routes[d]]
           m == [n EXCEPT !.m_routes = R]
<1>1. n \in Members /\ Fits(s, n, I) /\ n.m_routes \in [Station -> RoutesOf(s)] /\ q.originator \in Station
  BY RoutesType DEF Sound, Fits, Preq
<1>2. dsts \subseteq Station /\ (m_doFlag => dsts = {})
  BY AnsweredFacts DEF Unit
<1>3. AnswerForOthers(s, n, from, q, ending) = SendTo(m, F)
  BY <1>1 DEF AnswerForOthers, Members
<1> HIDE DEF dsts
<1>4. ASSUME NEW d \in Station
      PROVE  LET r == [n.m_routes[d] EXCEPT !.precursors = @ \cup {from}]
             IN  r \in RoutesOf(s) /\ r.valid = n.m_routes[d].valid
  <2>1. n.m_routes[d] \in RoutesOf(s)
    BY <1>1
  <2> QED
    BY <2>1, NeighbourFacts DEF RoutesOf, Route
<1>5. R \in [Station -> RoutesOf(s)] /\ \A d \in Station : R[d].valid => n.m_routes[d].valid
  BY <1>1, <1>4
<1>6. ASSUME NEW d \in dsts
      PROVE  LET f == Prep(s, from, d, q.originator, n.m_routes[d].metric, n.m_routes[d].seqnum)
             IN  f \in Frame /\ \A N : GenuineFrame(f, N)
  <2>1. d \in Station /\ n.m_routes[d].metric \in Nat /\ n.m_routes[d].seqnum \in Nat /\ ~m_doFlag
    BY <1>1, <1>2 DEF RoutesOf, Route
  <2> QED
    BY <1>1, <2>1, PrepGenuine
<1> HIDE DEF R
<1>7. Fits(s, m, I) /\ SameElse(n, m) /\ m.m_routes = R
  BY <1>1, <1>5, Rerouted
<1> HIDE DEF m
<1>8. Sound(s, m, I)
  BY <1>5, <1>7, SameWaysAwaited
<1>9. F \in SUBSET Frame /\ \A f \in F : GenuineFrame(f, Now(s, m, I))
  BY <1>6
<1> HIDE DEF F
<1> QED
  BY <1>3, <1>7, <1>8, <1>9, SendToFits, SoundKept

LEMMA RemainingGenuine ==
  ASSUME NEW ending, NEW s, NEW n, NEW q \in Preq, NEW N, GenuinePreq(q, N)
  PROVE  /\ Remaining(s, n, q, ending) \in SUBSET Unit
         /\ m_doFlag => \A u \in Remaining(s, n, q, ending) : u.do
<1>1. \A u \in Unit : LET v == [u EXCEPT !.do = TRUE, !.rf = FALSE] IN v \in Unit /\ v.do
  BY DEF Unit
<1> QED
  BY <1>1, AnsweredFacts DEF Remaining, GenuinePreq

\* The whole handler of a request
LEMMA ReceivePreqSound ==
  ASSUME NEW ending, NEW s \in Station, NEW n, NEW I \in Numbers, Sound(s, n, I), NEW from \in Neighbours(s),
         NEW preq \in Preq, GenuinePreq(preq, I)
  PROVE  Sound(s, ReceivePreq(s, n, from, preq, ending), I)
<1> DEFINE q == [preq EXCEPT !.metric = @ + Metric[<<s, from>>]]
           known == n.m_hwmpSeqnoMetricDatabase[q.originator]
           n1 == [n EXCEPT !.m_hwmpSeqnoMetricDatabase[q.originator] = [seqno |-> q.seqno, metric |-> q.metric]]
           n2 == IF known.seqno # q.seqno \/ Improves(n1, q.originator, q.metric)
                 THEN Learn(s, n1, q.originator, from, q.metric, q.seqno) ELSE n1
           n3 == LearnNeighbour(s, n2, from, q.seqno)
           n4 == AnswerForOthers(s, AnswerForMyself(s, n3, from, q), from, q, ending)
           left == Remaining(s, n3, q, ending)
           p == [q EXCEPT !.destinations = left]
<1>1. ReceivePreq(s, n, from, preq, ending) =
        IF q.originator = s \/ ~AcceptPreq(known, q) THEN n
        ELSE IF left = {} THEN n4
        ELSE SendPreq(s, n4, <<p>>)
  BY DEF ReceivePreq
<1>2. q \in Preq /\ q.originator = preq.originator /\ q.seqno = preq.seqno /\ q.destinations = preq.destinations
  <2> DEFINE x == preq.metric + Metric[<<s, from>>]
  <2>1. x \in Nat
    <3> preq.metric \in Nat
      BY DEF Preq
    <3> QED
      BY MetricType, Zenon
  <2>2. q = [preq EXCEPT !.metric = x]
    BY DEF Preq
  <2> HIDE DEF x, q
  <2> QED
    BY <2>1, <2>2 DEF Preq
<1>3. GenuinePreq(q, I)
  BY <1>2 DEF GenuinePreq
<1> HIDE DEF q
<1>4. /\ q.originator \in Station /\ q.seqno \in Nat /\ q.metric \in Nat
      /\ (m_doFlag => q.seqno <= I[q.originator])
  BY <1>2, <1>3 DEF Preq, GenuinePreq
<1>5. Sound(s, n1, I)
  BY <1>4, NotedSound
<1> HIDE DEF n1
<1>6. Sound(s, n2, I)
  BY <1>4, <1>5, LearnSound
<1> HIDE DEF n2
<1>7. Sound(s, n3, I)
  BY <1>4, <1>6, LearnNeighbourSound
<1> HIDE DEF n3
<1>8. Sound(s, n4, I)
  <2>1. Sound(s, AnswerForMyself(s, n3, from, q), I)
    BY <1>2, <1>7, AnswerForMyselfSound
  <2> QED
    BY <1>2, <1>3, <2>1, AnswerForOthersSound
<1> HIDE DEF n4
<1>9. left \in SUBSET Unit /\ (m_doFlag => \A u \in left : u.do)
  BY <1>2, <1>3, RemainingGenuine
<1> HIDE DEF left
<1>10. p \in Preq /\ GenuinePreq(p, I)
  BY <1>2, <1>3, <1>9 DEF Preq, GenuinePreq
<1> HIDE DEF p
<1>11. Fits(s, n4, I) /\ GenuinePreq(p, Now(s, n4, I))
  BY <1>8, <1>10, NowFacts, GenuineGrows DEF Sound
<1>12. <<p>> \in Seq(Preq) /\ \A i \in DOMAIN <<p>> : GenuinePreq(<<p>>[i], Now(s, n4, I))
  BY <1>10, <1>11
<1>13. Sound(s, SendPreq(s, n4, <<p>>), I)
  BY <1>8, <1>11, <1>12, SendPreqFits, SoundKept
<1> QED
  BY <1>1, <1>8, <1>13

\* The requests of a frame one after the other: what each of them keeps is kept.
LEMMA ReceivePreqsKeep ==
  ASSUME NEW ending, NEW s, NEW n, NEW from, NEW preqs \in Seq(Preq), NEW S, n \in S,
         \A i \in DOMAIN preqs : \A m \in S : ReceivePreq(s, m, from, preqs[i], ending) \in S
  PROVE  ReceivePreqs(s, n, from, preqs, ending) \in S
<1> DEFINE k == Len(preqs)
           Def(f) == [i \in 0 .. k |-> IF i = 0 THEN n ELSE ReceivePreq(s, f[i - 1], from, preqs[i], ending)]
           step == [i \in 1 .. k |-> [m \in S |-> ReceivePreq(s, m, from, preqs[i], ending)]]
           after == AfterPreqs(s, n, from, preqs, ending)
<1>1. k \in Nat /\ DOMAIN preqs = 1 .. k
  OBVIOUS
<1>2. step \in [1 .. k -> [S -> S]]
  BY <1>1
<1>3. PICK f \in [0 .. k -> S] : IsLoop(f, n, k, step)
  <2> HIDE DEF k, step
  <2> QED
    BY <1>1, <1>2, LoopExists, Zenon
<1>4. ASSUME NEW i \in 1 .. k PROVE f[i] = ReceivePreq(s, f[i - 1], from, preqs[i], ending)
  <2> f[i - 1] \in S
    BY <1>1
  <2> QED
    BY <1>3 DEF IsLoop
<1>5. f = Def(f)
  BY <1>1, <1>3, <1>4 DEF IsLoop
<1>6. after = CHOOSE g : g = Def(g)
  BY DEF AfterPreqs
<1> HIDE DEF after
<1>7. after = Def(after)
  <2> HIDE DEF Def
  <2> QED
    BY <1>5, <1>6
<1>8. after[0] = n /\ \A i \in 1 .. k : after[i] = ReceivePreq(s, after[i - 1], from, preqs[i], ending)
  BY <1>1, <1>7
<1>9. k \in 0 .. k /\ 0 .. k \subseteq {i \in 0 .. k : after[i] \in S}
  <2> DEFINE T == {i \in 0 .. k : after[i] \in S}
  <2>1. 0 \in T
    BY <1>1, <1>8
  <2>2. \A i \in 1 .. k : i - 1 \in T => i \in T
    BY <1>1, <1>8
  <2> HIDE DEF T
  <2>3. 0 .. k \subseteq T
    BY <1>1, <2>1, <2>2, IndexInduction
  <2> QED
    BY <1>1, <2>3 DEF T
<1> QED
  BY <1>9 DEF ReceivePreqs, after

LEMMA ReceivePreqsSound ==
  ASSUME NEW ending, NEW s \in Station, NEW n, NEW I \in Numbers, Sound(s, n, I), NEW from \in Neighbours(s),
         NEW preqs \in Seq(Preq), \A i \in DOMAIN preqs : GenuinePreq(preqs[i], I)
  PROVE  Sound(s, ReceivePreqs(s, n, from, preqs, ending), I)
<1> DEFINE S == {m \in Members : Sound(s, m, I)}
<1>1. n \in S /\ \A i \in DOMAIN preqs : preqs[i] \in Preq
  BY DEF Sound, Fits
<1>2. ASSUME NEW i \in DOMAIN preqs, NEW m \in S
      PROVE  ReceivePreq(s, m, from, preqs[i], ending) \in S
  <2>1. Sound(s, ReceivePreq(s, m, from, preqs[i], ending), I)
    BY <1>1, ReceivePreqSound
  <2> QED
    BY <2>1 DEF Sound, Fits
<1> HIDE DEF S
<1>3. ReceivePreqs(s, n, from, preqs, ending) \in S
  BY <1>1, <1>2, ReceivePreqsKeep
<1> QED
  BY <1>3 DEF S

\* The whole handler of an answer
LEMMA ReceivePrepSound ==
  ASSUME NEW s \in Station, NEW n, NEW I \in Numbers, Sound(s, n, I), NEW from \in Neighbours(s),
         NEW prep \in Frame, prep.kind = "PREP", GenuineFrame(prep, I)
  PROVE  Sound(s, ReceivePrep(s, n, from, prep), I)
<1> DEFINE x == prep.metric + Metric[<<s, from>>]
           p == [prep EXCEPT !.metric = @ + Metric[<<s, from>>]]
           known == n.m_hwmpSeqnoMetricDatabase[p.originator]
           n1 == [n EXCEPT !.m_hwmpSeqnoMetricDatabase[p.originator] = [seqno |-> p.seqno, metric |-> p.metric]]
           back == IF Valid(n, p.dst) THEN n.m_routes[p.dst].retransmitter ELSE None
           new == AddReactivePath(n1, p.originator, from, p.metric, p.seqno)
           added == AddPrecursor(new, p.dst, from)
           twice == IF back = None THEN added ELSE AddPrecursor(added, p.originator, back)
           n2 == IF known.seqno # p.seqno \/ Improves(n1, p.originator, p.metric)
                 THEN ReactivePathResolved(s, twice, p.originator)
                 ELSE n1
           n3 == LearnNeighbour(s, n2, from, p.seqno)
           f == [p EXCEPT !.from = s, !.to = back]
           PrepFrame == [kind : {"PREP"}, from : Station, to : Station, originator : Station,
                         dst : Station, metric : Nat, seqno : Nat]
<1>1. ReceivePrep(s, n, from, prep) =
        IF ~AcceptPrep(known, p) THEN n
        ELSE IF p.dst = s \/ back = None THEN n3
        ELSE SendTo(n3, {f})
  BY DEF ReceivePrep
<1>2. prep \in PrepFrame
  BY DEF Frame
<1>3. p \in PrepFrame /\ p.originator = prep.originator /\ p.seqno = prep.seqno
  <2>1. x \in Nat
    <3> prep.metric \in Nat
      BY <1>2
    <3> QED
      BY MetricType, Zenon
  <2>2. p = [prep EXCEPT !.metric = x]
    BY <1>2
  <2> HIDE DEF x, p
  <2> QED
    BY <1>2, <2>1, <2>2
<1> HIDE DEF p
<1>4. /\ p.originator \in Station /\ p.dst \in Station /\ p.seqno \in Nat /\ p.metric \in Nat
      /\ (m_doFlag => p.seqno <= I[p.originator])
  BY <1>3 DEF GenuineFrame
<1>5. back = None \/ back \in Neighbours(s)
  <2>1. n.m_routes[p.dst] \in RoutesOf(s)
    BY <1>4, RoutesType DEF Sound, Fits
  <2> QED
    BY <2>1 DEF RoutesOf, Valid
<1> HIDE DEF back
<1>6. Sound(s, n1, I)
  BY <1>4, NotedSound
<1> HIDE DEF n1
<1>7. /\ Fits(s, new, I) /\ SameElse(n1, new) /\ new.m_routes[p.originator].retransmitter = from
      /\ \A e \in Station \ {p.originator} : new.m_routes[e] = n1.m_routes[e]
  BY <1>4, <1>6, AddReactivePathFits, SMTT(30) DEF Sound
<1> HIDE DEF new
<1>8. Fits(s, added, I) /\ SameElse(new, added) /\ SameWays(new, added)
  BY <1>4, <1>7, AddPrecursorFits
<1> HIDE DEF added
<1>9. Fits(s, twice, I) /\ SameElse(new, twice) /\ SameWays(new, twice)
  <2>1. CASE back = None
    BY <1>8, <2>1
  <2>2. CASE back # None
    <3>1. LET m == AddPrecursor(added, p.originator, back)
          IN  Fits(s, m, I) /\ SameElse(added, m) /\ SameWays(added, m)
      BY <1>4, <1>5, <1>8, <2>2, AddPrecursorFits
    <3> QED
      BY <1>8, <2>2, <3>1 DEF SameElse, SameWays
  <2> QED
    BY <2>1, <2>2
<1> HIDE DEF twice
<1>10. Sound(s, n2, I)
  <2>1. \A e \in twice.m_rqueue : e.dst \in Station
    BY <1>9, MemberTypes DEF Fits, Packet
  <2>2. /\ twice.m_routes[p.originator].retransmitter \in Neighbours(s) /\ Timed(twice)
        /\ \A e \in twice.m_rqueue : e.dst # p.originator =>
              twice.m_preqTimeouts[e.dst] # 0 /\ ~twice.m_routes[e.dst].valid
    BY <1>4, <1>6, <1>7, <1>9, <2>1 DEF Sound, Awaited, Timed, SameElse, SameWays, Valid
  <2> QED
    BY <1>4, <1>6, <1>9, <2>2, ResolvedSound
<1> HIDE DEF n2
<1>11. Sound(s, n3, I) /\ Fits(s, n3, I)
  BY <1>4, <1>10, LearnNeighbourSound DEF Sound
<1> HIDE DEF n3
<1>12. ASSUME back # None PROVE Sound(s, SendTo(n3, {f}), I)
  <2>1. back \in Station /\ <<s, back>> \in DOMAIN Metric
    BY <1>5, <1>12, NeighbourFacts
  <2>2. f \in PrepFrame /\ f.originator = p.originator /\ f.seqno = p.seqno /\ f.from = s /\ f.to = back
    BY <1>3, <2>1
  <2> HIDE DEF f
  <2>3. f \in Frame /\ GenuineFrame(f, I)
    BY <1>4, <2>1, <2>2 DEF Frame, GenuineFrame
  <2>4. {f} \in SUBSET Frame /\ \A g \in {f} : GenuineFrame(g, Now(s, n3, I))
    BY <1>11, <2>3, NowFacts, GenuineGrows
  <2> QED
    BY <1>11, <2>4, SendToFits, SoundKept
<1> QED
  BY <1>1, <1>11, <1>12

\* ForwardUnicast of a packet from another station
LEMMA ForwardSound ==
  ASSUME NEW s \in Station, NEW n, NEW I \in Numbers, Sound(s, n, I), NEW packet \in Packet, NEW ttl \in Int
  PROVE  Sound(s, Forward(s, n, packet, ttl), I)
<1>1. n.m_routes[packet.dst] \in RoutesOf(s)
  BY RoutesType DEF Sound, Fits, Packet
<1>2. CASE n.m_routes[packet.dst].valid
  <2>1. n.m_routes[packet.dst].retransmitter \in Neighbours(s)
    BY <1>1, <1>2 DEF RoutesOf
  <2> QED
    BY <1>2, <2>1, SendDataSound DEF Forward
<1>3. CASE ~n.m_routes[packet.dst].valid
  BY <1>3, InitiatePathErrorSound DEF Forward
<1> QED
  BY <1>2, <1>3

-------------------------------------------------------------------------------
(* HwmpProtocol: discoveries *)

\* The retry of a discovery is counted, or there is none any more.
LEMMA CountedFits ==
  ASSUME NEW s \in Station, NEW n, NEW I \in Numbers, Fits(s, n, I),
         NEW dst \in Station, NEW x \in 0 .. MaxRetries + 1
  PROVE  LET m == [n EXCEPT !.m_preqTimeouts[dst] = x]
         IN  /\ Fits(s, m, I) /\ SameNews(n, m) /\ m.m_rqueue = n.m_rqueue
             /\ m.m_preqTimeouts = [n.m_preqTimeouts EXCEPT ![dst] = x]
<1> DEFINE T == [n.m_preqTimeouts EXCEPT ![dst] = x]
           m == [n EXCEPT !.m_preqTimeouts[dst] = x]
<1>1. n \in Members /\ T \in [Station -> 0 .. MaxRetries + 1]
  BY MemberTypes DEF Fits
<1>2. m = [n EXCEPT !.m_preqTimeouts = T]
  BY <1>1 DEF Members
<1> HIDE DEF T, m
<1>3. m \in Members /\ SameNews(n, m) /\ m.m_rqueue = n.m_rqueue /\ m.m_preqTimeouts = T
  BY <1>1, <1>2 DEF Members, SameNews
<1>4. QueueBounded(m)
  BY <1>3 DEF Fits, QueueBounded
<1>5. Fits(s, m, I)
  BY <1>3, <1>4, Requeued
<1> QED
  BY <1>3, <1>5 DEF m, T

\* A discovery that goes on: one more retry is pending.
LEMMA CountedSound ==
  ASSUME NEW s \in Station, NEW n, NEW I \in Numbers, Sound(s, n, I),
         NEW dst \in Station, NEW x \in 1 .. MaxRetries + 1
  PROVE  LET m == [n EXCEPT !.m_preqTimeouts[dst] = x]
         IN  Sound(s, m, I) /\ m.m_routes = n.m_routes /\ m.m_rqueue = n.m_rqueue /\ m.m_preqTimeouts[dst] = x
<1> DEFINE m == [n EXCEPT !.m_preqTimeouts[dst] = x]
<1>1. x \in 0 .. MaxRetries + 1 /\ x # 0 /\ Fits(s, n, I)
  BY DEF Sound
<1>2. /\ Fits(s, m, I) /\ SameNews(n, m) /\ m.m_rqueue = n.m_rqueue
      /\ m.m_preqTimeouts = [n.m_preqTimeouts EXCEPT ![dst] = x]
  BY <1>1, CountedFits
<1> HIDE DEF m
<1>3. n.m_preqTimeouts \in [Station -> 0 .. MaxRetries + 1]
  BY MemberTypes DEF Sound, Fits
<1>4. \A p \in n.m_rqueue : p.dst \in Station
  BY MemberTypes DEF Sound, Fits, Packet
<1>5. Awaited(m) /\ Timed(m)
  BY <1>1, <1>2, <1>3, <1>4 DEF Sound, Awaited, Timed, Valid, SameNews
<1>6. m.m_preqTimeouts[dst] = x
  BY <1>2, <1>3
<1> QED
  BY <1>2, <1>5, <1>6 DEF Sound, SameNews, m

\* A packet may wait where a retry is pending and no route is valid.
LEMMA QueuePacketSound ==
  ASSUME NEW s \in Station, NEW n, NEW I \in Numbers, Sound(s, n, I), NEW packet \in Packet,
         n.m_preqTimeouts[packet.dst] # 0, ~Valid(n, packet.dst)
  PROVE  Sound(s, QueuePacket(n, packet), I)
<1>1. CASE Cardinality(n.m_rqueue) > MaxQueueSize
  BY <1>1 DEF QueuePacket
<1>2. CASE ~(Cardinality(n.m_rqueue) > MaxQueueSize)
  <2> DEFINE Q == n.m_rqueue \cup {packet}
             m == QueuePacket(n, packet)
  <2>1. n \in Members /\ Fits(s, n, I) /\ n.m_rqueue \in SUBSET Packet /\ IsFiniteSet(n.m_rqueue)
    BY MemberTypes DEF Sound, Fits, QueueBounded
  <2>2. m = [n EXCEPT !.m_rqueue = Q]
    BY <1>2, <2>1 DEF QueuePacket, Members
  <2>3. Q \in SUBSET Packet /\ IsFiniteSet(Q) /\ Cardinality(Q) <= MaxQueueSize + 1
    <3>1. Cardinality(n.m_rqueue) \in Nat /\ MaxQueueSize \in Nat
      BY <2>1, FS_CardinalityType, HwmpAssumption
    <3>2. IsFiniteSet(Q) /\ Cardinality(Q) \in {Cardinality(n.m_rqueue), Cardinality(n.m_rqueue) + 1}
      BY <2>1, FS_AddElement
    <3> QED
      BY <1>2, <2>1, <3>1, <3>2
  <2> HIDE DEF m
  <2>4. m.m_rqueue = Q
    BY <2>1, <2>2 DEF Members
  <2> HIDE DEF Q
  <2>5. m \in Members /\ SameNews(n, m) /\ m.m_preqTimeouts = n.m_preqTimeouts
    BY <2>1, <2>2, <2>3 DEF Members, SameNews
  <2>6. Fits(s, m, I)
    BY <2>1, <2>3, <2>4, <2>5, Requeued DEF QueueBounded
  <2>7. Awaited(m) /\ Timed(m)
    BY <2>4, <2>5 DEF Sound, Awaited, Timed, Valid, SameNews, Q
  <2> QED
    BY <2>6, <2>7 DEF Sound, m
<1> QED
  BY <1>1, <1>2

\* ForwardUnicast of a packet of the station's own
LEMMA RequestSound ==
  ASSUME NEW s \in Station, NEW n, NEW I \in Numbers, Sound(s, n, I), NEW packet \in Packet, flags \in Flags
  PROVE  Sound(s, Request(s, n, packet), I)
<1> DEFINE dst == packet.dst
           c == [n EXCEPT !.m_preqTimeouts[dst] = 1]
           m == GetNextHwmpSeqno(c)
           seqno == n.m_routes[dst].seqnum
           k == RequestDestination(s, m, dst, seqno)
<1>1. n.m_routes[dst] \in RoutesOf(s) /\ dst \in Station /\ seqno \in Nat
  BY RoutesType DEF Sound, Fits, Packet, RoutesOf, Route
<1>2. Request(s, n, packet) =
        IF Valid(n, dst) THEN SendData(s, n, n.m_routes[dst].retransmitter, packet, MaxTtl)
        ELSE QueuePacket(IF ShouldSendPreq(n, dst) THEN k ELSE n, packet)
  BY DEF Request
<1> HIDE DEF seqno
<1>3. CASE Valid(n, dst)
  <2>1. n.m_routes[dst].retransmitter \in Neighbours(s) /\ MaxTtl \in Int
    BY <1>1, <1>3, HwmpAssumption DEF RoutesOf, Valid
  <2> QED
    BY <1>2, <1>3, <2>1, SendDataSound
<1>4. CASE ~Valid(n, dst) /\ ~ShouldSendPreq(n, dst)
  BY <1>2, <1>4, QueuePacketSound DEF ShouldSendPreq
<1>5. CASE ~Valid(n, dst) /\ ShouldSendPreq(n, dst)
  <2>1. 1 \in 1 .. MaxRetries + 1
    BY HwmpAssumption
  <2> HIDE DEF dst
  <2>2. Sound(s, c, I) /\ c.m_routes = n.m_routes /\ c.m_preqTimeouts[dst] = 1
    <3> DEFINE x == 1
    <3>1. x \in 1 .. MaxRetries + 1
      BY <2>1
    <3> HIDE DEF x
    <3>2. LET m1 == [n EXCEPT !.m_preqTimeouts[dst] = x]
          IN  Sound(s, m1, I) /\ m1.m_routes = n.m_routes /\ m1.m_preqTimeouts[dst] = x
      BY <1>1, <3>1, CountedSound
    <3> QED
      BY <3>2 DEF x
  <2> HIDE DEF c
  <2>3. Sound(s, m, I) /\ m.m_routes = c.m_routes /\ m.m_preqTimeouts = c.m_preqTimeouts
    BY <2>2, GetNextSound DEF GetNextHwmpSeqno, Sound, Fits, Members
  <2> HIDE DEF m
  <2>4. Fits(s, k, I) /\ SameRoutes(m, k) /\ Timed(k)
    BY <1>1, <2>3, RequestDestinationSound DEF Sound
  <2> HIDE DEF k
  <2>5. Sound(s, k, I) /\ k.m_preqTimeouts[dst] # 0 /\ ~Valid(k, dst)
    BY <1>5, <2>2, <2>3, <2>4, SameAwaited DEF Sound, SameRoutes, Valid
  <2> QED
    BY <1>2, <1>5, <2>5, QueuePacketSound DEF dst
<1> QED
  BY <1>3, <1>4, <1>5

\* A discovery that is over: no packet is left that waits for it.
LEMMA OverSound ==
  ASSUME NEW s \in Station, NEW n, NEW I \in Numbers, Sound(s, n, I), NEW dst \in Station
  PROVE  /\ Sound(s, GiveUp(n, dst), I)
         /\ Valid(n, dst) => Sound(s, [n EXCEPT !.m_preqTimeouts[dst] = 0], I)
<1> DEFINE m == [n EXCEPT !.m_preqTimeouts[dst] = 0]
           Q == {p \in n.m_rqueue : p.dst # dst}
           k == GiveUp(n, dst)
<1>1. n \in Members /\ Fits(s, n, I) /\ 0 \in 0 .. MaxRetries + 1
  BY HwmpAssumption DEF Sound, Fits
<1>2. /\ Fits(s, m, I) /\ SameNews(n, m) /\ m.m_rqueue = n.m_rqueue
      /\ m.m_preqTimeouts = [n.m_preqTimeouts EXCEPT ![dst] = 0]
  BY <1>1, CountedFits
<1>3. k = [m EXCEPT !.m_rqueue = Q]
  BY <1>1 DEF GiveUp, Members
<1> HIDE DEF m, k
<1>4. Q \in SUBSET Packet /\ IsFiniteSet(Q) /\ Cardinality(Q) <= MaxQueueSize + 1
  <2>1. IsFiniteSet(n.m_rqueue) /\ Cardinality(n.m_rqueue) <= MaxQueueSize + 1 /\ n.m_rqueue \in SUBSET Packet
    BY <1>1, MemberTypes DEF Fits, QueueBounded
  <2>2. IsFiniteSet(Q) /\ Cardinality(Q) <= Cardinality(n.m_rqueue)
    BY <2>1, FS_Subset
  <2> QED
    BY <2>1, <2>2, FS_CardinalityType, HwmpAssumption
<1>5. k.m_rqueue = Q
  BY <1>2, <1>3 DEF Fits, Members
<1>6. \A p \in n.m_rqueue : p.dst \in Station /\ n.m_preqTimeouts \in [Station -> 0 .. MaxRetries + 1]
  BY <1>1, MemberTypes DEF Packet
<1>7. \A p \in Q : n.m_preqTimeouts[p.dst] # 0 /\ ~n.m_routes[p.dst].valid /\ p.dst \in Station \ {dst}
  BY <1>6 DEF Sound, Awaited, Valid
<1>8. ASSUME Valid(n, dst) PROVE Sound(s, m, I)
  <2>1. Q = n.m_rqueue
    BY <1>8 DEF Sound, Awaited
  <2> QED
    BY <1>2, <1>6, <1>7, <2>1 DEF Sound, Awaited, Timed, SameNews, Valid
<1> HIDE DEF Q
<1>9. k \in Members /\ SameNews(m, k) /\ k.m_preqTimeouts = m.m_preqTimeouts
  BY <1>2, <1>3, <1>4 DEF Fits, Members, SameNews
<1>10. Fits(s, k, I)
  BY <1>2, <1>4, <1>5, <1>9, Requeued DEF QueueBounded
<1>11. Awaited(k) /\ Timed(k)
  <2>1. \A p \in Q : k.m_preqTimeouts[p.dst] = n.m_preqTimeouts[p.dst]
    BY <1>1, <1>2, <1>7, <1>9, MemberTypes
  <2> QED
    BY <1>2, <1>5, <1>7, <1>9, <2>1 DEF Sound, Awaited, Timed, SameNews, Valid
<1> QED
  BY <1>8, <1>10, <1>11 DEF Sound, m, k

LEMMA RetrySound ==
  ASSUME NEW s \in Station, NEW n, NEW I \in Numbers, Sound(s, n, I), NEW dst \in Station,
         n.m_preqTimeouts[dst] # 0, flags \in Flags
  PROVE  Sound(s, Retry(s, n, dst), I)
<1> DEFINE x == n.m_preqTimeouts[dst] + 1
           c == [n EXCEPT !.m_preqTimeouts[dst] = x]
           m == GetNextHwmpSeqno(c)
           k == RequestDestination(s, m, dst, n.m_routes[dst].seqnum)
<1>1. /\ n \in Members /\ n.m_preqTimeouts \in [Station -> 0 .. MaxRetries + 1]
      /\ n.m_routes[dst].seqnum \in Nat
  BY MemberTypes DEF Sound, Fits, Route
<1>2. Retry(s, n, dst) =
        IF Valid(n, dst) THEN [n EXCEPT !.m_preqTimeouts[dst] = 0]
        ELSE IF LastRetry(n, dst) THEN GiveUp(n, dst) ELSE k
  BY <1>1 DEF Retry, Members
<1>3. CASE ~LastRetry(n, dst)
  <2>1. x \in 1 .. MaxRetries + 1
    BY <1>1, <1>3, HwmpAssumption DEF LastRetry
  <2> HIDE DEF x
  <2>2. Sound(s, c, I)
    BY <2>1, CountedSound
  <2> HIDE DEF c
  <2>3. Sound(s, m, I) /\ Fits(s, m, I)
    BY <2>2, GetNextSound DEF Sound
  <2> HIDE DEF m
  <2>4. Fits(s, k, I) /\ SameRoutes(m, k) /\ Timed(k)
    BY <1>1, <2>3, RequestDestinationSound
  <2> HIDE DEF k
  <2>5. Sound(s, k, I)
    BY <2>3, <2>4, SameAwaited DEF Sound
  <2> QED
    BY <1>2, <1>3, <2>5, OverSound
<1> QED
  BY <1>2, <1>3, OverSound

-------------------------------------------------------------------------------
(* The actions *)

\* Between two handlers every station is sound.
LEMMA StationsSound ==
  ASSUME HwmpInv
  PROVE  /\ Issued \in Numbers
         /\ \A s \in Station : Sound(s, node[s], Issued)
<1>1. \A s \in Station : node[s] \in Members /\ node[s].m_hwmpSeqno \in Nat
  BY MemberTypes DEF HwmpInv
<1>2. Issued \in Numbers
  BY <1>1 DEF Issued, Numbers
<1>3. ASSUME NEW s \in Station PROVE Sound(s, node[s], Issued)
  <2>1. Issued[s] = node[s].m_hwmpSeqno /\ Now(s, node[s], Issued) = Issued
    BY <1>2 DEF Issued, Now, Numbers
  <2> QED
    BY <1>1, <2>1 DEF HwmpInv, Sound, Fits
<1> QED
  BY <1>2, <1>3

\* A handler that leaves its station sound keeps the invariant, whatever part
\* of its frames arrives.
LEMMA StationInv ==
  ASSUME HwmpInv, NEW s \in Station, NEW n, Sound(s, n, Issued), NEW others \in SUBSET net,
         node' = [node EXCEPT ![s] = [n EXCEPT !.out = {}]], UNCHANGED flags,
         \E arriving \in SUBSET n.out : net' = others \cup arriving,
         packets' \in 0 .. MaxPackets, faults' \in 0 .. MaxFaults
  PROVE  HwmpInv'
<1> DEFINE I == Issued
           J == Now(s, n, Issued)
           k == [n EXCEPT !.out = {}]
<1>1. I \in Numbers /\ (\A t \in Station : Sound(t, node[t], I)) /\ node \in [Station -> Members]
  BY StationsSound DEF HwmpInv
<1>2. n \in Members /\ Fits(s, n, I)
  BY DEF Sound, Fits
<1>3. J \in Numbers /\ \A t \in Station : I[t] <= J[t]
  BY <1>1, <1>2, NowFacts
<1>4. PICK arriving \in SUBSET n.out : net' = others \cup arriving
  OBVIOUS
<1>5. node' = [node EXCEPT ![s] = k] /\ UNCHANGED flags
  OBVIOUS
<1>6. k \in Members /\ k.out = {} /\ SameRoutes(n, k) /\ k.m_myPreq = n.m_myPreq
      /\ k.m_preqTimer = n.m_preqTimer /\ k.m_myPerr = n.m_myPerr
  <2> {} \in SUBSET Frame
    OBVIOUS
  <2> QED
    BY <1>2 DEF Members, SameRoutes
<1> HIDE DEF k
<1>7. RoutesLead(s, k) /\ QueueBounded(k) /\ Awaited(k) /\ Timed(k)
  BY <1>2, <1>6 DEF Sound, Fits, RoutesLead, QueueBounded, Awaited, Timed, Valid, SameRoutes
<1>8. Genuine(k, J)
  BY <1>2, <1>6 DEF Fits, Genuine, SameRoutes
<1>9. Issued' = J
  <2>1. \A t \in Station : node'[t].m_hwmpSeqno = IF t = s THEN n.m_hwmpSeqno ELSE node[t].m_hwmpSeqno
    BY <1>1, <1>5, <1>6 DEF SameRoutes
  <2> QED
    BY <2>1 DEF Issued, Now
<1> HIDE DEF J, I
<1>10. ASSUME NEW t \in Station, Genuine(node[t], I), node[t] \in Members PROVE Genuine(node[t], J)
  <2>1. /\ node[t].m_myPreq \in Seq(Preq) /\ node[t].out \in SUBSET Frame
        /\ node[t].m_hwmpSeqnoMetricDatabase \in [Station -> [seqno : Int, metric : Nat]]
    BY <1>10, MemberTypes
  <2>2. /\ \A i \in DOMAIN node[t].m_myPreq : GenuinePreq(node[t].m_myPreq[i], J)
        /\ \A f \in node[t].out : GenuineFrame(f, J)
    <3>1. \A i \in DOMAIN node[t].m_myPreq : node[t].m_myPreq[i] \in Preq
      BY <2>1
    <3> QED
      BY <1>1, <1>3, <1>10, <2>1, <3>1, GenuineGrows DEF Genuine
  <2>3. ASSUME m_doFlag, NEW d \in Station PROVE node[t].m_hwmpSeqnoMetricDatabase[d].seqno <= J[d]
    <3>1. node[t].m_hwmpSeqnoMetricDatabase[d].seqno \in Int /\ I[d] \in Nat /\ J[d] \in Nat
      BY <1>1, <1>3, <2>1 DEF Numbers
    <3>2. node[t].m_hwmpSeqnoMetricDatabase[d].seqno <= I[d]
      BY <1>10, <2>3 DEF Genuine
    <3> QED
      BY <1>3, <3>1, <3>2
  <2> QED
    BY <2>2, <2>3 DEF Genuine
<1>11. ASSUME NEW t \in Station
       PROVE  LET m == node'[t]
              IN  /\ m \in Members /\ RoutesLead(t, m) /\ QueueBounded(m) /\ Awaited(m) /\ Timed(m)
                  /\ Genuine(m, J) /\ m.out = {}
  <2>1. CASE t = s
    BY <1>1, <1>5, <1>6, <1>7, <1>8, <2>1
  <2>2. CASE t # s
    <3>1. node'[t] = node[t]
      BY <1>1, <1>5, <2>2
    <3>2. /\ RoutesLead(t, node[t]) /\ QueueBounded(node[t]) /\ Awaited(node[t]) /\ Timed(node[t])
          /\ Genuine(node[t], I) /\ node[t].out = {} /\ node[t] \in Members
      BY <1>1 DEF HwmpInv, I
    <3>3. Genuine(node[t], J)
      BY <1>10, <3>2
    <3> QED
      BY <3>1, <3>2, <3>3
  <2> QED
    BY <2>1, <2>2
<1>12. net' \subseteq Frame /\ \A f \in net' : GenuineFrame(f, J)
  <2>1. others \subseteq Frame /\ \A f \in others : GenuineFrame(f, I)
    BY DEF HwmpInv, I
  <2>2. \A f \in others : GenuineFrame(f, J)
    BY <1>1, <1>3, <2>1, GenuineGrows
  <2>3. n.out \subseteq Frame /\ \A f \in n.out : GenuineFrame(f, J)
    BY <1>2, MemberTypes DEF Fits, Genuine, J, I
  <2> QED
    BY <1>4, <2>1, <2>2, <2>3
<1>13. node' \in [Station -> Members]
  BY <1>1, <1>5, <1>6
<1>14. m_doFlag' = m_doFlag /\ (flags \in Flags)'
  BY <1>5 DEF HwmpInv, flags
<1>15. ASSUME NEW t \in Station
       PROVE  /\ (RoutesLead(t, node[t]) /\ QueueBounded(node[t]) /\ Awaited(node[t]) /\ Timed(node[t]))'
              /\ Genuine(node[t], Issued)' /\ node'[t].out = {}
  BY <1>9, <1>11, <1>14 DEF Genuine, GenuinePreq, GenuineFrame, RoutesLead, QueueBounded, Awaited, Timed, Valid
<1>16. ASSUME NEW f \in net' PROVE GenuineFrame(f, Issued)'
  BY <1>9, <1>12, <1>14 DEF GenuinePreq, GenuineFrame
<1> QED
  BY <1>12, <1>13, <1>14, <1>15, <1>16 DEF HwmpInv

LEMMA HandledInv ==
  ASSUME HwmpInv, NEW s \in Station, NEW n, Sound(s, n, Issued), NEW others \in SUBSET net,
         Handled(s, n, others), packets' \in 0 .. MaxPackets, faults' \in 0 .. MaxFaults
  PROVE  HwmpInv'
BY StationInv DEF Handled

LEMMA HwmpInit == Init => HwmpInv
<1> SUFFICES ASSUME Init PROVE HwmpInv
  OBVIOUS
<1> DEFINE n == [m_routes |-> [d \in Station |-> NoRoute],
                 m_hwmpSeqnoMetricDatabase |-> [d \in Station |-> [seqno |-> -1, metric |-> 0]],
                 m_hwmpSeqno |-> 1,
                 m_rqueue |-> {},
                 m_preqTimeouts |-> [d \in Station |-> 0],
                 m_myPreq |-> << >>, m_preqTimer |-> FALSE,
                 m_myPerr |-> NoPerr, m_perrTimer |-> FALSE,
                 out |-> {}]
<1>1. NoRoute \in Route /\ ~NoRoute.valid /\ NoRoute.retransmitter = None /\ NoRoute.precursors = {}
  BY DEF NoRoute, Route
<1>2. << >> \in Seq(Preq) /\ 0 \in 0 .. MaxRetries + 1
  BY HwmpAssumption
<1>3. n \in Members
  BY <1>1, <1>2, NoPerrType DEF Members
<1>4. /\ n.m_routes = [d \in Station |-> NoRoute] /\ n.m_myPerr = NoPerr /\ n.m_rqueue = {}
      /\ n.m_myPreq = << >> /\ n.out = {} /\ n.m_hwmpSeqno = 1
      /\ n.m_hwmpSeqnoMetricDatabase = [d \in Station |-> [seqno |-> -1, metric |-> 0]]
  OBVIOUS
<1>5. node = [s \in Station |-> n]
  BY DEF Init
<1> HIDE DEF n
<1>6. ASSUME NEW s \in Station
      PROVE  RoutesLead(s, n) /\ QueueBounded(n) /\ Awaited(n) /\ Timed(n)
  <2>1. IsFiniteSet({}) /\ Cardinality({}) = 0 /\ 0 <= MaxQueueSize + 1
    BY FS_EmptySet, HwmpAssumption
  <2> QED
    BY <1>1, <1>4, <2>1, NoPerrType DEF RoutesLead, QueueBounded, Awaited, Timed
<1>7. Issued = [s \in Station |-> 1]
  BY <1>4, <1>5 DEF Issued
<1>8. Genuine(n, Issued)
  BY <1>4, <1>7 DEF Genuine
<1>9. flags \in Flags /\ packets \in 0 .. MaxPackets /\ faults \in 0 .. MaxFaults /\ net = {}
  <2>1. PICK f \in Flags : m_doFlag = f[1] /\ m_rfFlag = f[2]
    BY DEF Init
  <2>2. flags = f
    BY <2>1, HwmpAssumption DEF flags
  <2>3. packets = 0 /\ faults = 0 /\ net = {}
    BY DEF Init
  <2> QED
    BY <2>1, <2>2, <2>3, HwmpAssumption
<1> QED
  BY <1>3, <1>4, <1>5, <1>6, <1>8, <1>9 DEF HwmpInv

\* Who sent a frame is a neighbour of who receives it.
LEMMA FrameFacts ==
  ASSUME HwmpInv, NEW f \in net
  PROVE  /\ f \in Frame /\ GenuineFrame(f, Issued) /\ f.to \in Station /\ f.from \in Neighbours(f.to)
         /\ f.kind \in {"PREQ", "PREP", "PERR", "DATA"}
<1>1. f \in Frame /\ GenuineFrame(f, Issued)
  BY DEF HwmpInv
<1>2. f.from \in Station /\ f.to \in Station /\ f.kind \in {"PREQ", "PREP", "PERR", "DATA"}
  BY <1>1 DEF Frame
<1>3. <<f.from, f.to>> \in DOMAIN Metric
  BY <1>1 DEF GenuineFrame
<1>4. <<f.to, f.from>> \in DOMAIN Metric
  BY <1>3, HwmpAssumption
<1> QED
  BY <1>1, <1>2, <1>4 DEF Neighbours

\* A timer runs out, and what waits for it is sent.
LEMMA TimersInv ==
  ASSUME HwmpInv, NEW s \in Station, PreqTimeout(s) \/ PerrTimeout(s)
  PROVE  HwmpInv'
<1> DEFINE I == Issued
           n == node[s]
           a == [n EXCEPT !.m_preqTimer = FALSE]
           b == [n EXCEPT !.m_perrTimer = FALSE]
<1>1. I \in Numbers /\ Sound(s, n, I) /\ Fits(s, n, I) /\ n \in Members
  BY StationsSound DEF Sound, Fits
<1>2. /\ \A i \in DOMAIN n.m_myPreq : GenuinePreq(n.m_myPreq[i], Now(s, n, I))
      /\ n.m_myPerr.receivers \subseteq Neighbours(s)
  BY <1>1 DEF Fits, Genuine, RoutesLead
<1>3. packets \in 0 .. MaxPackets /\ faults \in 0 .. MaxFaults
  BY DEF HwmpInv
<1>4. ASSUME PreqTimeout(s) PROVE HwmpInv'
  <2>1. Handled(s, SendMyPreq(s, a), net) /\ UNCHANGED <<packets, faults>>
    BY <1>4 DEF PreqTimeout
  <2>2. a \in Members /\ SameRoutes(n, a) /\ a.out = n.out /\ a.m_myPreq = n.m_myPreq /\ a.m_myPerr = n.m_myPerr
    BY <1>1 DEF Members, SameRoutes
  <2> HIDE DEF a, n, I
  <2>3. Fits(s, a, I) /\ Awaited(a)
    BY <1>1, <1>2, <2>2, AlikeFits, SameAwaited DEF Sound
  <2>4. Fits(s, SendMyPreq(s, a), I) /\ SameRoutes(a, SendMyPreq(s, a)) /\ Timed(SendMyPreq(s, a))
    BY <1>1, <2>3, SendMyPreqSound
  <2>5. Sound(s, SendMyPreq(s, a), I)
    BY <2>3, <2>4, SameAwaited DEF Sound
  <2> QED
    BY <1>3, <2>1, <2>5, HandledInv DEF I
<1>5. ASSUME PerrTimeout(s) PROVE HwmpInv'
  <2>1. Handled(s, SendMyPerr(s, b), net) /\ UNCHANGED <<packets, faults>>
    BY <1>5 DEF PerrTimeout
  <2>2. /\ b \in Members /\ SameRoutes(n, b) /\ b.out = n.out /\ b.m_myPreq = n.m_myPreq
        /\ b.m_myPerr = n.m_myPerr /\ b.m_preqTimer = n.m_preqTimer
    BY <1>1 DEF Members, SameRoutes
  <2> HIDE DEF b, n, I
  <2>3. Fits(s, b, I) /\ Sound(s, b, I)
    BY <1>1, <1>2, <2>2, AlikeFits, SoundKept
  <2>4. Sound(s, SendMyPerr(s, b), I)
    BY <1>1, <2>3, SendMyPerrFits, SoundKept
  <2> QED
    BY <1>3, <2>1, <2>4, HandledInv DEF I
<1> QED
  BY <1>4, <1>5

\* The lifetime of a route ends.
LEMMA ExpireInv ==
  ASSUME HwmpInv, NEW s \in Station, NEW d \in Station, Expire(s, d)
  PROVE  HwmpInv'
<1> DEFINE I == Issued
           n == node[s]
           r == [n.m_routes[d] EXCEPT !.valid = FALSE]
           R == [n.m_routes EXCEPT ![d] = r]
           m == [n EXCEPT !.m_routes = R]
<1>1. /\ I \in Numbers /\ Sound(s, n, I) /\ Fits(s, n, I) /\ n \in Members /\ n.out = {}
      /\ node \in [Station -> Members]
  BY StationsSound DEF Sound, Fits, HwmpInv
<1>2. n.m_routes \in [Station -> RoutesOf(s)] /\ n.m_routes[d] \in RoutesOf(s)
  BY <1>1, RoutesType DEF Fits
<1>3. r \in RoutesOf(s) /\ ~r.valid
  BY <1>2 DEF RoutesOf, Route
<1>4. node' = [node EXCEPT ![s] = m] /\ UNCHANGED <<net, packets, flags>> /\ faults' \in 0 .. MaxFaults
  <2>1. node' = [node EXCEPT ![s].m_routes[d].valid = FALSE] /\ UNCHANGED <<net, packets, flags>>
    BY DEF Expire
  <2>2. faults' \in 0 .. MaxFaults
    BY HwmpAssumption DEF Expire, Fault, HwmpInv
  <2>3. [node EXCEPT ![s].m_routes[d].valid = FALSE] = [node EXCEPT ![s] = m]
    BY <1>1, <1>2
  <2> QED
    BY <2>1, <2>2, <2>3
<1> HIDE DEF r
<1>5. R \in [Station -> RoutesOf(s)] /\ \A e \in Station : R[e].valid => n.m_routes[e].valid
  BY <1>2, <1>3
<1>6. Fits(s, m, I) /\ SameElse(n, m) /\ m.m_routes = R
  <2> HIDE DEF R, n, I
  <2> QED
    BY <1>1, <1>5, Rerouted
<1>7. m = [m EXCEPT !.out = {}]
  BY <1>1, <1>6 DEF SameElse, Fits, Members
<1> HIDE DEF m, R
<1>8. Sound(s, m, I)
  BY <1>1, <1>5, <1>6, SameWaysAwaited
<1>9. \E arriving \in SUBSET m.out : net' = net \cup arriving
  <2>1. {} \in SUBSET m.out /\ net' = net \cup {}
    BY <1>4
  <2> QED
    BY <2>1
<1>10. packets' \in 0 .. MaxPackets /\ node' = [node EXCEPT ![s] = [m EXCEPT !.out = {}]]
  BY <1>4, <1>7 DEF HwmpInv
<1> QED
  BY <1>4, <1>8, <1>9, <1>10, StationInv

\* A frame is received.
LEMMA ReceiveInv ==
  ASSUME HwmpInv, NEW f \in net, ReceiveAction(f) \/ ReceiveData(f)
  PROVE  HwmpInv'
<1> DEFINE I == Issued
           s == f.to
           n == node[s]
<1>1. /\ f \in Frame /\ GenuineFrame(f, I) /\ s \in Station /\ f.from \in Neighbours(s)
      /\ f.kind \in {"PREQ", "PREP", "PERR", "DATA"}
  BY FrameFacts
<1>2. I \in Numbers /\ Sound(s, n, I)
  BY <1>1, StationsSound
<1>3. packets \in 0 .. MaxPackets /\ faults \in 0 .. MaxFaults /\ net \ {f} \in SUBSET net
  BY DEF HwmpInv
<1>4. SUFFICES \E m : Sound(s, m, I) /\ Handled(s, m, net \ {f}) /\ UNCHANGED <<packets, faults>>
  BY <1>1, <1>3, HandledInv
<1>5. CASE f.kind = "PREQ"
  <2>1. PICK ending : Handled(s, ReceivePreqs(s, n, f.from, f.preqs, ending), net \ {f})
                      /\ UNCHANGED <<packets, faults>>
    BY <1>5 DEF ReceiveAction, ReceiveData
  <2>2. f.preqs \in Seq(Preq) /\ \A i \in DOMAIN f.preqs : GenuinePreq(f.preqs[i], I)
    BY <1>1, <1>5 DEF Frame, GenuineFrame
  <2> HIDE DEF s, n, I
  <2>3. Sound(s, ReceivePreqs(s, n, f.from, f.preqs, ending), I)
    BY <1>1, <1>2, <2>2, ReceivePreqsSound
  <2> QED
    BY <2>1, <2>3
<1>6. CASE f.kind = "PREP"
  <2>1. Handled(s, ReceivePrep(s, n, f.from, f), net \ {f}) /\ UNCHANGED <<packets, faults>>
    BY <1>6 DEF ReceiveAction, ReceiveData
  <2> HIDE DEF s, n, I
  <2>2. Sound(s, ReceivePrep(s, n, f.from, f), I)
    BY <1>1, <1>2, <1>6, ReceivePrepSound
  <2> QED
    BY <2>1, <2>2
<1>7. CASE f.kind = "PERR"
  <2>1. Handled(s, ReceivePerr(s, n, f.from, f.destinations), net \ {f}) /\ UNCHANGED <<packets, faults>>
    BY <1>7 DEF ReceiveAction, ReceiveData
  <2>2. f.destinations \in SUBSET FailedDestination
    BY <1>1, <1>7 DEF Frame
  <2> HIDE DEF s, n, I
  <2>3. Sound(s, ReceivePerr(s, n, f.from, f.destinations), I)
    BY <1>1, <1>2, <2>2, ReceivePerrSound
  <2> QED
    BY <2>1, <2>3
<1>8. CASE f.kind = "DATA"
  <2> DEFINE m == IF f.packet.dst = f.to \/ f.ttl = 1 THEN n ELSE Forward(s, n, f.packet, f.ttl - 1)
  <2>1. Handled(s, m, net \ {f}) /\ UNCHANGED <<packets, faults>>
    BY <1>8 DEF ReceiveAction, ReceiveData
  <2>2. f.packet \in Packet /\ f.ttl \in Int /\ f.ttl - 1 \in Int
    BY <1>1, <1>8 DEF Frame
  <2> HIDE DEF s, n, I
  <2>3. Sound(s, m, I)
    BY <1>1, <1>2, <2>2, ForwardSound
  <2> QED
    BY <2>1, <2>3
<1> QED
  BY <1>1, <1>5, <1>6, <1>7, <1>8

LEMMA HwmpStep == HwmpInv /\ [Next]_vars => HwmpInv'
<1> SUFFICES ASSUME HwmpInv, [Next]_vars PROVE HwmpInv'
  OBVIOUS
<1> DEFINE I == Issued
<1>1. /\ I \in Numbers /\ \A s \in Station : Sound(s, node[s], I)
      /\ packets \in 0 .. MaxPackets /\ faults \in 0 .. MaxFaults /\ net \in SUBSET net /\ flags \in Flags
  BY StationsSound DEF HwmpInv
<1>2. CASE RequestRoute
  <2>1. PICK f \in Flow : Handled(f[1], Request(f[1], node[f[1]], [id |-> packets', dst |-> f[2]]), net)
    BY <1>2 DEF RequestRoute
  <2>2. f[1] \in Station /\ f[2] \in Station
    BY HwmpAssumption
  <2>3. packets' \in 0 .. MaxPackets /\ faults' \in 0 .. MaxFaults /\ packets' \in Nat
    BY <1>1, <1>2, HwmpAssumption DEF RequestRoute
  <2> DEFINE p == [id |-> packets', dst |-> f[2]]
  <2>4. p \in Packet
    BY <2>2, <2>3 DEF Packet
  <2> HIDE DEF p, I
  <2>5. Sound(f[1], Request(f[1], node[f[1]], p), I)
    BY <1>1, <2>2, <2>4, RequestSound
  <2> QED
    BY <1>1, <2>1, <2>2, <2>3, <2>5, HandledInv DEF p, I
<1>3. ASSUME NEW f \in net, ReceiveAction(f) \/ ReceiveData(f) PROVE HwmpInv'
  BY <1>3, ReceiveInv
<1>4. ASSUME NEW s \in Station, NEW d \in Station, RetryPathDiscovery(s, d) PROVE HwmpInv'
  <2>1. /\ node[s].m_preqTimeouts[d] # 0 /\ Handled(s, Retry(s, node[s], d), net)
        /\ packets' \in 0 .. MaxPackets /\ faults' \in 0 .. MaxFaults
    BY <1>1, <1>4 DEF RetryPathDiscovery
  <2> HIDE DEF I
  <2>2. Sound(s, Retry(s, node[s], d), I)
    BY <1>1, <2>1, RetrySound
  <2> QED
    BY <1>1, <2>1, <2>2, HandledInv DEF I
<1>5. ASSUME NEW s \in Station, NEW d \in Station, Expire(s, d) PROVE HwmpInv'
  BY <1>5, ExpireInv
<1>6. ASSUME NEW s \in Station, PreqTimeout(s) \/ PerrTimeout(s) PROVE HwmpInv'
  BY <1>6, TimersInv
<1>7. ASSUME NEW s \in Station, NEW t \in Neighbours(s), LinkClosed(s, t) PROVE HwmpInv'
  <2>1. Handled(s, InitiatePathError(s, node[s], t), net) /\ packets' \in 0 .. MaxPackets /\ faults' \in 0 .. MaxFaults
    BY <1>1, <1>7, HwmpAssumption DEF LinkClosed, Fault
  <2> HIDE DEF I
  <2>2. Sound(s, InitiatePathError(s, node[s], t), I)
    BY <1>1, InitiatePathErrorSound
  <2> QED
    BY <1>1, <2>1, <2>2, HandledInv DEF I
<1>8. CASE UNCHANGED vars
  <2>1. node' = node /\ net' = net /\ packets' = packets /\ faults' = faults /\ flags' = flags
    BY <1>8 DEF vars
  <2>2. m_doFlag' = m_doFlag
    BY <2>1 DEF flags
  <2>3. Issued' = Issued
    BY <2>1 DEF Issued
  <2>4. \A q, N : GenuinePreq(q, N)' <=> GenuinePreq(q, N)
    BY <2>2, Zenon DEF GenuinePreq
  <2>5. \A f, N : GenuineFrame(f, N)' <=> GenuineFrame(f, N)
    BY <2>2, <2>4, Zenon DEF GenuineFrame
  <2>6. \A n, N : Genuine(n, N)' <=> Genuine(n, N)
    BY <2>2, <2>4, <2>5, Zenon DEF Genuine
  <2> QED
    BY <2>1, <2>3, <2>5, <2>6, Zenon DEF HwmpInv, RoutesLead, QueueBounded, Awaited, Timed, Valid
<1> QED
  BY <1>2, <1>3, <1>4, <1>5, <1>6, <1>7, <1>8 DEF Next

(* Routes lead to neighbours, no discovery is repeated beyond MaxRetries,  *)
(* the queue of packets that wait never holds more than one packet beyond  *)
(* its size, and no request waits without a timer.                         *)
THEOREM HwmpTypes == Spec => []TypeOK
<1>1. HwmpInv => TypeOK
  <2> SUFFICES ASSUME HwmpInv PROVE TypeOK
    OBVIOUS
  <2>1. \A s \in Station : /\ node[s].m_preqTimeouts \in [Station -> 0 .. MaxRetries + 1]
                            /\ node[s].m_hwmpSeqno \in Nat \ {0}
    BY MemberTypes DEF HwmpInv
  <2> QED
    BY <2>1 DEF HwmpInv, TypeOK, RoutesLead, Timed, GenuineFrame
<1> QED
  BY <1>1, HwmpInit, HwmpStep, PTL DEF Spec

(* No packet is forgotten: while it waits a retry is pending, which will   *)
(* send or drop it, and the route it waits for is not there, for every     *)
(* mesh and however requests, answers, errors and faults follow.           *)
THEOREM WaitingIsPending == Spec => []QueuedIsPending
<1>1. HwmpInv => QueuedIsPending
  BY DEF HwmpInv, QueuedIsPending, Awaited
<1> QED
  BY <1>1, HwmpInit, HwmpStep, PTL DEF Spec

(* With the destination-only flag, stations believe in no number that its  *)
(* owner has not issued: requests carry the flag wherever they go, nobody  *)
(* answers for another, and the owner's own number only grows.             *)
THEOREM NumbersIssued == Spec => []NumbersAreGenuine
<1>1. HwmpInv => NumbersAreGenuine
  BY DEF HwmpInv, NumbersAreGenuine, Genuine, Issued
<1> QED
  BY <1>1, HwmpInit, HwmpStep, PTL DEF Spec

-------------------------------------------------------------------------------
(* Meshes without cycles: every frame and every route goes the only way.   *)

\* Station s at work with members n, where K has what each station has noted.
Straight(dist, s, n, K) ==
  /\ StraightRoutes(dist, s, n)
  /\ \A i \in DOMAIN n.m_myPreq : n.m_myPreq[i].originator = s /\ n.m_myPreq[i].metric = 0
  /\ \A t \in Neighbours(s) : \A d \in Station :
       /\ Nearer(dist, s, t, d) /\ d # t => n.m_hwmpSeqnoMetricDatabase[d].seqno <= K[t][d]
       /\ Nearer(dist, t, s, d) /\ d # s => K[t][d] <= n.m_hwmpSeqnoMetricDatabase[d].seqno
  /\ \A d \in Station : K[s][d] <= n.m_hwmpSeqnoMetricDatabase[d].seqno
  /\ \A f \in n.out : /\ f.kind \in {"PREQ", "PREP"} => f.from = s
                      /\ StraightFrame(dist, f, n.m_hwmpSeqnoMetricDatabase)

LEMMA WayFacts ==
  ASSUME NEW dist, Distances(dist), NEW s \in Station, NEW t \in Neighbours(s), NEW d \in Station
  PROVE  /\ t \in Station /\ s \in Neighbours(t)
         /\ dist[s][d] \in Nat /\ dist[t][d] \in Nat
         /\ Metric[<<s, t>>] \in Nat \ {0} /\ Metric[<<t, s>>] \in Nat \ {0}
         /\ Nearer(dist, s, t, d) \/ Nearer(dist, t, s, d)
         /\ ~(Nearer(dist, s, t, d) /\ Nearer(dist, t, s, d))
         /\ Nearer(dist, s, t, d) => s # d
         /\ Nearer(dist, s, t, t)
         /\ \A u \in Neighbours(s) : Nearer(dist, s, t, d) /\ Nearer(dist, s, u, d) => t = u
<1>1. t \in Station /\ s \in Neighbours(t) /\ <<s, t>> \in DOMAIN Metric /\ <<t, s>> \in DOMAIN Metric
  BY NeighbourFacts DEF Neighbours
<1>2. Metric[<<s, t>>] \in Nat \ {0} /\ Metric[<<t, s>>] \in Nat \ {0}
  BY <1>1, HwmpAssumption
<1>3. /\ \A e \in Station : dist[s][e] \in Nat /\ dist[t][e] \in Nat
      /\ dist[s][s] = 0 /\ dist[t][t] = 0
  BY <1>1 DEF Distances
<1>4. /\ \A e \in Station : Nearer(dist, s, t, e) \/ Nearer(dist, t, s, e)
      /\ \A u \in Neighbours(s) : Nearer(dist, s, t, d) /\ Nearer(dist, s, u, d) => t = u
  BY <1>1 DEF Distances
<1>5. ASSUME NEW e \in Station PROVE ~(Nearer(dist, s, t, e) /\ Nearer(dist, t, s, e))
  <2>1. dist[s][e] \in Nat /\ dist[t][e] \in Nat
    BY <1>3
  <2> QED
    BY <1>2, <2>1 DEF Nearer
<1>6. Nearer(dist, s, t, d) => s # d
  <2>1. dist[t][d] \in Nat /\ (s = d => dist[s][d] = 0)
    BY <1>3
  <2> QED
    BY <1>2, <2>1 DEF Nearer
<1>7. Nearer(dist, s, t, t)
  <2>1. dist[s][t] \in Nat /\ dist[t][t] = 0
    BY <1>1, <1>3
  <2>2. ~Nearer(dist, t, s, t)
    BY <1>2, <2>1 DEF Nearer
  <2> QED
    BY <1>1, <1>4, <2>2
<1> QED
  BY <1>1, <1>2, <1>3, <1>4, <1>5, <1>6, <1>7

\* Steps that tell nobody of a route, and set up none.
TellsNothing(n, m) ==
  /\ m.m_hwmpSeqnoMetricDatabase = n.m_hwmpSeqnoMetricDatabase /\ m.m_myPreq = n.m_myPreq
  /\ \A d \in Station : m.m_routes[d].retransmitter \in {n.m_routes[d].retransmitter, None}
  /\ \A f \in m.out : f \in n.out \/ f.kind \in {"DATA", "PERR"}

LEMMA QuietStraight ==
  ASSUME NEW dist, NEW s \in Station, NEW n, NEW m, NEW K, Straight(dist, s, n, K), TellsNothing(n, m)
  PROVE  Straight(dist, s, m, K)
<1>1. StraightRoutes(dist, s, m)
  BY DEF Straight, StraightRoutes, TellsNothing
<1>2. ASSUME NEW f \in m.out
      PROVE  /\ f.kind \in {"PREQ", "PREP"} => f.from = s
             /\ StraightFrame(dist, f, m.m_hwmpSeqnoMetricDatabase)
  BY DEF Straight, TellsNothing, StraightFrame
<1> QED
  BY <1>1, <1>2 DEF Straight, TellsNothing

LEMMA QuietTwice ==
  ASSUME NEW n, NEW m, NEW k, TellsNothing(n, m), TellsNothing(m, k)
  PROVE  TellsNothing(n, k)
BY DEF TellsNothing

LEMMA SendToQuiet ==
  ASSUME NEW n \in Members, NEW F, \A f \in F : f.kind \in {"DATA", "PERR"}
  PROVE  TellsNothing(n, SendTo(n, F))
BY DEF TellsNothing, SendTo, Members

LEMMA ForwardPerrQuiet ==
  ASSUME NEW s, NEW n \in Members, NEW perr
  PROVE  TellsNothing(n, ForwardPerr(s, n, perr))
BY SendToQuiet DEF ForwardPerr

LEMMA SendMyPerrQuiet ==
  ASSUME NEW s, NEW n \in Members
  PROVE  TellsNothing(n, SendMyPerr(s, n))
<1> DEFINE k == ForwardPerr(s, n, n.m_myPerr)
           m == [k EXCEPT !.m_perrTimer = TRUE, !.m_myPerr = NoPerr]
<1>1. TellsNothing(n, k)
  BY ForwardPerrQuiet
<1>2. TellsNothing(k, m)
  BY DEF ForwardPerr, SendTo, TellsNothing, Members
<1>3. SendMyPerr(s, n) = IF n.m_perrTimer THEN n ELSE m
  BY DEF SendMyPerr
<1>4. TellsNothing(n, n)
  BY DEF TellsNothing
<1> HIDE DEF k, m
<1>5. TellsNothing(n, m)
  BY <1>1, <1>2, QuietTwice
<1> QED
  BY <1>3, <1>4, <1>5

LEMMA InitiatePathErrorQuiet ==
  ASSUME NEW s \in Station, NEW n, NEW I \in Numbers, Sound(s, n, I), NEW peer
  PROVE  TellsNothing(n, InitiatePathError(s, n, peer))
<1> DEFINE failed == GetUnreachableDestinations(n, peer)
           k == Forget(n, failed)
           perr == MakePathError(n, failed)
           mine == k.m_myPerr.destinations
           new == {d \in perr.destinations : \A e \in mine : e.dst = d.dst => e.seqnum <= d.seqnum}
           both == [destinations |-> mine \cup new,
                    receivers |-> k.m_myPerr.receivers \cup perr.receivers]
           m == [k EXCEPT !.m_myPerr = both]
<1>1. failed \in SUBSET FailedDestination
  <2>1. \A d \in Station : n.m_routes[d].seqnum + 1 \in Nat
    BY MemberTypes DEF Sound, Fits, Route
  <2> QED
    BY <2>1 DEF GetUnreachableDestinations, FailedDestination
<1>2. n \in Members /\ Fits(s, n, I)
  BY DEF Sound, Fits
<1>3. InitiatePathError(s, n, peer) = InitiatePerr(s, k, perr)
  BY DEF InitiatePathError
<1> HIDE DEF failed
<1>4. perr \in Perr
  BY <1>1, <1>2, MakePathErrorType
<1>5. k \in Members
  BY <1>1, ForgetSound DEF Sound, Fits
<1>6. TellsNothing(n, k)
  BY <1>2 DEF Forget, DeleteReactivePaths, NoRoute, TellsNothing, Members
<1> HIDE DEF k, perr
<1>7. InitiatePerr(s, k, perr) = SendMyPerr(s, m)
  BY <1>5 DEF InitiatePerr, Members
<1>8. m \in Members /\ TellsNothing(k, m)
  <2>1. both \in Perr
    BY <1>4, <1>5, MemberTypes DEF Perr
  <2> HIDE DEF both
  <2> QED
    BY <1>5, <2>1 DEF Members, Perr, TellsNothing
<1> HIDE DEF m
<1>9. TellsNothing(m, SendMyPerr(s, m))
  BY <1>8, SendMyPerrQuiet
<1> QED
  BY <1>3, <1>6, <1>7, <1>8, <1>9, QuietTwice

LEMMA ReceivePerrQuiet ==
  ASSUME NEW s \in Station, NEW n, NEW I \in Numbers, Sound(s, n, I), NEW from,
         NEW destinations \in SUBSET FailedDestination
  PROVE  TellsNothing(n, ReceivePerr(s, n, from, destinations))
<1> DEFINE mine == {d \in destinations :
                      n.m_routes[d.dst].retransmitter = from /\ n.m_routes[d.dst].seqnum <= d.seqnum}
           k == Forget(n, mine)
<1>1. mine \in SUBSET FailedDestination /\ n \in Members
  BY DEF Sound, Fits
<1>2. ReceivePerr(s, n, from, destinations) = ForwardPerr(s, k, MakePathError(n, mine))
  BY DEF ReceivePerr
<1> HIDE DEF mine
<1>3. k \in Members
  BY <1>1, ForgetSound DEF Sound, Fits
<1>4. TellsNothing(n, k)
  BY <1>1 DEF Forget, DeleteReactivePaths, NoRoute, TellsNothing, Members
<1> HIDE DEF k
<1> QED
  BY <1>2, <1>3, <1>4, ForwardPerrQuiet, QuietTwice

LEMMA SendDataQuiet ==
  ASSUME NEW s, NEW n \in Members, NEW via, NEW packet, NEW ttl
  PROVE  TellsNothing(n, SendData(s, n, via, packet, ttl))
BY SendToQuiet DEF SendData

LEMMA ForwardQuiet ==
  ASSUME NEW s \in Station, NEW n, NEW I \in Numbers, Sound(s, n, I), NEW packet, NEW ttl
  PROVE  TellsNothing(n, Forward(s, n, packet, ttl))
<1>1. n \in Members /\ TellsNothing(n, n)
  BY DEF Sound, Fits, TellsNothing
<1> QED
  BY <1>1, SendDataQuiet, InitiatePathErrorQuiet DEF Forward

LEMMA ResolvedQuiet ==
  ASSUME NEW s, NEW n \in Members, NEW d
  PROVE  TellsNothing(n, ReactivePathResolved(s, n, d))
BY DEF ReactivePathResolved, SendTo, TellsNothing, Members

\* The station's own discoveries and numbers are counted, its queue changes.
LEMMA CountedQuiet ==
  ASSUME NEW n \in Members, NEW dst, NEW x, NEW packet
  PROVE  /\ TellsNothing(n, [n EXCEPT !.m_preqTimeouts[dst] = x])
         /\ TellsNothing(n, GetNextHwmpSeqno(n))
         /\ TellsNothing(n, GiveUp(n, dst))
         /\ TellsNothing(n, QueuePacket(n, packet))
<1>1. TellsNothing(n, [n EXCEPT !.m_preqTimeouts[dst] = x])
  BY DEF TellsNothing, Members
<1>2. TellsNothing(n, GetNextHwmpSeqno(n))
  BY DEF TellsNothing, Members, GetNextHwmpSeqno
<1>3. TellsNothing(n, GiveUp(n, dst))
  BY DEF TellsNothing, Members, GiveUp
<1>4. TellsNothing(n, QueuePacket(n, packet))
  BY DEF TellsNothing, Members, QueuePacket
<1> QED
  BY <1>1, <1>2, <1>3, <1>4

\* What the stations have noted
Notes == [Station -> [Station -> Int]]

LEMMA AddReactivePathStraight ==
  ASSUME NEW dist, NEW s \in Station, NEW n \in Members, NEW K, Straight(dist, s, n, K),
         NEW d \in Station, NEW via \in Neighbours(s), NEW metric \in Nat, NEW seqnum \in Nat,
         Nearer(dist, s, via, d)
  PROVE  LET m == AddReactivePath(n, d, via, metric, seqnum)
         IN  m \in Members /\ SameElse(n, m) /\ Straight(dist, s, m, K)
<1> DEFINE r == [retransmitter |-> via, metric |-> metric, seqnum |-> seqnum,
                 valid |-> TRUE, precursors |-> n.m_routes[d].precursors]
           R == [n.m_routes EXCEPT ![d] = r]
           m == AddReactivePath(n, d, via, metric, seqnum)
<1>1. n.m_routes \in [Station -> Route] /\ n.m_routes[d].precursors \in SUBSET Station
  BY MemberTypes DEF Route
<1>2. r \in Route /\ r.retransmitter = via
  BY <1>1, NeighbourFacts DEF Route
<1>3. m = [n EXCEPT !.m_routes = R]
  BY DEF AddReactivePath, Members
<1> HIDE DEF r
<1>4. R \in [Station -> Route] /\ R[d] = r /\ \A e \in Station \ {d} : R[e] = n.m_routes[e]
  BY <1>1, <1>2
<1> HIDE DEF R, m
<1>5. m \in Members /\ SameElse(n, m) /\ m.m_routes = R
  BY <1>3, <1>4 DEF Members, SameElse
<1>6. StraightRoutes(dist, s, m)
  BY <1>2, <1>4, <1>5 DEF Straight, StraightRoutes, SameElse
<1>7. Straight(dist, s, m, K)
  BY <1>5, <1>6 DEF Straight, SameElse
<1> QED
  BY <1>5, <1>7 DEF m

LEMMA ResolvedMembers ==
  ASSUME NEW s \in Station, NEW n \in Members, NEW d \in Station, n.m_routes[d].retransmitter # None
  PROVE  /\ ReactivePathResolved(s, n, d) \in Members
         /\ ReactivePathResolved(s, n, d).m_hwmpSeqnoMetricDatabase = n.m_hwmpSeqnoMetricDatabase
<1> DEFINE ready == {p \in n.m_rqueue : p.dst = d}
           F == {[kind |-> "DATA", from |-> s, to |-> n.m_routes[d].retransmitter,
                  packet |-> p, ttl |-> MaxTtl] : p \in ready}
<1>1. n.m_rqueue \in SUBSET Packet /\ n.out \in SUBSET Frame /\ n.m_routes[d].retransmitter \in Station
  BY MemberTypes DEF Route
<1>2. F \in SUBSET Frame
  BY <1>1, HwmpAssumption DEF Frame
<1>3. ReactivePathResolved(s, n, d) = [n EXCEPT !.out = n.out \cup F, !.m_rqueue = n.m_rqueue \ ready]
  BY DEF ReactivePathResolved, SendTo, Members
<1>4. n.out \cup F \in SUBSET Frame /\ n.m_rqueue \ ready \in SUBSET Packet
  BY <1>1, <1>2
<1> HIDE DEF ready, F
<1> QED
  BY <1>3, <1>4 DEF Members

SameNotes(n, m) == m.m_hwmpSeqnoMetricDatabase = n.m_hwmpSeqnoMetricDatabase

LEMMA LearnStraight ==
  ASSUME NEW dist, NEW s \in Station, NEW n \in Members, NEW K, Straight(dist, s, n, K),
         NEW d \in Station, NEW via \in Neighbours(s), NEW metric \in Nat, NEW seqnum \in Nat,
         Nearer(dist, s, via, d)
  PROVE  /\ Learn(s, n, d, via, metric, seqnum) \in Members
         /\ Straight(dist, s, Learn(s, n, d, via, metric, seqnum), K)
         /\ SameNotes(n, Learn(s, n, d, via, metric, seqnum))
<1> DEFINE m == AddReactivePath(n, d, via, metric, seqnum)
<1>1. m \in Members /\ SameElse(n, m) /\ Straight(dist, s, m, K)
  BY AddReactivePathStraight
<1>2. m.m_routes[d].retransmitter # None
  BY MemberTypes, NeighbourFacts DEF AddReactivePath, Members
<1>3. Learn(s, n, d, via, metric, seqnum) = ReactivePathResolved(s, m, d)
  BY DEF Learn
<1> HIDE DEF m
<1> QED
  BY <1>1, <1>2, <1>3, ResolvedMembers, ResolvedQuiet, QuietStraight DEF SameElse, SameNotes

LEMMA LearnNeighbourStraight ==
  ASSUME NEW dist, Distances(dist), NEW s \in Station, NEW n \in Members,
         NEW K, Straight(dist, s, n, K), NEW from \in Neighbours(s), NEW seqnum \in Nat
  PROVE  LET k == LearnNeighbour(s, n, from, seqnum)
         IN  /\ k \in Members /\ Straight(dist, s, k, K)
             /\ k.m_hwmpSeqnoMetricDatabase = n.m_hwmpSeqnoMetricDatabase
<1>1. from \in Station /\ Metric[<<s, from>>] \in Nat
  BY NeighbourFacts
<1>2. Nearer(dist, s, from, from)
  BY <1>1, WayFacts
<1> QED
  BY <1>1, <1>2, LearnStraight DEF LearnNeighbour, SameNotes

\* News that came the right way are noted.
LEMMA NotedStraight ==
  ASSUME NEW dist, Distances(dist), NEW s \in Station, NEW n \in Members, NEW K \in Notes,
         Straight(dist, s, n, K), NEW o \in Station, NEW from \in Neighbours(s), NEW seqno \in Nat,
         Nearer(dist, s, from, o), from = o \/ seqno <= K[from][o],
         n.m_hwmpSeqnoMetricDatabase[o].seqno <= seqno
  PROVE  Straight(dist, s, [n EXCEPT !.m_hwmpSeqnoMetricDatabase[o] = [seqno |-> seqno, metric |-> dist[s][o]]], K)
<1> DEFINE D == n.m_hwmpSeqnoMetricDatabase
           E == [D EXCEPT ![o] = [seqno |-> seqno, metric |-> dist[s][o]]]
           m == [n EXCEPT !.m_hwmpSeqnoMetricDatabase[o] = [seqno |-> seqno, metric |-> dist[s][o]]]
<1>1. D \in [Station -> [seqno : Int, metric : Nat]] /\ n.out \in SUBSET Frame
  BY MemberTypes
<1>2. /\ m.m_hwmpSeqnoMetricDatabase = E /\ m.m_routes = n.m_routes /\ m.m_myPreq = n.m_myPreq /\ m.out = n.out
  BY DEF Members
<1>3. /\ E[o].seqno = seqno /\ E[o].metric = dist[s][o] /\ \A d \in Station \ {o} : E[d] = D[d]
      /\ \A d \in Station : D[d].seqno \in Int /\ E[d].seqno \in Int /\ D[d].seqno <= E[d].seqno
  BY <1>1
<1> HIDE DEF m, E
<1>4. StraightRoutes(dist, s, m)
  BY <1>2, <1>3 DEF Straight, StraightRoutes
<1>5. ASSUME NEW t \in Neighbours(s), NEW d \in Station
      PROVE  /\ Nearer(dist, s, t, d) /\ d # t => E[d].seqno <= K[t][d]
             /\ Nearer(dist, t, s, d) /\ d # s => K[t][d] <= E[d].seqno
  <2>1. t \in Station /\ K[t][d] \in Int
    BY NeighbourFacts DEF Notes
  <2>2. ASSUME Nearer(dist, s, t, d), d # t PROVE E[d].seqno <= K[t][d]
    <3>1. CASE d = o
      <4>1. t = from
        BY <2>2, <3>1, WayFacts
      <4> QED
        BY <1>3, <2>2, <3>1, <4>1
    <3>2. CASE d # o
      BY <1>3, <2>2, <3>2 DEF Straight
    <3> QED
      BY <3>1, <3>2
  <2>3. ASSUME Nearer(dist, t, s, d), d # s PROVE K[t][d] <= E[d].seqno
    <3>1. K[t][d] <= D[d].seqno
      BY <2>3 DEF Straight
    <3> QED
      BY <1>3, <2>1, <3>1
  <2> QED
    BY <2>2, <2>3
<1>6. ASSUME NEW d \in Station PROVE K[s][d] <= E[d].seqno
  <2>1. K[s][d] \in Int /\ K[s][d] <= D[d].seqno
    BY DEF Straight, Notes
  <2> QED
    BY <1>3, <2>1
<1>7. ASSUME NEW f \in n.out PROVE StraightFrame(dist, f, E)
  <2>1. f \in Frame /\ StraightFrame(dist, f, D)
    BY <1>1 DEF Straight
  <2>2. CASE f.kind = "PREQ"
    <3>1. f.preqs \in Seq(Preq)
      BY <2>1, <2>2 DEF Frame
    <3>2. ASSUME NEW i \in DOMAIN f.preqs PROVE f.preqs[i].originator \in Station /\ f.preqs[i].seqno \in Nat
      <4>1. f.preqs[i] \in Preq
        BY <3>1
      <4> QED
        BY <4>1 DEF Preq
    <3> QED
      BY <1>3, <2>1, <2>2, <3>2 DEF StraightFrame, ToldBy
  <2>3. CASE f.kind = "PREP"
    <3>1. f.originator \in Station /\ f.seqno \in Nat
      BY <2>1, <2>3 DEF Frame
    <3> QED
      BY <1>3, <2>1, <2>3, <3>1 DEF StraightFrame, ToldBy
  <2> QED
    BY <2>2, <2>3 DEF StraightFrame
<1>8. Straight(dist, s, m, K)
  BY <1>2, <1>4, <1>5, <1>6, <1>7 DEF Straight
<1> QED
  BY <1>8 DEF m

\* Frames that go the only way
LEMMA SendToStraight ==
  ASSUME NEW dist, NEW s \in Station, NEW n \in Members, NEW K, Straight(dist, s, n, K), NEW F,
         \A f \in F : f.from = s /\ StraightFrame(dist, f, n.m_hwmpSeqnoMetricDatabase)
  PROVE  Straight(dist, s, SendTo(n, F), K)
<1> DEFINE m == SendTo(n, F)
<1>1. /\ m.m_hwmpSeqnoMetricDatabase = n.m_hwmpSeqnoMetricDatabase /\ m.m_routes = n.m_routes
      /\ m.m_myPreq = n.m_myPreq /\ m.out = n.out \cup F
  BY DEF SendTo, Members
<1> HIDE DEF m
<1>2. StraightRoutes(dist, s, m)
  BY <1>1 DEF Straight, StraightRoutes
<1>3. Straight(dist, s, m, K)
  BY <1>1, <1>2 DEF Straight
<1> QED
  BY <1>3 DEF m

LEMMA SendPreqStraight ==
  ASSUME NEW dist, NEW s \in Station, NEW n \in Members, NEW K, Straight(dist, s, n, K), NEW preqs,
         \A i \in DOMAIN preqs :
           ToldBy(dist, n.m_hwmpSeqnoMetricDatabase, s, preqs[i].originator, preqs[i].seqno, preqs[i].metric)
  PROVE  Straight(dist, s, SendPreq(s, n, preqs), K)
<1> DEFINE F == {[kind |-> "PREQ", from |-> s, to |-> t, preqs |-> preqs] : t \in Neighbours(s)}
<1>1. \A f \in F : f.from = s /\ StraightFrame(dist, f, n.m_hwmpSeqnoMetricDatabase)
  BY DEF StraightFrame
<1>2. SendPreq(s, n, preqs) = SendTo(n, F)
  BY DEF SendPreq
<1> HIDE DEF F
<1> QED
  BY <1>1, <1>2, SendToStraight

LEMMA AnswerForMyselfStraight ==
  ASSUME NEW dist, Distances(dist), NEW s \in Station, NEW n \in Members, NEW K, Straight(dist, s, n, K),
         NEW from \in Neighbours(s), NEW q, Nearer(dist, s, from, q.originator)
  PROVE  Straight(dist, s, AnswerForMyself(s, n, from, q), K)
<1> DEFINE m == GetNextHwmpSeqno(n)
           f == Prep(s, from, s, q.originator, 0, m.m_hwmpSeqno)
<1>1. AnswerForMyself(s, n, from, q) = IF \A u \in q.destinations : u.dst # s THEN n ELSE SendTo(m, {f})
  BY DEF AnswerForMyself
<1>2. m \in Members
  <2>1. n.m_hwmpSeqno + 1 \in Nat \ {0}
    BY MemberTypes
  <2> QED
    BY <2>1 DEF GetNextHwmpSeqno, Members
<1>3. Straight(dist, s, m, K)
  BY CountedQuiet, QuietStraight
<1> HIDE DEF m
<1>4. Nearer(dist, from, s, s) /\ dist[s][s] = 0
  <2>1. from \in Station /\ s \in Neighbours(from)
    BY WayFacts
  <2> QED
    BY <2>1, WayFacts DEF Distances
<1>5. f.from = s /\ StraightFrame(dist, f, m.m_hwmpSeqnoMetricDatabase)
  BY <1>4 DEF Prep, StraightFrame, ToldBy
<1> HIDE DEF f
<1>6. Straight(dist, s, SendTo(m, {f}), K)
  BY <1>2, <1>3, <1>5, SendToStraight
<1> QED
  BY <1>1, <1>6

LEMMA AnswerForOthersQuiet ==
  ASSUME NEW ending, NEW s, NEW n \in Members, NEW from, NEW q \in Preq, NEW N, GenuinePreq(q, N), m_doFlag
  PROVE  TellsNothing(n, AnswerForOthers(s, n, from, q, ending))
<1>1. Answered(s, n, q, ending) = {}
  BY AnsweredFacts
<1> QED
  BY <1>1 DEF AnswerForOthers, SendTo, TellsNothing, Members

\* A request that is news has come the right way: what a station farther away
\* could tell, this one has noted already, with a better metric.
LEMMA RightWay ==
  ASSUME NEW dist, Distances(dist), NEW s \in Station, NEW n \in Members, NEW K \in Notes,
         Straight(dist, s, n, K), NEW from \in Neighbours(s), NEW preq \in Preq,
         preq.metric = dist[from][preq.originator],
         from = preq.originator \/ preq.seqno <= K[from][preq.originator],
         preq.originator # s,
         NEW q \in Preq, q.originator = preq.originator, q.seqno = preq.seqno,
         q.metric = preq.metric + Metric[<<s, from>>],
         AcceptPreq(n.m_hwmpSeqnoMetricDatabase[preq.originator], q)
  PROVE  Nearer(dist, s, from, preq.originator) /\ q.metric = dist[s][preq.originator]
<1> DEFINE o == preq.originator
           known == n.m_hwmpSeqnoMetricDatabase[o]
<1>1. /\ o \in Station /\ preq.seqno \in Nat /\ known \in [seqno : Int, metric : Nat]
      /\ from \in Station /\ K[from][o] \in Int /\ preq.metric = dist[from][o]
  <2>1. o \in Station /\ preq.seqno \in Nat
    BY DEF Preq
  <2>2. from \in Station
    BY NeighbourFacts
  <2>3. known \in [seqno : Int, metric : Nat]
    BY <2>1, MemberTypes
  <2>4. K[from][o] \in Int
    BY <2>1, <2>2 DEF Notes
  <2> QED
    BY <2>1, <2>2, <2>3, <2>4
<1>2. /\ dist[s][o] \in Nat /\ dist[from][o] \in Nat /\ Metric[<<s, from>>] \in Nat \ {0}
      /\ Metric[<<from, s>>] \in Nat \ {0}
      /\ Nearer(dist, s, from, o) \/ Nearer(dist, from, s, o)
  BY <1>1, WayFacts
<1>3. ASSUME Nearer(dist, from, s, o) PROVE FALSE
  <2>1. from # o
    BY <1>1, <1>3, WayFacts
  <2>2. K[from][o] <= known.seqno
    BY <1>1, <1>3 DEF Straight
  <2>3. known.seqno >= 0 => known.metric = dist[s][o]
    BY <1>1 DEF Straight, StraightRoutes
  <2>4. known.seqno = preq.seqno /\ known.metric > q.metric
    BY <1>1, <2>1, <2>2 DEF AcceptPreq
  <2>5. dist[from][o] = dist[s][o] + Metric[<<from, s>>]
    BY <1>3 DEF Nearer
  <2> HIDE DEF known, o
  <2> QED
    BY <1>1, <1>2, <2>3, <2>4, <2>5
<1>4. Nearer(dist, s, from, o)
  BY <1>2, <1>3
<1> QED
  BY <1>1, <1>4 DEF Nearer

\* The whole handler of a request
LEMMA ReceivePreqStraight ==
  ASSUME NEW ending, NEW dist, Distances(dist), NEW s \in Station, NEW n, NEW I \in Numbers, Sound(s, n, I),
         NEW K \in Notes, Straight(dist, s, n, K), NEW from \in Neighbours(s),
         NEW preq \in Preq, GenuinePreq(preq, I), m_doFlag,
         preq.metric = dist[from][preq.originator],
         from = preq.originator \/ preq.seqno <= K[from][preq.originator]
  PROVE  Straight(dist, s, ReceivePreq(s, n, from, preq, ending), K)
<1> DEFINE q == [preq EXCEPT !.metric = @ + Metric[<<s, from>>]]
           o == q.originator
           known == n.m_hwmpSeqnoMetricDatabase[q.originator]
           n1 == [n EXCEPT !.m_hwmpSeqnoMetricDatabase[q.originator] = [seqno |-> q.seqno, metric |-> q.metric]]
           n2 == IF known.seqno # q.seqno \/ Improves(n1, q.originator, q.metric)
                 THEN Learn(s, n1, q.originator, from, q.metric, q.seqno) ELSE n1
           n3 == LearnNeighbour(s, n2, from, q.seqno)
           mine == AnswerForMyself(s, n3, from, q)
           n4 == AnswerForOthers(s, mine, from, q, ending)
           left == Remaining(s, n3, q, ending)
           p == [q EXCEPT !.destinations = left]
<1>1. ReceivePreq(s, n, from, preq, ending) =
        IF q.originator = s \/ ~AcceptPreq(known, q) THEN n
        ELSE IF left = {} THEN n4
        ELSE SendPreq(s, n4, <<p>>)
  BY DEF ReceivePreq
<1>2. /\ q \in Preq /\ q.originator = preq.originator /\ q.seqno = preq.seqno
      /\ q.destinations = preq.destinations /\ q.metric = preq.metric + Metric[<<s, from>>]
  <2> DEFINE x == preq.metric + Metric[<<s, from>>]
  <2>1. x \in Nat
    <3> preq.metric \in Nat
      BY DEF Preq
    <3> QED
      BY MetricType, Zenon
  <2>2. q = [preq EXCEPT !.metric = x]
    BY DEF Preq
  <2>3. q \in Preq /\ q.originator = preq.originator /\ q.seqno = preq.seqno
        /\ q.destinations = preq.destinations /\ q.metric = x
    <3> HIDE DEF x, q
    <3> QED
      BY <2>1, <2>2 DEF Preq
  <2> QED
    BY <2>3
<1>3. GenuinePreq(q, I)
  BY <1>2 DEF GenuinePreq
<1> HIDE DEF q
<1>4. /\ q.originator \in Station /\ q.seqno \in Nat /\ q.metric \in Nat
      /\ (m_doFlag => q.seqno <= I[q.originator]) /\ n \in Members
  BY <1>2, <1>3 DEF Preq, GenuinePreq, Sound, Fits
<1> SUFFICES ASSUME q.originator # s, AcceptPreq(known, q)
             PROVE  Straight(dist, s, n4, K) /\ Straight(dist, s, SendPreq(s, n4, <<p>>), K)
  BY <1>1
<1>5. Nearer(dist, s, from, o) /\ q.metric = dist[s][o]
  BY <1>2, <1>4, RightWay
<1>6. Sound(s, n1, I)
  BY <1>4, NotedSound
<1>7. Straight(dist, s, n1, K) /\ n1.m_hwmpSeqnoMetricDatabase[o].seqno = q.seqno
  <2>1. known \in [seqno : Int, metric : Nat] /\ n.m_hwmpSeqnoMetricDatabase \in [Station -> [seqno : Int, metric : Nat]]
    BY <1>4, MemberTypes
  <2>2. known.seqno <= q.seqno
    BY <1>4, <2>1 DEF AcceptPreq
  <2>3. n1 = [n EXCEPT !.m_hwmpSeqnoMetricDatabase[o] = [seqno |-> q.seqno, metric |-> dist[s][o]]]
    BY <1>5
  <2>4. n1.m_hwmpSeqnoMetricDatabase[o].seqno = q.seqno
    BY <1>4, <2>1 DEF Members
  <2> HIDE DEF n1
  <2>5. Straight(dist, s, n1, K)
    BY <1>2, <1>4, <1>5, <2>2, <2>3, NotedStraight
  <2> QED
    BY <2>4, <2>5
<1> HIDE DEF n1
<1>8. n1 \in Members
  BY <1>6 DEF Sound, Fits
<1>9. /\ Sound(s, n2, I) /\ n2 \in Members /\ Straight(dist, s, n2, K)
      /\ n2.m_hwmpSeqnoMetricDatabase = n1.m_hwmpSeqnoMetricDatabase
  <2> DEFINE learnt == Learn(s, n1, q.originator, from, q.metric, q.seqno)
  <2>1. Sound(s, learnt, I)
    BY <1>4, <1>6, LearnSound
  <2>2. learnt \in Members /\ Straight(dist, s, learnt, K) /\ SameNotes(n1, learnt)
    <3>1. q.originator \in Station /\ q.metric \in Nat /\ q.seqno \in Nat /\ Nearer(dist, s, from, q.originator)
      BY <1>4, <1>5
    <3>2. Straight(dist, s, n1, K)
      BY <1>7
    <3> QED
      BY <1>8, <3>1, <3>2, LearnStraight
  <2>3. n2 = learnt \/ n2 = n1
    OBVIOUS
  <2> HIDE DEF learnt, n2
  <2> QED
    BY <1>6, <1>7, <1>8, <2>1, <2>2, <2>3 DEF SameNotes
<1> HIDE DEF n2
<1>10. Sound(s, n3, I) /\ Straight(dist, s, n3, K)
  BY <1>4, <1>9, LearnNeighbourSound, LearnNeighbourStraight
<1>11. n3.m_hwmpSeqnoMetricDatabase = n2.m_hwmpSeqnoMetricDatabase
  BY <1>4, <1>9, LearnNeighbourStraight
<1> HIDE DEF n3
<1>12. Sound(s, mine, I) /\ mine \in Members /\ Straight(dist, s, mine, K)
  BY <1>2, <1>5, <1>10, AnswerForMyselfSound, AnswerForMyselfStraight DEF Sound, Fits
<1>13. mine.m_hwmpSeqnoMetricDatabase = n3.m_hwmpSeqnoMetricDatabase
  BY <1>10 DEF Sound, Fits, AnswerForMyself, GetNextHwmpSeqno, SendTo, Members
<1> HIDE DEF mine
<1>14. n4 \in Members /\ TellsNothing(mine, n4)
  BY <1>2, <1>3, <1>12, AnswerForOthersSound, AnswerForOthersQuiet DEF Sound, Fits
<1> HIDE DEF n4
<1>15. Straight(dist, s, n4, K)
  BY <1>12, <1>14, QuietStraight
<1>16. n4.m_hwmpSeqnoMetricDatabase[o].seqno = q.seqno
  BY <1>7, <1>9, <1>11, <1>13, <1>14 DEF TellsNothing
<1>17. p.originator = o /\ p.seqno = q.seqno /\ p.metric = q.metric
  BY <1>2 DEF Preq
<1> HIDE DEF p
<1>18. \A i \in DOMAIN <<p>> :
         ToldBy(dist, n4.m_hwmpSeqnoMetricDatabase, s, <<p>>[i].originator, <<p>>[i].seqno, <<p>>[i].metric)
  BY <1>4, <1>5, <1>16, <1>17 DEF ToldBy
<1> QED
  BY <1>14, <1>15, <1>18, SendPreqStraight

LEMMA ReceivePreqsStraight ==
  ASSUME NEW ending, NEW dist, Distances(dist), NEW s \in Station, NEW n, NEW I \in Numbers, Sound(s, n, I),
         NEW K \in Notes, Straight(dist, s, n, K), NEW from \in Neighbours(s),
         NEW preqs \in Seq(Preq), \A i \in DOMAIN preqs : GenuinePreq(preqs[i], I), m_doFlag,
         \A i \in DOMAIN preqs :
           /\ preqs[i].metric = dist[from][preqs[i].originator]
           /\ from = preqs[i].originator \/ preqs[i].seqno <= K[from][preqs[i].originator]
  PROVE  Straight(dist, s, ReceivePreqs(s, n, from, preqs, ending), K)
<1> DEFINE S == {m \in Members : Sound(s, m, I) /\ Straight(dist, s, m, K)}
<1>1. n \in S /\ \A i \in DOMAIN preqs : preqs[i] \in Preq
  BY DEF Sound, Fits
<1>2. ASSUME NEW i \in DOMAIN preqs, NEW m \in S
      PROVE  ReceivePreq(s, m, from, preqs[i], ending) \in S
  <2>1. Sound(s, ReceivePreq(s, m, from, preqs[i], ending), I)
    BY <1>1, ReceivePreqSound
  <2>2. Straight(dist, s, ReceivePreq(s, m, from, preqs[i], ending), K)
    BY <1>1, ReceivePreqStraight
  <2> QED
    BY <2>1, <2>2 DEF Sound, Fits
<1> HIDE DEF S
<1>3. ReceivePreqs(s, n, from, preqs, ending) \in S
  BY <1>1, <1>2, ReceivePreqsKeep
<1> QED
  BY <1>3 DEF S

\* Precursors are told of nothing but errors.
LEMMA AddPrecursorQuiet ==
  ASSUME NEW n \in Members, NEW d \in Station, NEW p \in Station
  PROVE  LET m == AddPrecursor(n, d, p)
         IN  /\ m \in Members /\ TellsNothing(n, m)
             /\ \A e \in Station : m.m_routes[e].retransmitter = n.m_routes[e].retransmitter
<1>1. CASE n.m_routes[d].retransmitter = None
  BY <1>1 DEF AddPrecursor, TellsNothing
<1>2. CASE n.m_routes[d].retransmitter # None
  <2> DEFINE r == [n.m_routes[d] EXCEPT !.precursors = @ \cup {p}]
             R == [n.m_routes EXCEPT ![d] = r]
  <2>1. n.m_routes \in [Station -> Route] /\ n.m_routes[d] \in Route
    BY MemberTypes
  <2>2. r \in Route /\ r.retransmitter = n.m_routes[d].retransmitter
    BY <2>1 DEF Route
  <2>3. AddPrecursor(n, d, p) = [n EXCEPT !.m_routes = R]
    BY <1>2 DEF AddPrecursor, Members
  <2> HIDE DEF r
  <2>4. R \in [Station -> Route] /\ \A e \in Station : R[e].retransmitter = n.m_routes[e].retransmitter
    BY <2>1, <2>2
  <2> HIDE DEF R
  <2> QED
    BY <2>3, <2>4 DEF Members, TellsNothing
<1> QED
  BY <1>1, <1>2

\* The whole handler of an answer.  It goes back to where the request came from,
\* and that is farther from the station that answered.
LEMMA ReceivePrepStraight ==
  ASSUME NEW dist, Distances(dist), NEW s \in Station, NEW n, NEW I \in Numbers, Sound(s, n, I),
         NEW K \in Notes, Straight(dist, s, n, K), NEW from \in Neighbours(s),
         NEW prep \in Frame, prep.kind = "PREP", GenuineFrame(prep, I), m_doFlag,
         prep.metric = dist[from][prep.originator],
         from = prep.originator \/ prep.seqno <= K[from][prep.originator],
         Nearer(dist, s, from, prep.originator), Nearer(dist, from, s, prep.dst)
  PROVE  Straight(dist, s, ReceivePrep(s, n, from, prep), K)
<1> DEFINE x == prep.metric + Metric[<<s, from>>]
           p == [prep EXCEPT !.metric = @ + Metric[<<s, from>>]]
           known == n.m_hwmpSeqnoMetricDatabase[p.originator]
           n1 == [n EXCEPT !.m_hwmpSeqnoMetricDatabase[p.originator] = [seqno |-> p.seqno, metric |-> p.metric]]
           back == IF Valid(n, p.dst) THEN n.m_routes[p.dst].retransmitter ELSE None
           new == AddReactivePath(n1, p.originator, from, p.metric, p.seqno)
           added == AddPrecursor(new, p.dst, from)
           twice == IF back = None THEN added ELSE AddPrecursor(added, p.originator, back)
           resolved == ReactivePathResolved(s, twice, p.originator)
           n2 == IF known.seqno # p.seqno \/ Improves(n1, p.originator, p.metric) THEN resolved ELSE n1
           n3 == LearnNeighbour(s, n2, from, p.seqno)
           f == [p EXCEPT !.from = s, !.to = back]
           PrepFrame == [kind : {"PREP"}, from : Station, to : Station, originator : Station,
                         dst : Station, metric : Nat, seqno : Nat]
<1>1. ReceivePrep(s, n, from, prep) =
        IF ~AcceptPrep(known, p) THEN n
        ELSE IF p.dst = s \/ back = None THEN n3
        ELSE SendTo(n3, {f})
  BY DEF ReceivePrep
<1>2. prep \in PrepFrame
  BY DEF Frame
<1>3. /\ p \in PrepFrame /\ p.originator = prep.originator /\ p.dst = prep.dst /\ p.seqno = prep.seqno
      /\ p.metric = prep.metric + Metric[<<s, from>>]
  <2>1. x \in Nat
    <3> prep.metric \in Nat
      BY <1>2
    <3> QED
      BY MetricType, Zenon
  <2>2. p = [prep EXCEPT !.metric = x]
    BY <1>2
  <2>3. p \in PrepFrame /\ p.originator = prep.originator /\ p.dst = prep.dst /\ p.seqno = prep.seqno /\ p.metric = x
    <3> HIDE DEF x, p
    <3> QED
      BY <1>2, <2>1, <2>2
  <2> QED
    BY <2>3
<1> HIDE DEF p
<1>4. /\ p.originator \in Station /\ p.dst \in Station /\ p.seqno \in Nat /\ p.metric \in Nat
      /\ n \in Members /\ from \in Station
  BY <1>3, NeighbourFacts DEF Sound, Fits
<1>5. p.metric = dist[s][p.originator] /\ Nearer(dist, s, from, p.originator) /\ Nearer(dist, from, s, p.dst)
  BY <1>3 DEF Nearer
<1>6. back # None => back \in Neighbours(s) /\ Nearer(dist, s, back, p.dst)
  <2>1. n.m_routes[p.dst] \in RoutesOf(s)
    BY <1>4, RoutesType DEF Sound, Fits
  <2>2. n.m_routes[p.dst].retransmitter # None => Nearer(dist, s, n.m_routes[p.dst].retransmitter, p.dst)
    BY <1>4 DEF Straight, StraightRoutes
  <2> QED
    BY <2>1, <2>2 DEF RoutesOf, Valid
<1> HIDE DEF back
<1> SUFFICES ASSUME AcceptPrep(known, p)
             PROVE  /\ Straight(dist, s, n3, K)
                    /\ back # None => Straight(dist, s, SendTo(n3, {f}), K)
  BY <1>1
<1>7. /\ n1 \in Members /\ Straight(dist, s, n1, K)
      /\ n1.m_hwmpSeqnoMetricDatabase[p.originator].seqno = p.seqno
  <2>1. known \in [seqno : Int, metric : Nat] /\ n.m_hwmpSeqnoMetricDatabase \in [Station -> [seqno : Int, metric : Nat]]
    BY <1>4, MemberTypes
  <2>2. known.seqno <= p.seqno
    BY DEF AcceptPrep
  <2>3. n1 = [n EXCEPT !.m_hwmpSeqnoMetricDatabase[p.originator] = [seqno |-> p.seqno, metric |-> dist[s][p.originator]]]
    BY <1>5
  <2>4. n1 \in Members /\ n1.m_hwmpSeqnoMetricDatabase[p.originator].seqno = p.seqno
    <3> DEFINE D == [n.m_hwmpSeqnoMetricDatabase EXCEPT ![p.originator] = [seqno |-> p.seqno, metric |-> p.metric]]
    <3>1. D \in [Station -> [seqno : Int, metric : Nat]] /\ D[p.originator].seqno = p.seqno
      BY <1>4, <2>1
    <3>2. n1 = [n EXCEPT !.m_hwmpSeqnoMetricDatabase = D]
      BY <1>4 DEF Members
    <3> HIDE DEF D, n1
    <3> QED
      BY <1>4, <3>1, <3>2 DEF Members
  <2> HIDE DEF n1
  <2>5. Straight(dist, s, n1, K)
    BY <1>3, <1>4, <1>5, <2>2, <2>3, NotedStraight
  <2> QED
    BY <2>4, <2>5
<1> HIDE DEF n1
<1>8. /\ new \in Members /\ SameElse(n1, new) /\ Straight(dist, s, new, K)
      /\ new.m_routes[p.originator].retransmitter = from
  <2>1. new.m_routes[p.originator].retransmitter = from
    BY <1>4, <1>7, MemberTypes DEF AddReactivePath, Members
  <2> QED
    BY <1>4, <1>5, <1>7, <2>1, AddReactivePathStraight
<1> HIDE DEF new
<1>9. /\ added \in Members /\ TellsNothing(new, added)
      /\ \A e \in Station : added.m_routes[e].retransmitter = new.m_routes[e].retransmitter
  BY <1>4, <1>8, AddPrecursorQuiet, ZenonT(60)
<1> HIDE DEF added
<1>10. /\ twice \in Members /\ TellsNothing(new, twice)
       /\ twice.m_routes[p.originator].retransmitter = from
  <2>1. CASE back = None
    BY <1>4, <1>8, <1>9, <2>1
  <2>2. CASE back # None
    <3>1. back \in Station
      BY <1>6, <2>2, NeighbourFacts
    <3>2. LET m == AddPrecursor(added, p.originator, back)
          IN  /\ m \in Members /\ TellsNothing(added, m)
              /\ \A e \in Station : m.m_routes[e].retransmitter = added.m_routes[e].retransmitter
      BY <1>4, <1>9, <3>1, AddPrecursorQuiet, ZenonT(60)
    <3> QED
      BY <1>4, <1>8, <1>9, <2>2, <3>2, QuietTwice
  <2> QED
    BY <2>1, <2>2
<1> HIDE DEF twice
<1>11. /\ resolved \in Members /\ Straight(dist, s, resolved, K)
       /\ resolved.m_hwmpSeqnoMetricDatabase = twice.m_hwmpSeqnoMetricDatabase
  <2>1. twice.m_routes[p.originator].retransmitter # None /\ Straight(dist, s, twice, K)
    BY <1>4, <1>8, <1>10, HwmpAssumption, QuietStraight
  <2> QED
    BY <1>4, <1>10, <2>1, ResolvedMembers, ResolvedQuiet, QuietStraight
<1> HIDE DEF resolved
<1>12. /\ n2 \in Members /\ Straight(dist, s, n2, K)
       /\ n2.m_hwmpSeqnoMetricDatabase = n1.m_hwmpSeqnoMetricDatabase
  BY <1>7, <1>8, <1>10, <1>11 DEF SameElse, TellsNothing
<1> HIDE DEF n2
<1>13. /\ n3 \in Members /\ Straight(dist, s, n3, K)
       /\ n3.m_hwmpSeqnoMetricDatabase = n2.m_hwmpSeqnoMetricDatabase
  BY <1>4, <1>12, LearnNeighbourStraight
<1> HIDE DEF n3
<1>14. ASSUME back # None PROVE Straight(dist, s, SendTo(n3, {f}), K)
  <2>1. back \in Neighbours(s) /\ back \in Station /\ Nearer(dist, s, back, p.dst)
    BY <1>6, <1>14, NeighbourFacts
  <2>2. /\ f.kind = "PREP" /\ f.from = s /\ f.to = back /\ f.originator = p.originator /\ f.dst = p.dst
        /\ f.metric = p.metric /\ f.seqno = p.seqno
    BY <1>3
  <2>3. back # from
    <3>1. ~(Nearer(dist, s, from, p.dst) /\ Nearer(dist, from, s, p.dst))
      BY <1>4, WayFacts
    <3> QED
      BY <1>5, <2>1, <3>1
  <2>4. Nearer(dist, back, s, p.originator)
    BY <1>4, <1>5, <2>1, <2>3, WayFacts
  <2>5. ToldBy(dist, n3.m_hwmpSeqnoMetricDatabase, s, p.originator, p.seqno, p.metric)
    BY <1>4, <1>5, <1>7, <1>12, <1>13 DEF ToldBy
  <2> HIDE DEF f
  <2>6. f.from = s /\ StraightFrame(dist, f, n3.m_hwmpSeqnoMetricDatabase)
    BY <2>1, <2>2, <2>4, <2>5 DEF StraightFrame
  <2> QED
    BY <1>13, <2>6, SendToStraight
<1> QED
  BY <1>13, <1>14

\* The station's own requests
LEMMA SendMyPreqStraight ==
  ASSUME NEW dist, Distances(dist), NEW s \in Station, NEW n \in Members, NEW K, Straight(dist, s, n, K)
  PROVE  Straight(dist, s, SendMyPreq(s, n), K)
<1> DEFINE m == SendPreq(s, n, n.m_myPreq)
           k == [m EXCEPT !.m_preqTimer = TRUE, !.m_myPreq = << >>]
<1>1. SendMyPreq(s, n) = IF n.m_preqTimer \/ n.m_myPreq = << >> THEN n ELSE k
  BY DEF SendMyPreq
<1>2. \A i \in DOMAIN n.m_myPreq :
        ToldBy(dist, n.m_hwmpSeqnoMetricDatabase, s, n.m_myPreq[i].originator, n.m_myPreq[i].seqno, n.m_myPreq[i].metric)
  <2>1. dist[s][s] = 0
    BY DEF Distances
  <2> QED
    BY <2>1 DEF Straight, ToldBy
<1>3. Straight(dist, s, m, K)
  BY <1>2, SendPreqStraight
<1>4. /\ k.m_hwmpSeqnoMetricDatabase = m.m_hwmpSeqnoMetricDatabase /\ k.m_routes = m.m_routes
      /\ k.m_myPreq = << >> /\ k.out = m.out
  BY DEF SendPreq, SendTo, Members
<1> HIDE DEF m, k
<1>5. StraightRoutes(dist, s, k)
  BY <1>3, <1>4 DEF Straight, StraightRoutes
<1>6. Straight(dist, s, k, K)
  <2>1. DOMAIN k.m_myPreq = {}
    BY <1>4
  <2> QED
    BY <1>3, <1>4, <1>5, <2>1 DEF Straight
<1> QED
  BY <1>1, <1>6

LEMMA RequestDestinationStraight ==
  ASSUME NEW dist, Distances(dist), NEW s \in Station, NEW n \in Members, NEW K, Straight(dist, s, n, K),
         NEW dst \in Station, NEW seqno \in Nat, flags \in Flags
  PROVE  Straight(dist, s, RequestDestination(s, n, dst, seqno), K)
<1> DEFINE unit == [dst |-> dst, seqnum |-> seqno, do |-> m_doFlag, rf |-> m_rfFlag]
           add(q) == IF \E u \in q.destinations : u.dst = dst THEN q
                     ELSE [q EXCEPT !.destinations = @ \cup {unit}]
           own == [originator |-> s, seqno |-> n.m_hwmpSeqno, metric |-> 0, destinations |-> {unit}]
           waiting == [i \in DOMAIN n.m_myPreq |-> add(n.m_myPreq[i])]
           all == Append(waiting, own)
           m == [n EXCEPT !.m_myPreq = all]
           Mine == {q \in Preq : q.originator = s /\ q.metric = 0}
<1>1. n.m_hwmpSeqno \in Nat /\ n.m_myPreq \in Seq(Mine)
  <2>1. n.m_hwmpSeqno \in Nat /\ n.m_myPreq \in Seq(Preq)
    BY MemberTypes
  <2>2. \A i \in 1 .. Len(n.m_myPreq) : n.m_myPreq[i] \in Mine
    BY <2>1 DEF Straight
  <2> QED
    BY <2>1, <2>2
<1>2. unit \in Unit
  BY HwmpAssumption DEF Unit, flags
<1> HIDE DEF unit
<1>3. own \in Mine
  BY <1>1, <1>2 DEF Preq
<1>4. ASSUME NEW q \in Mine PROVE add(q) \in Mine
  <2>1. LET r == [q EXCEPT !.destinations = @ \cup {unit}]
        IN  r \in Preq /\ r.originator = q.originator /\ r.metric = q.metric
    BY <1>2 DEF Preq
  <2> QED
    BY <2>1
<1>5. RequestDestination(s, n, dst, seqno) = SendMyPreq(s, m)
  BY DEF RequestDestination, unit
<1> HIDE DEF own, add
<1>6. waiting \in Seq(Mine)
  <2> HIDE DEF Mine
  <2> QED
    BY <1>1, <1>4
<1> HIDE DEF waiting
<1>7. all \in Seq(Mine)
  <2> HIDE DEF Mine
  <2> QED
    BY <1>3, <1>6
<1> HIDE DEF all
<1>8. all \in Seq(Preq) /\ \A i \in DOMAIN all : all[i].originator = s /\ all[i].metric = 0
  <2>1. \A i \in 1 .. Len(all) : all[i] \in Mine
    BY <1>7
  <2> QED
    BY <1>7, <2>1
<1>9. /\ m \in Members /\ m.m_hwmpSeqnoMetricDatabase = n.m_hwmpSeqnoMetricDatabase
      /\ m.m_routes = n.m_routes /\ m.m_myPreq = all /\ m.out = n.out
  BY <1>8 DEF Members
<1> HIDE DEF m
<1>10. StraightRoutes(dist, s, m)
  BY <1>9 DEF Straight, StraightRoutes
<1>11. Straight(dist, s, m, K)
  BY <1>8, <1>9, <1>10 DEF Straight
<1> QED
  BY <1>5, <1>9, <1>11, SendMyPreqStraight

\* A discovery begins or is repeated: counted first, under a new number.
LEMMA DiscoverStraight ==
  ASSUME NEW dist, Distances(dist), NEW s \in Station, NEW n \in Members, NEW K, Straight(dist, s, n, K),
         NEW dst \in Station, NEW x \in 0 .. MaxRetries + 1, NEW seqno \in Nat, flags \in Flags
  PROVE  Straight(dist, s, RequestDestination(s, GetNextHwmpSeqno([n EXCEPT !.m_preqTimeouts[dst] = x]), dst, seqno), K)
<1> DEFINE c == [n EXCEPT !.m_preqTimeouts[dst] = x]
           m == GetNextHwmpSeqno(c)
<1>1. c \in Members
  <2>1. n.m_preqTimeouts \in [Station -> 0 .. MaxRetries + 1]
    BY MemberTypes
  <2> DEFINE T == [n.m_preqTimeouts EXCEPT ![dst] = x]
  <2>2. T \in [Station -> 0 .. MaxRetries + 1] /\ c = [n EXCEPT !.m_preqTimeouts = T]
    BY <2>1 DEF Members
  <2> HIDE DEF T, c
  <2> QED
    BY <2>2 DEF Members
<1>2. Straight(dist, s, c, K)
  BY CountedQuiet, QuietStraight
<1> HIDE DEF c
<1>3. m \in Members
  <2>1. c.m_hwmpSeqno + 1 \in Nat \ {0}
    BY <1>1, MemberTypes
  <2> QED
    BY <1>1, <2>1 DEF GetNextHwmpSeqno, Members
<1>4. Straight(dist, s, m, K)
  BY <1>1, <1>2, CountedQuiet, QuietStraight
<1> HIDE DEF m
<1>5. Straight(dist, s, RequestDestination(s, m, dst, seqno), K)
  BY <1>3, <1>4, RequestDestinationStraight
<1> QED
  BY <1>5 DEF m, c

LEMMA RequestStraight ==
  ASSUME NEW dist, Distances(dist), NEW s \in Station, NEW n, NEW I \in Numbers, Sound(s, n, I),
         NEW K, Straight(dist, s, n, K), NEW packet \in Packet, flags \in Flags
  PROVE  Straight(dist, s, Request(s, n, packet), K)
<1> DEFINE dst == packet.dst
           c == [n EXCEPT !.m_preqTimeouts[dst] = 1]
           m == GetNextHwmpSeqno(c)
           k == RequestDestination(s, m, dst, n.m_routes[dst].seqnum)
<1>1. /\ n \in Members /\ Fits(s, n, I) /\ dst \in Station /\ n.m_routes[dst].seqnum \in Nat
      /\ 1 \in 1 .. MaxRetries + 1
  BY MemberTypes, HwmpAssumption DEF Sound, Fits, Packet, Route
<1>2. Request(s, n, packet) =
        IF Valid(n, dst) THEN SendData(s, n, n.m_routes[dst].retransmitter, packet, MaxTtl)
        ELSE QueuePacket(IF ShouldSendPreq(n, dst) THEN k ELSE n, packet)
  BY DEF Request
<1>3. Straight(dist, s, SendData(s, n, n.m_routes[dst].retransmitter, packet, MaxTtl), K)
  BY <1>1, SendDataQuiet, QuietStraight
<1>4. Straight(dist, s, QueuePacket(n, packet), K)
  BY <1>1, CountedQuiet, QuietStraight
<1>5. Straight(dist, s, k, K) /\ k \in Members
  <2> DEFINE x == 1
  <2>1. x \in 0 .. MaxRetries + 1 /\ x \in 1 .. MaxRetries + 1
    BY <1>1, HwmpAssumption
  <2> HIDE DEF x, dst
  <2> DEFINE c1 == [n EXCEPT !.m_preqTimeouts[dst] = x]
             m1 == GetNextHwmpSeqno(c1)
  <2>2. Straight(dist, s, RequestDestination(s, m1, dst, n.m_routes[dst].seqnum), K)
    BY <1>1, <2>1, DiscoverStraight
  <2>3. Sound(s, c1, I)
    BY <1>1, <2>1, CountedSound
  <2> HIDE DEF c1
  <2>4. Sound(s, m1, I) /\ Fits(s, m1, I)
    BY <2>3, GetNextSound DEF Sound
  <2> HIDE DEF m1
  <2>5. RequestDestination(s, m1, dst, n.m_routes[dst].seqnum) \in Members
    BY <1>1, <2>4, RequestDestinationSound DEF Fits
  <2> QED
    BY <2>2, <2>5 DEF x, c1, m1
<1> HIDE DEF k
<1>6. Straight(dist, s, QueuePacket(k, packet), K)
  BY <1>1, <1>5, CountedQuiet, QuietStraight
<1> QED
  BY <1>2, <1>3, <1>4, <1>6

LEMMA RetryStraight ==
  ASSUME NEW dist, Distances(dist), NEW s \in Station, NEW n, NEW I \in Numbers, Sound(s, n, I),
         NEW K, Straight(dist, s, n, K), NEW dst \in Station, n.m_preqTimeouts[dst] # 0, flags \in Flags
  PROVE  Straight(dist, s, Retry(s, n, dst), K)
<1> DEFINE x == n.m_preqTimeouts[dst] + 1
           k == RequestDestination(s, GetNextHwmpSeqno([n EXCEPT !.m_preqTimeouts[dst] = x]), dst, n.m_routes[dst].seqnum)
<1>1. /\ n \in Members /\ n.m_preqTimeouts \in [Station -> 0 .. MaxRetries + 1]
      /\ n.m_routes[dst].seqnum \in Nat
  BY MemberTypes DEF Sound, Fits, Route
<1>2. Retry(s, n, dst) =
        IF Valid(n, dst) THEN [n EXCEPT !.m_preqTimeouts[dst] = 0]
        ELSE IF LastRetry(n, dst) THEN GiveUp(n, dst) ELSE k
  BY <1>1 DEF Retry, Members
<1>3. ~LastRetry(n, dst) => Straight(dist, s, k, K)
  <2>1. ~LastRetry(n, dst) => x \in 0 .. MaxRetries + 1
    BY <1>1, HwmpAssumption DEF LastRetry
  <2> HIDE DEF x
  <2> QED
    BY <1>1, <2>1, DiscoverStraight
<1> HIDE DEF k
<1>4. Straight(dist, s, [n EXCEPT !.m_preqTimeouts[dst] = 0], K) /\ Straight(dist, s, GiveUp(n, dst), K)
  BY <1>1, CountedQuiet, QuietStraight
<1> QED
  BY <1>2, <1>3, <1>4

-------------------------------------------------------------------------------
(* The actions in a mesh without cycles *)

\* The numbers that the stations have noted
Noted == [s \in Station |-> [d \in Station |-> node[s].m_hwmpSeqnoMetricDatabase[d].seqno]]

LEMMA StationsStraight ==
  ASSUME HwmpInv, m_doFlag, NEW dist, Distances(dist), StraightInv(dist)
  PROVE  Noted \in Notes /\ \A s \in Station : Straight(dist, s, node[s], Noted)
<1>1. \A s, d \in Station : node[s] \in Members /\ node[s].m_hwmpSeqnoMetricDatabase[d].seqno \in Int
  BY MemberTypes DEF HwmpInv
<1>2. Noted \in Notes /\ \A s, d \in Station : Noted[s][d] = node[s].m_hwmpSeqnoMetricDatabase[d].seqno
  BY <1>1 DEF Noted, Notes
<1>3. ASSUME NEW s \in Station PROVE Straight(dist, s, node[s], Noted)
  <2>1. /\ StraightRoutes(dist, s, node[s]) /\ node[s].out = {}
        /\ \A i \in DOMAIN node[s].m_myPreq : node[s].m_myPreq[i].originator = s /\ node[s].m_myPreq[i].metric = 0
    BY DEF StraightInv, HwmpInv
  <2>2. ASSUME NEW t \in Neighbours(s), NEW d \in Station
        PROVE  /\ Nearer(dist, s, t, d) /\ d # t => node[s].m_hwmpSeqnoMetricDatabase[d].seqno <= Noted[t][d]
               /\ Nearer(dist, t, s, d) /\ d # s => Noted[t][d] <= node[s].m_hwmpSeqnoMetricDatabase[d].seqno
    <3>1. t \in Station /\ s \in Neighbours(t)
      BY WayFacts
    <3> QED
      BY <1>2, <3>1 DEF StraightInv
  <2>3. ASSUME NEW d \in Station PROVE Noted[s][d] <= node[s].m_hwmpSeqnoMetricDatabase[d].seqno
    BY <1>1, <1>2
  <2> QED
    BY <2>1, <2>2, <2>3 DEF Straight
<1> QED
  BY <1>2, <1>3

\* What a station told of stays true of what it notes later.
LEMMA ToldStays ==
  ASSUME NEW dist, NEW f \in Frame,
         NEW D \in [Station -> [seqno : Int, metric : Nat]], NEW E \in [Station -> [seqno : Int, metric : Nat]],
         \A d \in Station : D[d].seqno <= E[d].seqno, StraightFrame(dist, f, D)
  PROVE  StraightFrame(dist, f, E)
<1>1. \A d \in Station : D[d].seqno \in Int /\ E[d].seqno \in Int
  OBVIOUS
<1>2. CASE f.kind = "PREQ"
  <2>1. f.preqs \in Seq(Preq)
    BY <1>2 DEF Frame
  <2>2. ASSUME NEW i \in DOMAIN f.preqs PROVE f.preqs[i].originator \in Station /\ f.preqs[i].seqno \in Nat
    <3>1. f.preqs[i] \in Preq
      BY <2>1
    <3> QED
      BY <3>1 DEF Preq
  <2>3. ASSUME NEW i \in DOMAIN f.preqs
        PROVE  ToldBy(dist, E, f.from, f.preqs[i].originator, f.preqs[i].seqno, f.preqs[i].metric)
    <3>1. ToldBy(dist, D, f.from, f.preqs[i].originator, f.preqs[i].seqno, f.preqs[i].metric)
      BY <1>2 DEF StraightFrame
    <3> QED
      BY <1>1, <2>2, <3>1 DEF ToldBy
  <2> QED
    BY <1>2, <2>3 DEF StraightFrame
<1>3. CASE f.kind = "PREP"
  <2>1. f.originator \in Station /\ f.seqno \in Nat
    BY <1>3 DEF Frame
  <2> QED
    BY <1>1, <1>3, <2>1 DEF StraightFrame, ToldBy
<1> QED
  BY <1>2, <1>3 DEF StraightFrame

\* A handler that leaves its station straight keeps the invariant.
LEMMA StraightStation ==
  ASSUME HwmpInv, m_doFlag, NEW dist, Distances(dist), StraightInv(dist), NEW s \in Station, NEW n \in Members,
         Straight(dist, s, n, Noted), NEW others \in SUBSET net,
         node' = [node EXCEPT ![s] = [n EXCEPT !.out = {}]],
         \E arriving \in SUBSET n.out : net' = others \cup arriving
  PROVE  StraightInv(dist)'
<1> DEFINE k == [n EXCEPT !.out = {}]
<1>1. /\ k.m_routes = n.m_routes /\ k.m_myPreq = n.m_myPreq
      /\ k.m_hwmpSeqnoMetricDatabase = n.m_hwmpSeqnoMetricDatabase
  BY DEF Members
<1>2. node \in [Station -> Members] /\ node' = [node EXCEPT ![s] = k]
  BY DEF HwmpInv
<1> HIDE DEF k
<1>3. node'[s] = k /\ \A t \in Station \ {s} : node'[t] = node[t]
  BY <1>2
<1>4. /\ n.m_hwmpSeqnoMetricDatabase \in [Station -> [seqno : Int, metric : Nat]]
      /\ \A t \in Station : node[t].m_hwmpSeqnoMetricDatabase \in [Station -> [seqno : Int, metric : Nat]]
      /\ \A t, d \in Station : Noted[t][d] = node[t].m_hwmpSeqnoMetricDatabase[d].seqno
  BY <1>2, MemberTypes DEF Noted
<1>5. ASSUME NEW t \in Station
      PROVE  /\ StraightRoutes(dist, t, node'[t])
             /\ \A i \in DOMAIN node'[t].m_myPreq :
                  node'[t].m_myPreq[i].originator = t /\ node'[t].m_myPreq[i].metric = 0
  <2>1. CASE t = s
    <3>1. StraightRoutes(dist, s, k)
      BY <1>1 DEF Straight, StraightRoutes
    <3> QED
      BY <1>1, <1>3, <2>1, <3>1 DEF Straight
  <2>2. CASE t # s
    BY <1>3, <2>2 DEF StraightInv
  <2> QED
    BY <2>1, <2>2
<1>6. ASSUME NEW u \in Station, NEW t \in Neighbours(u), NEW d \in Station \ {t}, Nearer(dist, u, t, d)
      PROVE  node'[u].m_hwmpSeqnoMetricDatabase[d].seqno <= node'[t].m_hwmpSeqnoMetricDatabase[d].seqno
  <2>1. t \in Station /\ u \in Neighbours(t) /\ ~Nearer(dist, t, u, d)
    BY <1>6, WayFacts
  <2>2. t # u
    BY <1>6, <2>1
  <2>3. CASE u = s
    <3>1. n.m_hwmpSeqnoMetricDatabase[d].seqno <= Noted[t][d]
      BY <1>6, <2>3 DEF Straight
    <3>2. node'[t] = node[t] /\ node'[u] = k
      BY <1>3, <2>1, <2>2, <2>3
    <3> QED
      BY <1>1, <1>4, <2>1, <3>1, <3>2
  <2>4. CASE t = s
    <3>1. Noted[u][d] <= n.m_hwmpSeqnoMetricDatabase[d].seqno
      BY <1>6, <2>1, <2>4 DEF Straight
    <3>2. node'[u] = node[u] /\ node'[t] = k
      BY <1>3, <2>1, <2>2, <2>4
    <3> QED
      BY <1>1, <1>4, <2>1, <3>1, <3>2
  <2>5. CASE u # s /\ t # s
    <3>1. node'[u] = node[u] /\ node'[t] = node[t]
      BY <1>3, <2>1, <2>5
    <3> QED
      BY <1>6, <3>1 DEF StraightInv
  <2> QED
    BY <2>3, <2>4, <2>5
<1>7. ASSUME NEW f \in net' PROVE StraightFrame(dist, f, node'[f.from].m_hwmpSeqnoMetricDatabase)
  <2>1. CASE f \in net
    <3>1. f \in Frame /\ f.from \in Station /\ StraightFrame(dist, f, node[f.from].m_hwmpSeqnoMetricDatabase)
      BY <2>1, FrameFacts, NeighbourFacts DEF StraightInv
    <3>2. CASE f.from = s
      <4>1. \A d \in Station : node[s].m_hwmpSeqnoMetricDatabase[d].seqno <= n.m_hwmpSeqnoMetricDatabase[d].seqno
        BY <1>4 DEF Straight
      <4>2. StraightFrame(dist, f, n.m_hwmpSeqnoMetricDatabase)
        BY <1>4, <3>1, <3>2, <4>1, ToldStays
      <4> QED
        BY <1>1, <1>3, <3>2, <4>2
    <3>3. CASE f.from # s
      BY <1>3, <3>1, <3>3
    <3> QED
      BY <3>2, <3>3
  <2>2. CASE f \in n.out
    <3>1. /\ f.kind \in {"PREQ", "PREP"} => f.from = s
          /\ StraightFrame(dist, f, n.m_hwmpSeqnoMetricDatabase)
      BY <2>2 DEF Straight
    <3>2. CASE f.kind \in {"PREQ", "PREP"}
      BY <1>1, <1>3, <3>1, <3>2
    <3>3. CASE f.kind \notin {"PREQ", "PREP"}
      BY <3>3 DEF StraightFrame
    <3> QED
      BY <3>2, <3>3
  <2> QED
    BY <1>7, <2>1, <2>2
<1> QED
  BY <1>5, <1>6, <1>7 DEF StraightInv

LEMMA StraightHandled ==
  ASSUME HwmpInv, m_doFlag, NEW dist, Distances(dist), StraightInv(dist), NEW s \in Station, NEW n,
         Sound(s, n, Issued), Straight(dist, s, n, Noted), NEW others \in SUBSET net, Handled(s, n, others)
  PROVE  StraightInv(dist)'
<1>1. n \in Members
  BY DEF Sound, Fits
<1> QED
  BY <1>1, StraightStation DEF Handled

LEMMA StraightInit ==
  ASSUME Init, NEW dist, Distances(dist)
  PROVE  StraightInv(dist)
<1>1. \A s \in Station :
        /\ node[s].m_routes = [d \in Station |-> NoRoute] /\ node[s].m_myPreq = << >>
        /\ node[s].m_hwmpSeqnoMetricDatabase = [d \in Station |-> [seqno |-> -1, metric |-> 0]]
  BY DEF Init
<1>2. net = {} /\ NoRoute.retransmitter = None
  BY DEF Init, NoRoute
<1>3. \A s \in Station : StraightRoutes(dist, s, node[s])
  BY <1>1, <1>2 DEF StraightRoutes
<1>4. \A s \in Station : \A t \in Neighbours(s) : \A d \in Station :
        node[s].m_hwmpSeqnoMetricDatabase[d].seqno <= node[t].m_hwmpSeqnoMetricDatabase[d].seqno
  BY <1>1 DEF Neighbours
<1> QED
  BY <1>1, <1>2, <1>3, <1>4 DEF StraightInv

LEMMA StraightTimers ==
  ASSUME HwmpInv, m_doFlag, NEW dist, Distances(dist), StraightInv(dist),
         NEW s \in Station, PreqTimeout(s) \/ PerrTimeout(s)
  PROVE  StraightInv(dist)'
<1> DEFINE n == node[s]
           a == [n EXCEPT !.m_preqTimer = FALSE]
           b == [n EXCEPT !.m_perrTimer = FALSE]
<1>1. Issued \in Numbers /\ Fits(s, n, Issued) /\ n \in Members /\ Straight(dist, s, n, Noted)
  BY StationsSound, StationsStraight DEF Sound, Fits
<1>2. /\ \A i \in DOMAIN n.m_myPreq : GenuinePreq(n.m_myPreq[i], Now(s, n, Issued))
      /\ n.m_myPerr.receivers \subseteq Neighbours(s)
  BY <1>1 DEF Fits, Genuine, RoutesLead
<1>3. ASSUME PreqTimeout(s) PROVE StraightInv(dist)'
  <2>1. Handled(s, SendMyPreq(s, a), net)
    BY <1>3 DEF PreqTimeout
  <2>2. /\ a \in Members /\ SameRoutes(n, a) /\ TellsNothing(n, a)
        /\ a.out = n.out /\ a.m_myPreq = n.m_myPreq /\ a.m_myPerr = n.m_myPerr
    BY <1>1 DEF Members, SameRoutes, TellsNothing
  <2> HIDE DEF a, n
  <2>3. Fits(s, a, Issued) /\ Straight(dist, s, a, Noted)
    BY <1>1, <1>2, <2>2, AlikeFits, QuietStraight
  <2>4. SendMyPreq(s, a) \in Members
    BY <1>1, <2>3, SendMyPreqSound DEF Fits
  <2>5. Straight(dist, s, SendMyPreq(s, a), Noted)
    BY <2>2, <2>3, SendMyPreqStraight
  <2> QED
    BY <2>1, <2>4, <2>5, StraightStation DEF Handled
<1>4. ASSUME PerrTimeout(s) PROVE StraightInv(dist)'
  <2>1. Handled(s, SendMyPerr(s, b), net)
    BY <1>4 DEF PerrTimeout
  <2>2. /\ b \in Members /\ SameRoutes(n, b) /\ TellsNothing(n, b)
        /\ b.out = n.out /\ b.m_myPreq = n.m_myPreq /\ b.m_myPerr = n.m_myPerr
    BY <1>1 DEF Members, SameRoutes, TellsNothing
  <2> HIDE DEF b, n
  <2>3. Fits(s, b, Issued) /\ Straight(dist, s, b, Noted)
    BY <1>1, <1>2, <2>2, AlikeFits, QuietStraight
  <2>4. SendMyPerr(s, b) \in Members
    BY <1>1, <2>3, SendMyPerrFits DEF Fits
  <2>5. Straight(dist, s, SendMyPerr(s, b), Noted)
    BY <2>2, <2>3, SendMyPerrQuiet, QuietStraight
  <2> QED
    BY <2>1, <2>4, <2>5, StraightStation DEF Handled
<1> QED
  BY <1>3, <1>4

LEMMA StraightExpire ==
  ASSUME HwmpInv, m_doFlag, NEW dist, Distances(dist), StraightInv(dist),
         NEW s \in Station, NEW d \in Station, Expire(s, d)
  PROVE  StraightInv(dist)'
<1> DEFINE n == node[s]
           r == [n.m_routes[d] EXCEPT !.valid = FALSE]
           R == [n.m_routes EXCEPT ![d] = r]
           m == [n EXCEPT !.m_routes = R]
<1>1. n \in Members /\ n.out = {} /\ node \in [Station -> Members] /\ Straight(dist, s, n, Noted)
  BY StationsStraight DEF HwmpInv
<1>2. n.m_routes \in [Station -> Route] /\ n.m_routes[d] \in Route
  BY <1>1, MemberTypes
<1>3. r \in Route /\ r.retransmitter = n.m_routes[d].retransmitter
  BY <1>2 DEF Route
<1>4. node' = [node EXCEPT ![s] = m] /\ net' = net
  <2>1. node' = [node EXCEPT ![s].m_routes[d].valid = FALSE] /\ net' = net
    BY DEF Expire
  <2>2. [node EXCEPT ![s].m_routes[d].valid = FALSE] = [node EXCEPT ![s] = m]
    BY <1>1, <1>2
  <2> QED
    BY <2>1, <2>2
<1> HIDE DEF r
<1>5. R \in [Station -> Route] /\ \A e \in Station : R[e].retransmitter = n.m_routes[e].retransmitter
  BY <1>2, <1>3
<1> HIDE DEF R
<1>6. m \in Members /\ TellsNothing(n, m) /\ m.out = {}
  BY <1>1, <1>5 DEF Members, TellsNothing
<1>7. m = [m EXCEPT !.out = {}]
  BY <1>1, <1>6 DEF Members
<1> HIDE DEF m
<1>8. Straight(dist, s, m, Noted)
  BY <1>1, <1>6, QuietStraight
<1>9. node' = [node EXCEPT ![s] = [m EXCEPT !.out = {}]] /\ \E arriving \in SUBSET m.out : net' = net \cup arriving
  <2>1. {} \in SUBSET m.out /\ net' = net \cup {}
    BY <1>4
  <2> QED
    BY <1>4, <1>7, <2>1
<1> QED
  BY <1>6, <1>8, <1>9, StraightStation

LEMMA StraightReceive ==
  ASSUME HwmpInv, m_doFlag, NEW dist, Distances(dist), StraightInv(dist),
         NEW f \in net, ReceiveAction(f) \/ ReceiveData(f)
  PROVE  StraightInv(dist)'
<1> DEFINE I == Issued
           K == Noted
           s == f.to
           n == node[s]
<1>1. /\ f \in Frame /\ GenuineFrame(f, I) /\ s \in Station /\ f.from \in Neighbours(s) /\ f.from \in Station
      /\ f.kind \in {"PREQ", "PREP", "PERR", "DATA"}
  BY FrameFacts, NeighbourFacts
<1>2. I \in Numbers /\ Sound(s, n, I) /\ K \in Notes /\ Straight(dist, s, n, K) /\ n \in Members
  BY <1>1, StationsSound, StationsStraight DEF Sound, Fits
<1>3. StraightFrame(dist, f, node[f.from].m_hwmpSeqnoMetricDatabase) /\ net \ {f} \in SUBSET net
  BY DEF StraightInv
<1>4. SUFFICES \E m : Sound(s, m, I) /\ Straight(dist, s, m, K) /\ Handled(s, m, net \ {f})
  BY <1>1, <1>3, StraightHandled
<1>5. CASE f.kind = "PREQ"
  <2>1. PICK ending : Handled(s, ReceivePreqs(s, n, f.from, f.preqs, ending), net \ {f})
    BY <1>5 DEF ReceiveAction, ReceiveData
  <2>2. f.preqs \in Seq(Preq) /\ \A i \in DOMAIN f.preqs : GenuinePreq(f.preqs[i], I)
    BY <1>1, <1>5 DEF Frame, GenuineFrame
  <2>3. ASSUME NEW i \in DOMAIN f.preqs
        PROVE  LET q == f.preqs[i]
               IN  /\ q.metric = dist[f.from][q.originator]
                   /\ f.from = q.originator \/ q.seqno <= K[f.from][q.originator]
    <3>1. f.preqs[i].originator \in Station
      <4>1. f.preqs[i] \in Preq
        BY <2>2
      <4> QED
        BY <4>1 DEF Preq
    <3> QED
      BY <1>1, <1>3, <1>5, <3>1 DEF StraightFrame, ToldBy, Noted
  <2> HIDE DEF s, n, I, K
  <2>4. Sound(s, ReceivePreqs(s, n, f.from, f.preqs, ending), I)
    BY <1>1, <1>2, <2>2, ReceivePreqsSound
  <2>5. Straight(dist, s, ReceivePreqs(s, n, f.from, f.preqs, ending), K)
    BY <1>1, <1>2, <2>2, <2>3, ReceivePreqsStraight
  <2> QED
    BY <2>1, <2>4, <2>5
<1>6. CASE f.kind = "PREP"
  <2>1. Handled(s, ReceivePrep(s, n, f.from, f), net \ {f})
    BY <1>6 DEF ReceiveAction, ReceiveData
  <2>2. /\ f.metric = dist[f.from][f.originator]
        /\ f.from = f.originator \/ f.seqno <= K[f.from][f.originator]
        /\ Nearer(dist, s, f.from, f.originator) /\ Nearer(dist, f.from, s, f.dst)
    <3>1. f.originator \in Station
      BY <1>1, <1>6 DEF Frame
    <3> QED
      BY <1>1, <1>3, <1>6, <3>1 DEF StraightFrame, ToldBy, Noted
  <2> HIDE DEF s, n, I, K
  <2>3. Sound(s, ReceivePrep(s, n, f.from, f), I)
    BY <1>1, <1>2, <1>6, ReceivePrepSound
  <2>4. Straight(dist, s, ReceivePrep(s, n, f.from, f), K)
    BY <1>1, <1>2, <1>6, <2>2, ReceivePrepStraight
  <2> QED
    BY <2>1, <2>3, <2>4
<1>7. CASE f.kind = "PERR"
  <2>1. Handled(s, ReceivePerr(s, n, f.from, f.destinations), net \ {f})
    BY <1>7 DEF ReceiveAction, ReceiveData
  <2>2. f.destinations \in SUBSET FailedDestination
    BY <1>1, <1>7 DEF Frame
  <2> HIDE DEF s, n, I, K
  <2>3. Sound(s, ReceivePerr(s, n, f.from, f.destinations), I)
    BY <1>1, <1>2, <2>2, ReceivePerrSound
  <2>4. Straight(dist, s, ReceivePerr(s, n, f.from, f.destinations), K)
    BY <1>1, <1>2, <2>2, ReceivePerrQuiet, QuietStraight
  <2> QED
    BY <2>1, <2>3, <2>4
<1>8. CASE f.kind = "DATA"
  <2> DEFINE m == IF f.packet.dst = f.to \/ f.ttl = 1 THEN n ELSE Forward(s, n, f.packet, f.ttl - 1)
  <2>1. Handled(s, m, net \ {f})
    BY <1>8 DEF ReceiveAction, ReceiveData
  <2>2. f.packet \in Packet /\ f.ttl \in Int /\ f.ttl - 1 \in Int
    BY <1>1, <1>8 DEF Frame
  <2> HIDE DEF s, n, I, K
  <2>3. Sound(s, m, I)
    BY <1>1, <1>2, <2>2, ForwardSound
  <2>4. Straight(dist, s, m, K)
    BY <1>1, <1>2, <2>2, ForwardQuiet, QuietStraight
  <2> QED
    BY <2>1, <2>3, <2>4
<1> QED
  BY <1>1, <1>5, <1>6, <1>7, <1>8

\* The script sets the flags before the simulation starts.
LEMMA FlagsStay == [Next]_vars => flags' = flags
BY DEF Next, vars, RequestRoute, ReceiveAction, ReceiveData, RetryPathDiscovery, Expire, PreqTimeout,
       PerrTimeout, LinkClosed, Handled

LEMMA StraightStep ==
  ASSUME HwmpInv, [Next]_vars, NEW dist, Distances(dist), StraightInv(dist)
  PROVE  StraightInv(dist)'
<1>1. m_doFlag' = m_doFlag
  BY FlagsStay DEF flags
<1> SUFFICES ASSUME m_doFlag PROVE StraightInv(dist)'
  BY <1>1 DEF StraightInv
<1> DEFINE I == Issued
           K == Noted
<1>2. /\ I \in Numbers /\ \A s \in Station : Sound(s, node[s], I) /\ Straight(dist, s, node[s], K)
      /\ net \in SUBSET net /\ flags \in Flags /\ packets \in Nat
  BY StationsSound, StationsStraight DEF HwmpInv
<1>3. CASE RequestRoute
  <2>1. PICK f \in Flow : Handled(f[1], Request(f[1], node[f[1]], [id |-> packets', dst |-> f[2]]), net)
    BY <1>3 DEF RequestRoute
  <2>2. f[1] \in Station /\ f[2] \in Station /\ packets' \in Nat
    BY <1>2, <1>3, HwmpAssumption DEF RequestRoute
  <2> DEFINE p == [id |-> packets', dst |-> f[2]]
  <2>3. p \in Packet
    BY <2>2 DEF Packet
  <2> HIDE DEF p, I, K
  <2>4. Sound(f[1], Request(f[1], node[f[1]], p), I)
    BY <1>2, <2>2, <2>3, RequestSound
  <2>5. Straight(dist, f[1], Request(f[1], node[f[1]], p), K)
    BY <1>2, <2>2, <2>3, RequestStraight
  <2> QED
    BY <1>2, <2>1, <2>2, <2>4, <2>5, StraightHandled DEF p, I, K
<1>4. ASSUME NEW f \in net, ReceiveAction(f) \/ ReceiveData(f) PROVE StraightInv(dist)'
  BY <1>4, StraightReceive
<1>5. ASSUME NEW s \in Station, NEW d \in Station, RetryPathDiscovery(s, d) PROVE StraightInv(dist)'
  <2>1. node[s].m_preqTimeouts[d] # 0 /\ Handled(s, Retry(s, node[s], d), net)
    BY <1>5 DEF RetryPathDiscovery
  <2> HIDE DEF I, K
  <2>2. Sound(s, Retry(s, node[s], d), I)
    BY <1>2, <2>1, RetrySound
  <2>3. Straight(dist, s, Retry(s, node[s], d), K)
    BY <1>2, <2>1, RetryStraight
  <2> QED
    BY <1>2, <2>1, <2>2, <2>3, StraightHandled DEF I, K
<1>6. ASSUME NEW s \in Station, NEW d \in Station, Expire(s, d) PROVE StraightInv(dist)'
  BY <1>6, StraightExpire
<1>7. ASSUME NEW s \in Station, PreqTimeout(s) \/ PerrTimeout(s) PROVE StraightInv(dist)'
  BY <1>7, StraightTimers
<1>8. ASSUME NEW s \in Station, NEW t \in Neighbours(s), LinkClosed(s, t) PROVE StraightInv(dist)'
  <2>1. Handled(s, InitiatePathError(s, node[s], t), net)
    BY <1>8 DEF LinkClosed
  <2> HIDE DEF I, K
  <2>2. Sound(s, InitiatePathError(s, node[s], t), I)
    BY <1>2, InitiatePathErrorSound
  <2>3. Straight(dist, s, InitiatePathError(s, node[s], t), K)
    BY <1>2, InitiatePathErrorQuiet, QuietStraight
  <2> QED
    BY <1>2, <2>1, <2>2, <2>3, StraightHandled DEF I, K
<1>9. CASE UNCHANGED vars
  BY <1>1, <1>9 DEF vars, StraightInv
<1> QED
  BY <1>3, <1>4, <1>5, <1>6, <1>7, <1>8, <1>9 DEF Next

\* Along routes the destination comes nearer.
LEMMA StraightIsLoopFree ==
  ASSUME HwmpInv, NEW dist, Distances(dist), StraightInv(dist)
  PROVE  LoopFree
<1> SUFFICES ASSUME m_doFlag, NEW d \in Station, NEW S \in (SUBSET (Station \ {d})) \ {{}}
             PROVE  \E s \in S : ~Valid(node[s], d) \/ node[s].m_routes[d].retransmitter \notin S
  BY Zenon DEF LoopFree
<1> DEFINE D == {dist[s][d] : s \in S}
<1>1. D \in SUBSET Nat /\ D # {}
  <2>1. \A s \in S : s \in Station /\ dist[s][d] \in Nat
    BY DEF Distances
  <2>2. \E s : s \in S
    OBVIOUS
  <2> QED
    BY <2>1, <2>2
<1>2. PICK least \in D : \A e \in D : least <= e
  BY <1>1, LeastNat
<1>3. PICK s \in S : dist[s][d] = least
  OBVIOUS
<1> DEFINE t == node[s].m_routes[d].retransmitter
<1>4. ASSUME Valid(node[s], d), t \in S PROVE FALSE
  <2>1. t \in Neighbours(s)
    BY <1>4 DEF HwmpInv, RoutesLead, Valid
  <2>2. Nearer(dist, s, t, d)
    BY <1>4, HwmpAssumption DEF StraightInv, StraightRoutes
  <2>3. dist[t][d] \in Nat /\ dist[s][d] \in Nat /\ Metric[<<s, t>>] \in Nat \ {0}
    <3> HIDE DEF t
    <3> s \in Station
      OBVIOUS
    <3> QED
      BY <2>1, WayFacts
  <2>4. dist[s][d] <= dist[t][d]
    BY <1>2, <1>3, <1>4
  <2> HIDE DEF t
  <2> QED
    BY <2>2, <2>3, <2>4 DEF Nearer
<1> QED
  BY <1>4

(* In every mesh without cycles whose stations answer only for themselves, *)
(* no set of stations passes packets on among its members only, however    *)
(* requests, answers and errors are lost, delayed and overtaken, routes    *)
(* expire and links close: a station accepts news of another that came the *)
(* only way, never what its own told a station farther away.               *)
THEOREM RoutesFormNoLoop == WithoutCycles => (Spec => []LoopFree)
<1>1. ASSUME NEW CONSTANT dist, Distances(dist) PROVE Spec => []LoopFree
  <2>1. Init => StraightInv(dist)
    BY <1>1, StraightInit
  <2>2. HwmpInv /\ StraightInv(dist) /\ [Next]_vars => StraightInv(dist)'
    BY <1>1, StraightStep
  <2>3. HwmpInv /\ StraightInv(dist) => LoopFree
    BY <1>1, StraightIsLoopFree
  <2> QED
    BY <2>1, <2>2, <2>3, HwmpInit, HwmpStep, PTL DEF Spec
<1> QED
  BY <1>1, Zenon DEF WithoutCycles
===============================================================================
