---------------------------- MODULE PeerLinkProofs ----------------------------
(***************************************************************************)
(* Proofs about the peer links, for any stations, whichever of them are in *)
(* range of each other, any limits, and every loss of frames.              *)
(***************************************************************************)
EXTENDS PeerLink, FiniteSetTheorems, TLAPS

-------------------------------------------------------------------------------
(* The state machine *)

\* The timers of a link are those of its state.
TimersFit(l) ==
  /\ "retry" \in l.timers <=> l.state \in Retrying
  /\ "confirm" \in l.timers <=> l.state = "CNF_RCVD"
  /\ "holding" \in l.timers <=> l.state = "HOLDING"

\* What happens to a link other than the expiry of one of its timers
Incident == {"ACTOPN", "OPN_ACPT", "CNF_ACPT", "CLS_ACPT", "CNCL"} \cup Rejects
Expiry == {"TOR1", "TOR2", "TOC", "TOH"}

\* The machine goes to one of its states.
LEMMA NextStateType ==
  ASSUME NEW st \in PeerState, NEW e \in Incident \cup Expiry
  PROVE  NextState(st, e) \in PeerState
BY DEF NextState, PeerState, Incident, Expiry, Rejects, Ends, Opening, Retrying

\* The machine leaves the ids of a link and the count of failures alone.
LEMMA MachineType ==
  ASSUME NEW l \in Link, NEW e \in Incident \cup Expiry,
         e = "TOR1" => l.retries < MaxRetries
  PROVE  /\ StateMachine(l, e) \in Link
         /\ StateMachine(l, e).state = NextState(l.state, e)
         /\ StateMachine(l, e).local = l.local
         /\ StateMachine(l, e).peer = l.peer
         /\ StateMachine(l, e).timers = (l.timers \ Clears(l.state, e)) \cup Sets(l.state, e)
<1>1. l.state \in PeerState /\ l.retries \in 0 .. MaxRetries /\ l.timers \subseteq Timer
  BY DEF Link
<1>2. NextState(l.state, e) \in PeerState
  BY <1>1, NextStateType
<1>3. (l.timers \ Clears(l.state, e)) \cup Sets(l.state, e) \in SUBSET Timer
  BY <1>1 DEF Clears, Sets
<1>4. (IF l.state \in Retrying /\ e = "TOR1" THEN l.retries + 1 ELSE l.retries) \in 0 .. MaxRetries
  BY <1>1, PeerLinkAssumption
<1> QED
  BY <1>2, <1>3, <1>4 DEF StateMachine, Link

\* On every transition the timers that no longer fit are cleared and those of
\* the new state are set.
LEMMA MachineTimers ==
  ASSUME NEW l \in Link, NEW e \in Incident, TimersFit(l)
  PROVE  TimersFit(StateMachine(l, e))
<1> DEFINE new == StateMachine(l, e)
<1>1. /\ new.state = NextState(l.state, e)
      /\ new.timers = (l.timers \ Clears(l.state, e)) \cup Sets(l.state, e)
  BY MachineType DEF Incident, Rejects
<1>2. l.state \in PeerState
  BY DEF Link
<1> HIDE DEF new
<1>3. "retry" \in new.timers <=> new.state \in Retrying
  BY <1>1, <1>2 DEF TimersFit, Clears, Sets, NextState, PeerState, Incident, Rejects, Ends,
                    Opening, Retrying, Timer
<1>4. "confirm" \in new.timers <=> new.state = "CNF_RCVD"
  BY <1>1, <1>2 DEF TimersFit, Clears, Sets, NextState, PeerState, Incident, Rejects, Ends,
                    Opening, Retrying, Timer
<1>5. "holding" \in new.timers <=> new.state = "HOLDING"
  BY <1>1, <1>2 DEF TimersFit, Clears, Sets, NextState, PeerState, Incident, Rejects, Ends,
                    Opening, Retrying, Timer
<1> QED
  BY <1>3, <1>4, <1>5 DEF TimersFit, new

\* What each timer that fires does to its link
Firing(l, t, e) ==
  \/ t = "retry" /\ e = RetryEvent(l)
  \/ t = "confirm" /\ e = "TOC"
  \/ t = "holding" /\ e = "TOH"
  \/ t = "beacon" /\ e = "CNCL"

\* Also when one of its timers has fired, a link ends with those of its state.
LEMMA ExpiryTimers ==
  ASSUME NEW l \in Link, NEW t, NEW e, Firing(l, t, e), t \in l.timers, TimersFit(l),
         NEW r, r = [l EXCEPT !.timers = @ \ {t}]
  PROVE  /\ e \in Incident \cup Expiry
         /\ e = "TOR1" => r.retries < MaxRetries
         /\ r \in Link /\ r.state = l.state /\ r.local = l.local /\ r.peer = l.peer
         /\ TimersFit(StateMachine(r, e))
<1>1. r \in Link /\ r.state = l.state /\ r.local = l.local /\ r.peer = l.peer
      /\ r.retries = l.retries /\ r.timers = l.timers \ {t}
  BY DEF Link
<1>2. e \in Incident \cup Expiry /\ (e = "TOR1" => r.retries < MaxRetries)
  BY <1>1 DEF Firing, RetryEvent, Incident, Expiry
<1>3. CASE t = "beacon"
  <2>1. e = "CNCL" /\ e \in Incident
    BY <1>3 DEF Firing, Incident
  <2>2. TimersFit(r)
    BY <1>1, <1>3 DEF TimersFit
  <2> QED
    BY <1>1, <1>2, <2>1, <2>2, MachineTimers
<1>4. CASE t # "beacon"
  <2> DEFINE new == StateMachine(r, e)
  <2>1. /\ new.state = NextState(l.state, e)
        /\ new.timers = ((l.timers \ {t}) \ Clears(l.state, e)) \cup Sets(l.state, e)
    BY <1>1, <1>2, MachineType
  <2>2. l.state \in PeerState
    BY DEF Link
  <2>3. \/ t = "retry" /\ e \in {"TOR1", "TOR2"}
        \/ t = "confirm" /\ e = "TOC"
        \/ t = "holding" /\ e = "TOH"
    BY <1>4 DEF Firing, RetryEvent
  <2> HIDE DEF new
  <2>4. "retry" \in new.timers <=> new.state \in Retrying
    BY <2>1, <2>2, <2>3 DEF TimersFit, Clears, Sets, NextState, PeerState, Rejects, Ends, Opening,
                            Retrying, Timer
  <2>5. "confirm" \in new.timers <=> new.state = "CNF_RCVD"
    BY <2>1, <2>2, <2>3 DEF TimersFit, Clears, Sets, NextState, PeerState, Rejects, Ends, Opening,
                            Retrying, Timer
  <2>6. "holding" \in new.timers <=> new.state = "HOLDING"
    BY <2>1, <2>2, <2>3 DEF TimersFit, Clears, Sets, NextState, PeerState, Rejects, Ends, Opening,
                            Retrying, Timer
  <2>7. TimersFit(new)
    BY <2>4, <2>5, <2>6 DEF TimersFit
  <2> QED
    BY <1>1, <1>2, <2>7 DEF new
<1> QED
  BY <1>3, <1>4

\* Every frame that the machine sends is one of the link's: it carries the
\* link's own id, and in a confirmation the peer's as the link knows it.
LinkFrame(l, f) ==
  /\ f \in Frame /\ f.local = l.local /\ f.peer \in {0, l.peer}
  /\ f.kind = "CONFIRM" => f.peer = l.peer

LEMMA SendsFacts ==
  ASSUME NEW l, l.local \in LinkId, l.peer \in LinkId, NEW e
  PROVE  /\ Sends(l, e) \in Seq(Frame)
         /\ \A i \in DOMAIN Sends(l, e) : LinkFrame(l, Sends(l, e)[i])
<1>1. /\ Open(l) \in Frame /\ Confirm(l) \in Frame /\ CloseFrame(l) \in Frame
      /\ LinkFrame(l, Open(l)) /\ LinkFrame(l, Confirm(l)) /\ LinkFrame(l, CloseFrame(l))
  BY DEF Open, Confirm, CloseFrame, LinkFrame, Frame, LinkId
<1>2. \/ Sends(l, e) = << >> \/ Sends(l, e) = <<Open(l)>> \/ Sends(l, e) = <<Confirm(l)>>
      \/ Sends(l, e) = <<CloseFrame(l)>> \/ Sends(l, e) = <<Confirm(l), Open(l)>>
  BY DEF Sends
<1> HIDE DEF Sends
<1>3. ASSUME NEW f, f \in Frame, LinkFrame(l, f), Sends(l, e) = <<f>>
      PROVE  /\ Sends(l, e) \in Seq(Frame)
             /\ \A i \in DOMAIN Sends(l, e) : LinkFrame(l, Sends(l, e)[i])
  BY <1>3
<1>4. CASE Sends(l, e) = <<Confirm(l), Open(l)>>
  <2>1. DOMAIN Sends(l, e) = {1, 2} /\ Sends(l, e)[1] = Confirm(l) /\ Sends(l, e)[2] = Open(l)
    BY <1>4
  <2> QED
    BY <1>1, <1>4, <2>1
<1>5. CASE Sends(l, e) = << >>
  BY <1>5
<1> QED
  BY <1>1, <1>2, <1>3, <1>4, <1>5

-------------------------------------------------------------------------------
(* The queues *)

\* What a queue holds after it was given frames of a link: what it held, and
\* behind it some of them.
Extends(old, new, l) ==
  \A i \in DOMAIN new :
    \/ i \in DOMAIN old /\ new[i] = old[i]
    \/ i > Len(old) /\ LinkFrame(l, new[i])

LEMMA EnqueueFacts ==
  ASSUME NEW q \in Seq(Frame), NEW frames \in Seq(Frame), NEW l,
         \A i \in DOMAIN frames : LinkFrame(l, frames[i])
  PROVE  /\ Enqueue(q, frames) \in Seq(Frame)
         /\ Len(Enqueue(q, frames)) <= MaxFrames
         /\ Extends(q, Enqueue(q, frames), l)
<1> DEFINE all == q \o frames
           n == IF Len(all) < MaxFrames THEN Len(all) ELSE MaxFrames
<1>1. all \in Seq(Frame) /\ Len(all) = Len(q) + Len(frames)
  OBVIOUS
<1>2. \A i \in 1 .. Len(all) : all[i] = IF i <= Len(q) THEN q[i] ELSE frames[i - Len(q)]
  OBVIOUS
<1>3. n \in 0 .. Len(all) /\ n <= MaxFrames
  BY <1>1, PeerLinkAssumption
<1>4. /\ SubSeq(all, 1, n) \in Seq(Frame) /\ Len(SubSeq(all, 1, n)) = n
      /\ \A i \in 1 .. n : SubSeq(all, 1, n)[i] = all[i]
  <2> HIDE DEF all, n
  <2> QED
    BY <1>1, <1>3
<1>5. Enqueue(q, frames) = SubSeq(all, 1, n)
  BY DEF Enqueue
<1>6. ASSUME NEW i \in 1 .. n
      PROVE  \/ i \in DOMAIN q /\ all[i] = q[i]
             \/ i > Len(q) /\ LinkFrame(l, all[i])
  <2>1. CASE i <= Len(q)
    BY <1>2, <1>3, <2>1
  <2>2. CASE i > Len(q)
    <3>1. i - Len(q) \in DOMAIN frames /\ all[i] = frames[i - Len(q)]
      BY <1>1, <1>2, <1>3, <2>2
    <3> QED
      BY <2>2, <3>1
  <2> QED
    BY <2>1, <2>2, <1>3
<1> HIDE DEF all, n
<1> QED
  BY <1>3, <1>4, <1>5, <1>6 DEF Extends

\* A pair of stations is also one the other way round.
LEMMA PairFacts ==
  \A p \in Pair : /\ p[1] \in Station /\ p[2] \in Station /\ p = <<p[1], p[2]>>
                  /\ Peer(p) \in Pair /\ Peer(p) # p /\ Peer(Peer(p)) = p
                  /\ Peer(p)[1] = p[2] /\ Peer(p)[2] = p[1]
<1> SUFFICES ASSUME NEW p \in Pair
             PROVE  /\ p[1] \in Station /\ p[2] \in Station /\ p = <<p[1], p[2]>>
                    /\ Peer(p) \in Pair /\ Peer(p) # p /\ Peer(Peer(p)) = p
                    /\ Peer(p)[1] = p[2] /\ Peer(p)[2] = p[1]
  OBVIOUS
<1>1. p \in Station \X Station /\ p[1] # p[2] /\ <<p[2], p[1]>> \in Pair
  BY PeerLinkAssumption
<1>2. PICK a \in Station, b \in Station : p = <<a, b>>
  BY <1>1
<1> QED
  BY <1>1, <1>2 DEF Peer

-------------------------------------------------------------------------------
(* Types, timers and the number of links *)

\* The established links of a station are finitely many, at most one for each
\* other station.
LEMMA EstablishedFinite ==
  ASSUME NEW s \in Station, NEW S, S \subseteq {p \in Pair : p[1] = s}
  PROVE  /\ IsFiniteSet(S)
         /\ Cardinality(S) \in 0 .. Cardinality(Station)
<1> DEFINE f == [p \in S |-> p[2]]
<1>1. f \in [S -> Station] /\ \A p, q \in S : f[p] = f[q] => p = q
  BY PairFacts
<1>2. f \in Injection(S, Station)
  BY <1>1 DEF Injection, IsInjective
<1>3. IsFiniteSet(Station)
  BY PeerLinkAssumption
<1>4. IsFiniteSet(S) /\ Cardinality(S) <= Cardinality(Station)
  BY <1>2, <1>3, FS_Injection
<1>5. Cardinality(S) \in Nat /\ Cardinality(Station) \in Nat
  BY <1>3, <1>4, FS_CardinalityType
<1> QED
  BY <1>4, <1>5

\* A link of p that comes to a state, or goes from it, changes the number of
\* links of its station as PeerLinkStatus counts it.
LEMMA CountFacts ==
  ASSUME NEW p \in Pair, NEW new, NEW old,
         TypeOK, LinksCounted,
         m_peerLinks' = [m_peerLinks EXCEPT ![p] = new],
         m_linksTotal' = [m_linksTotal EXCEPT ![p[1]] = @ + Counted(old, new.state)],
         Estab(p) <=> old = "ESTAB"
  PROVE  LinksCounted' /\ m_linksTotal' \in [Station -> 0 .. Cardinality(Station)]
<1> DEFINE E(s) == {q \in Pair : q[1] = s /\ Estab(q)}
           F(s) == {q \in Pair : q[1] = s /\ m_peerLinks'[q].state = "ESTAB"}
<1>0. p[1] \in Station /\ m_linksTotal \in [Station -> 0 .. Cardinality(Station)]
  BY PairFacts DEF TypeOK
<1>1. \A q \in Pair : m_peerLinks'[q] = IF q = p THEN new ELSE m_peerLinks[q]
  BY DEF TypeOK
<1>2. ASSUME NEW s \in Station
      PROVE  /\ IsFiniteSet(E(s)) /\ Cardinality(E(s)) \in Nat
             /\ IsFiniteSet(F(s)) /\ Cardinality(F(s)) \in 0 .. Cardinality(Station)
             /\ m_linksTotal[s] = Cardinality(E(s))
  <2>1. IsFiniteSet(E(s)) /\ Cardinality(E(s)) \in Nat
    BY EstablishedFinite, FS_CardinalityType
  <2>2. IsFiniteSet(F(s)) /\ Cardinality(F(s)) \in 0 .. Cardinality(Station)
    BY EstablishedFinite
  <2> QED
    BY <2>1, <2>2 DEF LinksCounted
<1>3. ASSUME NEW s \in Station PROVE m_linksTotal'[s] = Cardinality(F(s))
  <2>1. CASE s # p[1]
    <3>1. E(s) = F(s)
      BY <1>1, <2>1 DEF Estab
    <3> QED
      BY <1>0, <1>2, <2>1, <3>1
  <2>2. CASE s = p[1] /\ new.state = "ESTAB" /\ old # "ESTAB"
    <3>1. F(s) = E(s) \cup {p} /\ p \notin E(s)
      BY <1>1, <2>2 DEF Estab
    <3>2. Cardinality(F(s)) = Cardinality(E(s)) + 1
      BY <1>2, <3>1, FS_AddElement
    <3> QED
      BY <1>0, <1>2, <2>2, <3>2 DEF Counted
  <2>3. CASE s = p[1] /\ new.state # "ESTAB" /\ old = "ESTAB"
    <3>1. F(s) = E(s) \ {p} /\ p \in E(s)
      BY <1>1, <2>3 DEF Estab
    <3>2. Cardinality(F(s)) = Cardinality(E(s)) - 1
      BY <1>2, <3>1, FS_RemoveElement
    <3> QED
      BY <1>0, <1>2, <2>3, <3>2 DEF Counted
  <2>4. CASE s = p[1] /\ (new.state = "ESTAB" <=> old = "ESTAB")
    <3>1. F(s) = E(s)
      BY <1>1, <2>4 DEF Estab
    <3>2. Counted(old, new.state) = 0
      BY <2>4 DEF Counted
    <3>3. m_linksTotal'[s] = m_linksTotal[s]
      BY <1>0, <1>2, <2>4, <3>2
    <3> QED
      BY <1>2, <3>1, <3>3
  <2> QED
    BY <2>1, <2>2, <2>3, <2>4
<1>4. LinksCounted'
  BY <1>3 DEF LinksCounted, Estab
<1>5. m_linksTotal' \in [Station -> 0 .. Cardinality(Station)]
  <2>1. DOMAIN m_linksTotal' = Station
    BY <1>0
  <2>2. m_linksTotal' = [s \in Station |-> m_linksTotal'[s]]
    BY <1>0
  <2> QED
    BY <1>2, <1>3, <2>2
<1> QED
  BY <1>4, <1>5

\* The link between what an action finds and what it leaves behind
LinkFits(l) == l = NoLink \/ (l \in Link /\ TimersFit(l))

LEMMA LinkChange ==
  ASSUME NEW p \in Pair, NEW new,
         m_peerLinks \in [Pair -> Link \cup {NoLink}], TimersMatchState, LinkFits(new),
         m_peerLinks' = [m_peerLinks EXCEPT ![p] = new]
  PROVE  m_peerLinks' \in [Pair -> Link \cup {NoLink}] /\ TimersMatchState'
BY DEF LinkFits, TimersFit, TimersMatchState

PeerInv == TypeOK /\ TimersMatchState /\ LinksCounted

\* FindPeerLink and InitiateLink
LEMMA FoundFacts ==
  ASSUME PeerInv, NEW p \in Pair
  PROVE  /\ LinkFits(m_peerLinks[p]) /\ LinkFits(FindPeerLink(p))
         /\ FindPeerLink(p).state # "IDLE"
         /\ FindPeerLink(p) # NoLink => FindPeerLink(p) = m_peerLinks[p]
         /\ Estab(p) <=> FindPeerLink(p).state = "ESTAB"
BY DEF PeerInv, TypeOK, TimersMatchState, LinkFits, TimersFit, FindPeerLink, NoLink, Estab

LEMMA InitiateFacts ==
  ASSUME PeerInv, NEW s \in Station
  PROVE  /\ InitiateLink(s) \in Link /\ TimersFit(InitiateLink(s))
         /\ InitiateLink(s).state = "IDLE" /\ InitiateLink(s).local = m_lastLocalLinkId[s]
         /\ InitiateLink(s).peer = 0
BY PeerLinkAssumption DEF PeerInv, TypeOK, InitiateLink, Link, LinkId, PeerState, TimersFit, Retrying

LEMMA NoLinkFacts == NoLink \notin Link /\ NoLink.state = "none"
BY DEF NoLink, Link, PeerState

\* What is left of PeerInv to show once the links are known to fit
LEMMA PeerInvParts ==
  ASSUME PeerInv, NEW p \in Pair, NEW new, NEW old,
         m_peerLinks' = [m_peerLinks EXCEPT ![p] = new], LinkFits(new),
         m_linksTotal' = [m_linksTotal EXCEPT ![p[1]] = @ + Counted(old, new.state)],
         Estab(p) <=> old = "ESTAB",
         m_lastLocalLinkId' \in [Station -> Nat], dropped' \subseteq Pair,
         queue' \in [Pair -> Seq(Frame)], \A q \in Pair : Len(queue'[q]) <= MaxFrames
  PROVE  PeerInv'
<1>1. m_peerLinks' \in [Pair -> Link \cup {NoLink}] /\ TimersMatchState'
  BY LinkChange DEF PeerInv, TypeOK
<1>2. LinksCounted' /\ m_linksTotal' \in [Station -> 0 .. Cardinality(Station)]
  BY CountFacts DEF PeerInv
<1> QED
  BY <1>1, <1>2 DEF PeerInv, TypeOK

\* The same for a step that leaves the number of links alone
LEMMA PeerInvKept ==
  ASSUME PeerInv, NEW p \in Pair, NEW new,
         m_peerLinks' = [m_peerLinks EXCEPT ![p] = new], LinkFits(new),
         m_linksTotal' = m_linksTotal,
         Estab(p) <=> new.state = "ESTAB",
         m_lastLocalLinkId' \in [Station -> Nat], dropped' \subseteq Pair,
         queue' \in [Pair -> Seq(Frame)], \A q \in Pair : Len(queue'[q]) <= MaxFrames
  PROVE  PeerInv'
<1>1. Counted(new.state, new.state) = 0
  BY DEF Counted
<1>2. m_linksTotal' = [m_linksTotal EXCEPT ![p[1]] = @ + Counted(new.state, new.state)]
  BY <1>1, PairFacts DEF PeerInv, TypeOK
<1> QED
  BY <1>2, PeerInvParts

\* The link of p after the event e happened to l
Becomes(p, l, e, new) ==
  /\ m_peerLinks' = [m_peerLinks EXCEPT ![p] = new]
  /\ \/ new = NoLink
     \/ /\ new \in Link /\ new.state = NextState(l.state, e)
        /\ new.local = l.local /\ new.peer = l.peer

\* Apply, on a link that was found or initiated
LEMMA ApplyFacts ==
  ASSUME PeerInv, NEW p \in Pair, NEW l \in Link, NEW e \in Incident \cup Expiry,
         e = "TOR1" => l.retries < MaxRetries,
         Apply(p, l, e), TimersFit(StateMachine(l, e)), Estab(p) <=> l.state = "ESTAB",
         m_lastLocalLinkId' \in [Station -> Nat],
         queue' \in [Pair -> Seq(Frame)], \A q \in Pair : Len(queue'[q]) <= MaxFrames
  PROVE  PeerInv' /\ \E new : Becomes(p, l, e, new)
<1> DEFINE sm == StateMachine(l, e)
           erased == l.state = "HOLDING" /\ sm.state = "IDLE"
           new == IF erased THEN NoLink ELSE sm
<1>1. /\ sm \in Link /\ sm.state = NextState(l.state, e) /\ sm.local = l.local /\ sm.peer = l.peer
  BY MachineType
<1>2. LinkFits(new)
  BY <1>1 DEF LinkFits
<1>3. /\ m_peerLinks' = [m_peerLinks EXCEPT ![p] = new]
      /\ m_linksTotal' = [m_linksTotal EXCEPT ![p[1]] = @ + Counted(l.state, sm.state)]
  BY DEF Apply
<1>4. dropped' \subseteq Pair
  BY DEF Apply, PeerInv, TypeOK
<1>5. Counted(l.state, sm.state) = Counted(l.state, new.state)
  BY NoLinkFacts DEF Counted
<1>6. m_linksTotal' = [m_linksTotal EXCEPT ![p[1]] = @ + Counted(l.state, new.state)]
  BY <1>3, <1>5
<1> HIDE DEF new
<1>7. PeerInv'
  BY <1>2, <1>3, <1>4, <1>6, PeerInvParts
<1>8. Becomes(p, l, e, new)
  BY <1>1, <1>3 DEF Becomes, new
<1> QED
  BY <1>7, <1>8

-------------------------------------------------------------------------------
(* What a step does, as far as the ids of links and frames are concerned *)

\* p[1] takes over the id of its peer's link from the next frame.
TakesId(p, id) == queue[Peer(p)] # << >> /\ id = Head(queue[Peer(p)]).local

\* The queues after a step of p: frames of the link l are sent, and the next
\* one of the peer may be taken.
QueuesChange(p, l, taken) ==
  /\ queue' \in [Pair -> Seq(Frame)] /\ \A q \in Pair : Len(queue'[q]) <= MaxFrames
  /\ Extends(queue[p], queue'[p], l)
  /\ taken => queue[Peer(p)] # << >>
  /\ queue'[Peer(p)] = IF taken THEN Tail(queue[Peer(p)]) ELSE queue[Peer(p)]
  /\ \A q \in Pair : q = p \/ q = Peer(p) \/ queue'[q] = queue[q]

Opened == {"CNF_RCVD", "OPN_RCVD", "ESTAB"}
Confirmed == {"CNF_RCVD", "ESTAB"}

\* A step works on the link l, found or initiated by p[1], perhaps with the
\* peer's id from the next frame, and leaves the link new.
Works(p, l, new, taken) ==
  /\ l \in Link
  /\ m_peerLinks' = [m_peerLinks EXCEPT ![p] = new]
  /\ new = NoLink \/ (new \in Link /\ new.local = l.local /\ new.peer = l.peer)
  /\ \/ /\ HasLink(p) /\ l.local = m_peerLinks[p].local
        /\ l.peer = m_peerLinks[p].peer \/ (taken /\ TakesId(p, l.peer))
        /\ UNCHANGED m_lastLocalLinkId
     \/ /\ l.local = m_lastLocalLinkId[p[1]]
        /\ l.peer = 0 \/ (taken /\ TakesId(p, l.peer))
        /\ m_lastLocalLinkId' = [m_lastLocalLinkId EXCEPT ![p[1]] = @ + 1]
  /\ new.state \in Confirmed =>
       \/ HasLink(p) /\ m_peerLinks[p].state \in Confirmed /\ UNCHANGED m_lastLocalLinkId
       \/ taken /\ Head(queue[Peer(p)]).kind = "CONFIRM" /\ Head(queue[Peer(p)]).peer = l.local
  /\ new.state \in Opened =>
       \/ taken /\ TakesId(p, l.peer)
       \/ HasLink(p) /\ m_peerLinks[p].state \in Opened /\ l.peer = m_peerLinks[p].peer
  /\ QueuesChange(p, l, taken)

\* A step leaves p's link as it is but for its timers and failures, or erases
\* it, and takes at most a frame of the peer.
Rests(p, new, taken) ==
  /\ m_peerLinks' = [m_peerLinks EXCEPT ![p] = new]
  /\ \/ new = NoLink
     \/ /\ HasLink(p) /\ new \in Link
        /\ new.local = m_peerLinks[p].local /\ new.peer = m_peerLinks[p].peer
        /\ new.state = m_peerLinks[p].state
  /\ UNCHANGED m_lastLocalLinkId
  /\ queue' \in [Pair -> Seq(Frame)] /\ \A q \in Pair : Len(queue'[q]) <= MaxFrames
  /\ taken => queue[Peer(p)] # << >>
  /\ queue'[Peer(p)] = IF taken THEN Tail(queue[Peer(p)]) ELSE queue[Peer(p)]
  /\ \A q \in Pair : q = Peer(p) \/ queue'[q] = queue[q]

Summary(p) ==
  \E new : \E taken \in BOOLEAN : Rests(p, new, taken) \/ \E l : Works(p, l, new, taken)

\* How a link comes to be confirmed, and opened
LEMMA NextStateFacts ==
  ASSUME NEW st \in PeerState, NEW e \in Incident \cup Expiry
  PROVE  /\ NextState(st, e) \in Confirmed => st \in Confirmed \/ e = "CNF_ACPT"
         /\ NextState(st, e) \in Opened => st \in Opened \/ e \in {"OPN_ACPT", "CNF_ACPT"}
BY DEF NextState, PeerState, Incident, Expiry, Rejects, Ends, Opening, Retrying, Confirmed, Opened

\* The queues, when the machine has sent what it sends for l
LEMMA SendChange ==
  ASSUME PeerInv, NEW p \in Pair, NEW l \in Link, NEW frames \in Seq(Frame),
         \A i \in DOMAIN frames : LinkFrame(l, frames[i]),
         queue' = [queue EXCEPT ![p] = Enqueue(@, frames)]
  PROVE  QueuesChange(p, l, FALSE)
<1>1. queue \in [Pair -> Seq(Frame)] /\ \A q \in Pair : Len(queue[q]) <= MaxFrames
  BY DEF PeerInv, TypeOK
<1>2. /\ Enqueue(queue[p], frames) \in Seq(Frame)
      /\ Len(Enqueue(queue[p], frames)) <= MaxFrames
      /\ Extends(queue[p], Enqueue(queue[p], frames), l)
  BY <1>1, EnqueueFacts
<1>3. \A q \in Pair : queue'[q] = IF q = p THEN Enqueue(queue[p], frames) ELSE queue[q]
  BY <1>1
<1>4. queue' \in [Pair -> Seq(Frame)]
  BY <1>1, <1>2
<1>5. Peer(p) \in Pair /\ Peer(p) # p
  BY PairFacts
<1> QED
  BY <1>1, <1>2, <1>3, <1>4, <1>5 DEF QueuesChange

\* The same, when the next frame of the peer was taken before
LEMMA TakeChange ==
  ASSUME PeerInv, NEW p \in Pair, NEW l \in Link, NEW frames \in Seq(Frame),
         \A i \in DOMAIN frames : LinkFrame(l, frames[i]), queue[Peer(p)] # << >>,
         queue' = [queue EXCEPT ![Peer(p)] = Tail(@), ![p] = Enqueue(@, frames)]
  PROVE  QueuesChange(p, l, TRUE)
<1>1. queue \in [Pair -> Seq(Frame)] /\ \A q \in Pair : Len(queue[q]) <= MaxFrames
  BY DEF PeerInv, TypeOK
<1>2. /\ Enqueue(queue[p], frames) \in Seq(Frame)
      /\ Len(Enqueue(queue[p], frames)) <= MaxFrames
      /\ Extends(queue[p], Enqueue(queue[p], frames), l)
  BY <1>1, EnqueueFacts
<1>3. Peer(p) \in Pair /\ Peer(p) # p
  BY PairFacts
<1>4. /\ Tail(queue[Peer(p)]) \in Seq(Frame)
      /\ Len(Tail(queue[Peer(p)])) <= MaxFrames
  BY <1>1, <1>3, PeerLinkAssumption
<1>5. \A q \in Pair : queue'[q] = IF q = p THEN Enqueue(queue[p], frames)
                                  ELSE IF q = Peer(p) THEN Tail(queue[q]) ELSE queue[q]
  BY <1>1, <1>3
<1>6. queue' \in [Pair -> Seq(Frame)]
  BY <1>1, <1>2, <1>3, <1>4
<1> QED
  BY <1>1, <1>2, <1>3, <1>4, <1>5, <1>6 DEF QueuesChange

-------------------------------------------------------------------------------
(* The actions, one by one *)

LEMMA BeaconFacts ==
  ASSUME PeerInv, NEW p \in Pair, ReceiveBeacon(p)
  PROVE  PeerInv' /\ Summary(p)
<1> DEFINE found == FindPeerLink(p)
           l == InitiateLink(p[1])
<1>0. /\ LinkFits(found) /\ (Estab(p) <=> found.state = "ESTAB")
      /\ found # NoLink => found = m_peerLinks[p] /\ HasLink(p)
      /\ p[1] \in Station /\ m_lastLocalLinkId \in [Station -> Nat] /\ dropped \subseteq Pair
      /\ queue \in [Pair -> Seq(Frame)] /\ \A q \in Pair : Len(queue[q]) <= MaxFrames
  BY FoundFacts, PairFacts DEF PeerInv, TypeOK, HasLink
<1>1. CASE found # NoLink
  <2> DEFINE new == [found EXCEPT !.timers = @ \cup {"beacon"}]
  <2>1. found \in Link /\ TimersFit(found)
    BY <1>0, <1>1 DEF LinkFits
  <2>2. /\ new \in Link /\ TimersFit(new) /\ new.state = found.state
        /\ new.local = found.local /\ new.peer = found.peer
    BY <2>1 DEF Link, TimersFit, Timer
  <2>3. /\ m_peerLinks' = [m_peerLinks EXCEPT ![p] = new]
        /\ queue' = [queue EXCEPT ![p] = Enqueue(@, << >>)]
        /\ m_lastLocalLinkId' = m_lastLocalLinkId
        /\ UNCHANGED <<m_linksTotal, dropped>>
    BY <1>0, <1>1 DEF ReceiveBeacon, Initiated
  <2>4. QueuesChange(p, found, FALSE)
    <3>1. << >> \in Seq(Frame) /\ \A i \in DOMAIN << >> : LinkFrame(found, << >>[i])
      OBVIOUS
    <3> HIDE DEF found
    <3> QED
      BY <2>1, <2>3, <3>1, SendChange
  <2> HIDE DEF new
  <2>5. PeerInv'
    BY <1>0, <1>1, <2>2, <2>3, <2>4, PeerInvKept DEF QueuesChange, LinkFits
  <2>6. Works(p, found, new, FALSE)
    BY <1>0, <1>1, <2>1, <2>2, <2>3, <2>4 DEF Works
  <2> QED
    BY <2>5, <2>6 DEF Summary
<1>2. CASE found = NoLink /\ ShouldOpen(p[1])
  <2> DEFINE sm == StateMachine(l, "ACTOPN")
             new == [sm EXCEPT !.timers = @ \cup {"beacon"}]
  <2>1. /\ l \in Link /\ TimersFit(l) /\ l.state = "IDLE"
        /\ l.local = m_lastLocalLinkId[p[1]] /\ l.peer = 0
    BY <1>0, InitiateFacts
  <2>2. /\ sm \in Link /\ TimersFit(sm) /\ sm.local = l.local /\ sm.peer = l.peer
        /\ sm.state = "OPN_SNT"
    <3>1. "ACTOPN" \in Incident /\ "ACTOPN" # "TOR1" /\ NextState("IDLE", "ACTOPN") = "OPN_SNT"
      BY DEF Incident, NextState, Opening, Retrying, Ends, Rejects
    <3> HIDE DEF l
    <3> QED
      BY <2>1, <3>1, MachineType, MachineTimers
  <2>3. /\ new \in Link /\ TimersFit(new) /\ new.state = "OPN_SNT"
        /\ new.local = l.local /\ new.peer = l.peer
    BY <2>2 DEF Link, TimersFit, Timer
  <2>4. /\ m_peerLinks' = [m_peerLinks EXCEPT ![p] = new]
        /\ queue' = [queue EXCEPT ![p] = Enqueue(@, Sends(l, "ACTOPN"))]
        /\ m_lastLocalLinkId' = [m_lastLocalLinkId EXCEPT ![p[1]] = @ + 1]
        /\ UNCHANGED <<m_linksTotal, dropped>>
    BY <1>2 DEF ReceiveBeacon, Initiated
  <2>5. QueuesChange(p, l, FALSE)
    BY <2>1, <2>4, SendChange, SendsFacts DEF Link
  <2> HIDE DEF new, l
  <2>6. PeerInv'
    <3>1. m_lastLocalLinkId' \in [Station -> Nat]
      BY <1>0, <2>4
    <3>2. ~Estab(p) /\ new.state # "ESTAB"
      BY <1>0, <1>2, <2>3, NoLinkFacts
    <3> QED
      BY <1>0, <2>3, <2>4, <2>5, <3>1, <3>2, PeerInvKept DEF QueuesChange, LinkFits
  <2>7. Works(p, l, new, FALSE)
    BY <2>1, <2>3, <2>4, <2>5 DEF Works, Confirmed, Opened
  <2> QED
    BY <2>6, <2>7 DEF Summary
<1>3. CASE found = NoLink /\ ~ShouldOpen(p[1])
  <2>3. /\ m_peerLinks' = [m_peerLinks EXCEPT ![p] = NoLink]
        /\ UNCHANGED <<m_lastLocalLinkId, m_linksTotal, queue, dropped>>
    BY <1>3 DEF ReceiveBeacon
  <2>4. ~Estab(p) /\ NoLink.state # "ESTAB" /\ LinkFits(NoLink)
    BY <1>0, <1>3, NoLinkFacts DEF LinkFits
  <2>5. PeerInv'
    BY <1>0, <1>3, <2>3, <2>4, PeerInvKept
  <2>6. Rests(p, NoLink, FALSE)
    BY <1>0, <1>3, <2>3, PairFacts DEF Rests
  <2> QED
    BY <2>5, <2>6 DEF Summary
<1> QED
  BY <1>1, <1>2, <1>3 DEF ReceiveBeacon

\* The link on which an action works is the one found or a new one.
Origin(p, l, taken) ==
  \/ /\ HasLink(p) /\ l.local = m_peerLinks[p].local /\ l.state = m_peerLinks[p].state
     /\ l.peer = m_peerLinks[p].peer \/ (taken /\ TakesId(p, l.peer))
     /\ UNCHANGED m_lastLocalLinkId
  \/ /\ l.local = m_lastLocalLinkId[p[1]] /\ l.state = "IDLE" /\ FindPeerLink(p) = NoLink
     /\ l.peer = 0 \/ (taken /\ TakesId(p, l.peer))
     /\ m_lastLocalLinkId' = [m_lastLocalLinkId EXCEPT ![p[1]] = @ + 1]

\* The state machine is applied to the link.
LEMMA WorkFacts ==
  ASSUME PeerInv, NEW p \in Pair, NEW l \in Link, NEW e \in Incident \cup Expiry,
         NEW taken \in BOOLEAN,
         e = "TOR1" => l.retries < MaxRetries,
         Apply(p, l, e), TimersFit(StateMachine(l, e)), Origin(p, l, taken),
         QueuesChange(p, l, taken),
         e = "CNF_ACPT" => /\ taken /\ Head(queue[Peer(p)]).kind = "CONFIRM"
                           /\ Head(queue[Peer(p)]).peer = l.local,
         e \in {"OPN_ACPT", "CNF_ACPT"} => taken /\ TakesId(p, l.peer)
  PROVE  PeerInv' /\ Summary(p)
<1>1. Estab(p) <=> l.state = "ESTAB"
  BY FoundFacts, NoLinkFacts DEF Origin, Estab
<1>2. m_lastLocalLinkId' \in [Station -> Nat]
  BY PairFacts DEF Origin, PeerInv, TypeOK
<1>3. queue' \in [Pair -> Seq(Frame)] /\ \A q \in Pair : Len(queue'[q]) <= MaxFrames
  BY DEF QueuesChange
<1>4. PeerInv'
  BY <1>1, <1>2, <1>3, ApplyFacts
<1>5. PICK new : Becomes(p, l, e, new)
  BY <1>1, <1>2, <1>3, ApplyFacts
<1>6. l.state \in PeerState
  BY DEF Link
<1>7. NoLink.state \notin Confirmed /\ NoLink.state \notin Opened
  BY NoLinkFacts DEF Confirmed, Opened
<1>8. new.state \in Confirmed =>
        \/ HasLink(p) /\ m_peerLinks[p].state \in Confirmed /\ UNCHANGED m_lastLocalLinkId
        \/ taken /\ Head(queue[Peer(p)]).kind = "CONFIRM" /\ Head(queue[Peer(p)]).peer = l.local
  <2>1. new.state \in Confirmed => l.state \in Confirmed \/ e = "CNF_ACPT"
    BY <1>5, <1>6, <1>7, NextStateFacts DEF Becomes
  <2>2. l.state \in Confirmed =>
          HasLink(p) /\ m_peerLinks[p].state \in Confirmed /\ UNCHANGED m_lastLocalLinkId
    BY DEF Origin, Confirmed
  <2> QED
    BY <2>1, <2>2
<1>9. new.state \in Opened =>
        \/ taken /\ TakesId(p, l.peer)
        \/ HasLink(p) /\ m_peerLinks[p].state \in Opened /\ l.peer = m_peerLinks[p].peer
  <2>1. new.state \in Opened => l.state \in Opened \/ e \in {"OPN_ACPT", "CNF_ACPT"}
    BY <1>5, <1>6, <1>7, NextStateFacts DEF Becomes
  <2>2. l.state \in Opened =>
        \/ taken /\ TakesId(p, l.peer)
        \/ HasLink(p) /\ m_peerLinks[p].state \in Opened /\ l.peer = m_peerLinks[p].peer
    BY DEF Origin, Opened
  <2> QED
    BY <2>1, <2>2
<1>10. Works(p, l, new, taken)
  BY <1>5, <1>8, <1>9 DEF Works, Origin, Becomes
<1> QED
  BY <1>4, <1>10 DEF Summary

\* A frame is taken and the state machine applied.
LEMMA TakeFacts ==
  ASSUME PeerInv, NEW p \in Pair, NEW l \in Link, NEW e \in Incident,
         Take(p, l, e), TimersFit(l), Origin(p, l, TRUE), queue[Peer(p)] # << >>,
         e = "CNF_ACPT" => /\ Head(queue[Peer(p)]).kind = "CONFIRM"
                           /\ Head(queue[Peer(p)]).peer = l.local,
         e \in {"OPN_ACPT", "CNF_ACPT"} => TakesId(p, l.peer)
  PROVE  PeerInv' /\ Summary(p)
<1>1. TimersFit(StateMachine(l, e))
  BY MachineTimers
<1>2. Apply(p, l, e)
  BY DEF Take
<1>3. QueuesChange(p, l, TRUE)
  BY SendsFacts, TakeChange DEF Take, Link
<1>4. e \in Incident \cup Expiry /\ e # "TOR1"
  BY DEF Incident, Rejects
<1> QED
  BY <1>1, <1>2, <1>3, <1>4, WorkFacts

\* A frame is taken and nothing else done.
LEMMA IgnoreFacts ==
  ASSUME PeerInv, NEW p \in Pair, Ignore(p, FindPeerLink(p)), queue[Peer(p)] # << >>,
         UNCHANGED m_lastLocalLinkId
  PROVE  PeerInv' /\ Summary(p)
<1> DEFINE new == FindPeerLink(p)
<1>1. /\ queue \in [Pair -> Seq(Frame)] /\ \A q \in Pair : Len(queue[q]) <= MaxFrames
      /\ m_lastLocalLinkId \in [Station -> Nat] /\ dropped \subseteq Pair
      /\ Peer(p) \in Pair /\ Peer(p) # p
  BY PairFacts DEF PeerInv, TypeOK
<1>2. /\ m_peerLinks' = [m_peerLinks EXCEPT ![p] = new]
      /\ queue' = [queue EXCEPT ![Peer(p)] = Tail(@)]
      /\ m_linksTotal' = m_linksTotal /\ dropped' = dropped
  BY DEF Ignore
<1>3. /\ Tail(queue[Peer(p)]) \in Seq(Frame) /\ Len(Tail(queue[Peer(p)])) <= MaxFrames
  BY <1>1, PeerLinkAssumption
<1>4. /\ queue' \in [Pair -> Seq(Frame)] /\ \A q \in Pair : Len(queue'[q]) <= MaxFrames
      /\ \A q \in Pair : queue'[q] = IF q = Peer(p) THEN Tail(queue[Peer(p)]) ELSE queue[q]
  BY <1>1, <1>2, <1>3
<1>5. /\ LinkFits(new) /\ (Estab(p) <=> new.state = "ESTAB")
      /\ new # NoLink => new = m_peerLinks[p]
  BY FoundFacts
<1> HIDE DEF new
<1>6. PeerInv'
  BY <1>1, <1>2, <1>4, <1>5, PeerInvKept
<1>7. Rests(p, new, TRUE)
  BY <1>1, <1>2, <1>4, <1>5 DEF Rests, LinkFits, HasLink
<1> QED
  BY <1>6, <1>7 DEF Summary

\* The next frame of the peer is a frame.
LEMMA HeadFacts ==
  ASSUME PeerInv, NEW p \in Pair, queue[Peer(p)] # << >>
  PROVE  Head(queue[Peer(p)]) \in Frame /\ Head(queue[Peer(p)]).local \in Nat
<1>1. queue[Peer(p)] \in Seq(Frame)
  BY PairFacts DEF PeerInv, TypeOK
<1>2. Head(queue[Peer(p)]) \in Frame
  BY <1>1
<1> QED
  BY <1>2 DEF Frame, LinkId

LEMMA OpenFacts ==
  ASSUME PeerInv, NEW p \in Pair, ReceiveOpen(p)
  PROVE  PeerInv' /\ Summary(p)
<1> DEFINE f == Head(queue[Peer(p)])
           found == FindPeerLink(p)
           fresh == found = NoLink
           l == IF fresh THEN InitiateLink(p[1]) ELSE found
<1>1. /\ queue[Peer(p)] # << >> /\ Initiated(p[1], fresh)
      /\ \/ Take(p, OpenAccept(l, f), "OPN_ACPT")
         \/ Take(p, OpenReject(l, f), "OPN_RJCT")
  BY DEF ReceiveOpen
<1>2. f.local \in Nat /\ TakesId(p, f.local)
  BY <1>1, HeadFacts DEF TakesId
<1>3. l \in Link /\ TimersFit(l)
  BY FoundFacts, InitiateFacts, PairFacts DEF LinkFits
<1>4. \/ HasLink(p) /\ l = m_peerLinks[p] /\ UNCHANGED m_lastLocalLinkId
      \/ /\ l.local = m_lastLocalLinkId[p[1]] /\ l.state = "IDLE" /\ l.peer = 0
         /\ found = NoLink
         /\ m_lastLocalLinkId' = [m_lastLocalLinkId EXCEPT ![p[1]] = @ + 1]
  <2>1. CASE fresh
    BY <1>1, <2>1, InitiateFacts, PairFacts DEF Initiated
  <2>2. CASE ~fresh
    <3>1. m_lastLocalLinkId' = m_lastLocalLinkId
      BY <1>1, <2>2, PairFacts DEF Initiated, PeerInv, TypeOK
    <3> QED
      BY <2>2, <3>1, FoundFacts DEF HasLink
  <2> QED
    BY <2>1, <2>2
<1> HIDE DEF l, f
<1>5. ASSUME NEW k, k = [l EXCEPT !.peer = f.local] \/ k = l
      PROVE  /\ k \in Link /\ TimersFit(k) /\ Origin(p, k, TRUE)
  <2>1. /\ k \in Link /\ k.local = l.local /\ k.state = l.state /\ k.timers = l.timers
        /\ k.peer = f.local \/ k.peer = l.peer
    BY <1>2, <1>3, <1>5 DEF Link, LinkId
  <2>2. TimersFit(k)
    BY <1>3, <2>1 DEF TimersFit
  <2> QED
    BY <1>2, <1>4, <2>1, <2>2 DEF Origin
<1>6. CASE Take(p, OpenAccept(l, f), "OPN_ACPT")
  <2> DEFINE k == OpenAccept(l, f)
  <2>1. k = [l EXCEPT !.peer = f.local] /\ k.peer = f.local
    BY <1>3 DEF OpenAccept, Link
  <2>2. "OPN_ACPT" \in Incident /\ "OPN_ACPT" # "CNF_ACPT"
    BY DEF Incident
  <2> HIDE DEF k
  <2>3. k \in Link /\ TimersFit(k) /\ Origin(p, k, TRUE)
    BY <1>5, <2>1
  <2>4. Take(p, k, "OPN_ACPT")
    BY <1>6 DEF k
  <2> QED
    BY <1>1, <1>2, <2>1, <2>2, <2>3, <2>4, TakeFacts
<1>7. CASE Take(p, OpenReject(l, f), "OPN_RJCT")
  <2> DEFINE k == OpenReject(l, f)
  <2>1. k = [l EXCEPT !.peer = f.local] \/ k = l
    BY DEF OpenReject
  <2>2. "OPN_RJCT" \in Incident /\ "OPN_RJCT" \notin {"OPN_ACPT", "CNF_ACPT"}
    BY DEF Incident, Rejects
  <2> HIDE DEF k
  <2>3. k \in Link /\ TimersFit(k) /\ Origin(p, k, TRUE)
    BY <1>5, <2>1
  <2>4. Take(p, k, "OPN_RJCT")
    BY <1>7 DEF k
  <2> QED
    BY <1>1, <2>2, <2>3, <2>4, TakeFacts
<1> QED
  BY <1>1, <1>6, <1>7 DEF l, f

\* The link that was found, with the peer's id from the frame
LEMMA AcceptedLink ==
  ASSUME PeerInv, NEW p \in Pair, FindPeerLink(p) # NoLink, queue[Peer(p)] # << >>,
         UNCHANGED m_lastLocalLinkId,
         NEW k, k = [FindPeerLink(p) EXCEPT !.peer = Head(queue[Peer(p)]).local]
  PROVE  /\ k \in Link /\ TimersFit(k) /\ Origin(p, k, TRUE) /\ TakesId(p, k.peer)
         /\ k.local = FindPeerLink(p).local
<1> DEFINE id == Head(queue[Peer(p)]).local
           l == FindPeerLink(p)
<1>1. id \in Nat
  BY HeadFacts
<1>2. l \in Link /\ TimersFit(l) /\ l = m_peerLinks[p] /\ HasLink(p)
  BY FoundFacts DEF LinkFits, HasLink
<1> HIDE DEF l
<1>3. k = [l EXCEPT !.peer = id]
  BY DEF l
<1> HIDE DEF id
<1>4. k \in Link /\ k.local = l.local /\ k.state = l.state /\ k.timers = l.timers /\ k.peer = id
  BY <1>1, <1>2, <1>3 DEF Link, LinkId
<1>5. TakesId(p, k.peer)
  BY <1>4 DEF TakesId, id
<1>6. TimersFit(k)
  BY <1>2, <1>4 DEF TimersFit
<1> QED
  BY <1>2, <1>4, <1>5, <1>6 DEF Origin, l

LEMMA ConfirmFacts ==
  ASSUME PeerInv, NEW p \in Pair, ReceiveConfirm(p)
  PROVE  PeerInv' /\ Summary(p)
<1> DEFINE f == Head(queue[Peer(p)])
           l == FindPeerLink(p)
           k == [l EXCEPT !.peer = f.local]
<1>1. queue[Peer(p)] # << >> /\ f.kind = "CONFIRM" /\ UNCHANGED m_lastLocalLinkId
  BY DEF ReceiveConfirm
<1>2. CASE l # NoLink /\ ConfirmMatches(l, f)
  <2>1. /\ k \in Link /\ TimersFit(k) /\ Origin(p, k, TRUE) /\ TakesId(p, k.peer)
        /\ k.local = l.local
    BY <1>1, <1>2, AcceptedLink
  <2>2. Take(p, k, "CNF_ACPT") /\ f.peer = l.local
    BY <1>2 DEF ReceiveConfirm, ConfirmMatches
  <2>3. "CNF_ACPT" \in Incident
    BY DEF Incident
  <2> HIDE DEF k
  <2> QED
    BY <1>1, <2>1, <2>2, <2>3, TakeFacts
<1>3. CASE ~(l # NoLink /\ ConfirmMatches(l, f))
  BY <1>1, <1>3, IgnoreFacts DEF ReceiveConfirm
<1> QED
  BY <1>2, <1>3

LEMMA CloseFacts ==
  ASSUME PeerInv, NEW p \in Pair, ReceiveClose(p)
  PROVE  PeerInv' /\ Summary(p)
<1> DEFINE f == Head(queue[Peer(p)])
           l == FindPeerLink(p)
           k == [l EXCEPT !.peer = f.local]
<1>1. queue[Peer(p)] # << >> /\ UNCHANGED m_lastLocalLinkId
  BY DEF ReceiveClose
<1>2. CASE l # NoLink /\ CloseMatches(l, f)
  <2>1. /\ k \in Link /\ TimersFit(k) /\ Origin(p, k, TRUE)
    BY <1>1, <1>2, AcceptedLink
  <2>2. Take(p, k, "CLS_ACPT")
    BY <1>2 DEF ReceiveClose
  <2>3. "CLS_ACPT" \in Incident /\ "CLS_ACPT" \notin {"OPN_ACPT", "CNF_ACPT"}
    BY DEF Incident
  <2> HIDE DEF k
  <2> QED
    BY <1>1, <2>1, <2>2, <2>3, TakeFacts
<1>3. CASE ~(l # NoLink /\ CloseMatches(l, f))
  BY <1>1, <1>3, IgnoreFacts DEF ReceiveClose
<1> QED
  BY <1>2, <1>3

LEMMA TimeoutFacts ==
  ASSUME PeerInv, NEW p \in Pair, NEW t, NEW e, Firing(m_peerLinks[p], t, e), Fires(p, t, e)
  PROVE  PeerInv' /\ Summary(p)
<1> DEFINE l == m_peerLinks[p]
           r == [l EXCEPT !.timers = @ \ {t}]
<1>1. /\ l # NoLink /\ t \in l.timers /\ UNCHANGED m_lastLocalLinkId
      /\ Apply(p, r, e) /\ Send(p, r, e)
  BY DEF Fires
<1>2. l \in Link /\ TimersFit(l)
  BY <1>1, FoundFacts DEF LinkFits
<1>3. /\ e \in Incident \cup Expiry
      /\ e = "TOR1" => r.retries < MaxRetries
      /\ r \in Link /\ r.state = l.state /\ r.local = l.local /\ r.peer = l.peer
      /\ TimersFit(StateMachine(r, e))
  BY <1>1, <1>2, ExpiryTimers
<1>4. e \notin {"OPN_ACPT", "CNF_ACPT"}
  BY DEF Firing, RetryEvent
<1> HIDE DEF r
<1>5. QueuesChange(p, r, FALSE)
  BY <1>1, <1>3, SendsFacts, SendChange DEF Send, Link
<1>6. Origin(p, r, FALSE)
  BY <1>1, <1>3 DEF Origin, HasLink
<1> QED
  BY <1>1, <1>3, <1>4, <1>5, <1>6, WorkFacts

\* A step that changes neither the number of links nor ids
LEMMA RestFacts ==
  ASSUME PeerInv, NEW p \in Pair, NEW new, LinkFits(new),
         m_peerLinks' = [m_peerLinks EXCEPT ![p] = new],
         UNCHANGED <<m_lastLocalLinkId, m_linksTotal, queue>>, dropped' \subseteq Pair,
         new = NoLink => ~Estab(p),
         new # NoLink => /\ HasLink(p) /\ new.state = m_peerLinks[p].state
                         /\ new.local = m_peerLinks[p].local /\ new.peer = m_peerLinks[p].peer
  PROVE  PeerInv' /\ Summary(p)
<1>1. /\ queue \in [Pair -> Seq(Frame)] /\ \A q \in Pair : Len(queue[q]) <= MaxFrames
      /\ m_lastLocalLinkId \in [Station -> Nat]
  BY DEF PeerInv, TypeOK
<1>2. Estab(p) <=> new.state = "ESTAB"
  BY NoLinkFacts DEF Estab
<1>3. PeerInv'
  BY <1>1, <1>2, PeerInvKept
<1>4. Rests(p, new, FALSE)
  BY <1>1 DEF Rests, LinkFits
<1> QED
  BY <1>3, <1>4 DEF Summary

LEMMA FailureFacts ==
  ASSUME PeerInv, NEW p \in Pair, TransmissionFailure(p)
  PROVE  PeerInv' /\ Summary(p)
<1> DEFINE l == FindPeerLink(p)
           failed == [l EXCEPT !.fails = @ + 1]
           k == [failed EXCEPT !.fails = 0]
<1>1. l # NoLink /\ UNCHANGED m_lastLocalLinkId
  BY DEF TransmissionFailure
<1>2. l \in Link /\ TimersFit(l) /\ l = m_peerLinks[p] /\ HasLink(p)
  BY <1>1, FoundFacts DEF LinkFits, HasLink
<1>3. CASE failed.fails = MaxPacketFail
  <2>1. Apply(p, k, "CNCL") /\ Send(p, failed, "CNCL")
    BY <1>3 DEF TransmissionFailure
  <2> HIDE DEF l
  <2>2. /\ failed.local = l.local /\ failed.peer = l.peer
        /\ failed.local \in LinkId /\ failed.peer \in LinkId
    BY <1>2 DEF Link
  <2>3. /\ k \in Link /\ k.local = l.local /\ k.peer = l.peer /\ k.state = l.state
        /\ k.timers = l.timers
    <3>1. k = [l EXCEPT !.fails = 0]
      BY <1>2 DEF Link
    <3>2. 0 \in 0 .. MaxPacketFail - 1
      BY PeerLinkAssumption
    <3> HIDE DEF k
    <3> QED
      BY <1>2, <3>1, <3>2 DEF Link
  <2>4. /\ Sends(failed, "CNCL") \in Seq(Frame)
        /\ \A i \in DOMAIN Sends(failed, "CNCL") : LinkFrame(k, Sends(failed, "CNCL")[i])
    <3> HIDE DEF failed, k
    <3>1. /\ Sends(failed, "CNCL") \in Seq(Frame)
          /\ \A i \in DOMAIN Sends(failed, "CNCL") : LinkFrame(failed, Sends(failed, "CNCL")[i])
      BY <2>2, SendsFacts
    <3> QED
      BY <2>2, <2>3, <3>1 DEF LinkFrame
  <2>5. "CNCL" \in Incident /\ "CNCL" \notin {"OPN_ACPT", "CNF_ACPT", "TOR1"}
    BY DEF Incident
  <2> HIDE DEF failed, k
  <2>6. QueuesChange(p, k, FALSE)
    BY <2>1, <2>3, <2>4, SendChange DEF Send
  <2>7. TimersFit(k)
    BY <1>2, <2>3 DEF TimersFit
  <2>8. TimersFit(StateMachine(k, "CNCL"))
    BY <2>3, <2>5, <2>7, MachineTimers
  <2>9. Origin(p, k, FALSE)
    BY <1>1, <1>2, <2>3 DEF Origin
  <2> QED
    BY <2>1, <2>3, <2>5, <2>6, <2>8, <2>9, WorkFacts
<1>4. CASE failed.fails # MaxPacketFail
  <2>1. /\ m_peerLinks' = [m_peerLinks EXCEPT ![p] = failed]
        /\ UNCHANGED <<m_linksTotal, queue, dropped>>
    BY <1>4 DEF TransmissionFailure
  <2> HIDE DEF l
  <2>2. /\ failed \in Link /\ failed.local = l.local /\ failed.peer = l.peer
        /\ failed.state = l.state /\ failed.timers = l.timers
    <3>1. l.fails \in 0 .. MaxPacketFail - 1 /\ failed.fails = l.fails + 1 /\ MaxPacketFail \in Nat
      BY <1>2, PeerLinkAssumption DEF Link
    <3>2. l.fails + 1 \in 0 .. MaxPacketFail - 1
      BY <1>4, <3>1
    <3> QED
      BY <1>2, <3>2 DEF Link
  <2> HIDE DEF failed
  <2>3. LinkFits(failed)
    BY <1>2, <2>2 DEF LinkFits, TimersFit
  <2>4. dropped' \subseteq Pair /\ failed # NoLink
    BY <2>1, <2>2, NoLinkFacts DEF PeerInv, TypeOK
  <2> QED
    BY <1>1, <1>2, <2>1, <2>2, <2>3, <2>4, RestFacts
<1> QED
  BY <1>3, <1>4

\* The link is looked for, which erases an idle one.
LEMMA LookFacts ==
  ASSUME PeerInv, NEW p \in Pair, IsActiveLink(p) \/ LateBeaconLoss(p)
  PROVE  PeerInv' /\ Summary(p)
<1>1. /\ m_peerLinks' = [m_peerLinks EXCEPT ![p] = FindPeerLink(p)]
      /\ UNCHANGED <<m_lastLocalLinkId, m_linksTotal, queue>> /\ dropped' \subseteq Pair
  BY DEF IsActiveLink, LateBeaconLoss, PeerInv, TypeOK
<1>2. /\ LinkFits(FindPeerLink(p))
      /\ FindPeerLink(p) = NoLink => ~Estab(p)
      /\ FindPeerLink(p) # NoLink => FindPeerLink(p) = m_peerLinks[p] /\ HasLink(p)
  BY FoundFacts, NoLinkFacts DEF HasLink
<1> QED
  BY <1>1, <1>2, RestFacts

\* The count of failures is reset.
LEMMA SuccessFacts ==
  ASSUME PeerInv, NEW p \in Pair, TransmissionSuccess(p)
  PROVE  PeerInv' /\ Summary(p)
<1> DEFINE l == m_peerLinks[p]
           new == [l EXCEPT !.fails = 0]
<1>1. /\ m_peerLinks' = [m_peerLinks EXCEPT ![p] = new]
      /\ UNCHANGED <<m_lastLocalLinkId, m_linksTotal, queue>> /\ dropped' \subseteq Pair
  BY DEF TransmissionSuccess, PeerInv, TypeOK
<1>2. l \in Link /\ TimersFit(l) /\ HasLink(p)
  BY FoundFacts, NoLinkFacts DEF TransmissionSuccess, LinkFits, HasLink
<1> HIDE DEF l
<1>3. /\ new \in Link /\ new.local = l.local /\ new.peer = l.peer
      /\ new.state = l.state /\ new.timers = l.timers
  <2>1. 0 \in 0 .. MaxPacketFail - 1
    BY PeerLinkAssumption
  <2> QED
    BY <1>2, <2>1 DEF Link
<1> HIDE DEF new
<1>4. LinkFits(new) /\ new # NoLink
  BY <1>2, <1>3, NoLinkFacts DEF LinkFits, TimersFit
<1> QED
  BY <1>1, <1>2, <1>3, <1>4, RestFacts DEF l

\* The MAC loses a frame: seen from its receiver, the next one is gone.
LEMMA LoseFacts ==
  ASSUME PeerInv, NEW p \in Pair, Lose(p)
  PROVE  PeerInv' /\ Summary(Peer(p))
<1> DEFINE q == Peer(p)
<1>1. /\ queue \in [Pair -> Seq(Frame)] /\ \A o \in Pair : Len(queue[o]) <= MaxFrames
      /\ m_lastLocalLinkId \in [Station -> Nat] /\ dropped \subseteq Pair
      /\ m_peerLinks \in [Pair -> Link \cup {NoLink}]
      /\ q \in Pair /\ Peer(q) = p
  BY PairFacts DEF PeerInv, TypeOK
<1>2. /\ queue[p] # << >> /\ queue' = [queue EXCEPT ![p] = Tail(@)]
      /\ UNCHANGED <<m_peerLinks, m_lastLocalLinkId, m_linksTotal, dropped>>
  BY DEF Lose
<1>3. Tail(queue[p]) \in Seq(Frame) /\ Len(Tail(queue[p])) <= MaxFrames
  BY <1>1, <1>2, PeerLinkAssumption
<1>4. /\ queue' \in [Pair -> Seq(Frame)] /\ \A o \in Pair : Len(queue'[o]) <= MaxFrames
      /\ \A o \in Pair : queue'[o] = IF o = p THEN Tail(queue[p]) ELSE queue[o]
  BY <1>1, <1>2, <1>3
<1>5. PeerInv'
  BY <1>1, <1>2, <1>4 DEF PeerInv, TypeOK, TimersMatchState, LinksCounted, Estab
<1>6. m_peerLinks' = [m_peerLinks EXCEPT ![q] = m_peerLinks[q]]
  BY <1>1, <1>2
<1>7. Rests(q, m_peerLinks[q], TRUE)
  BY <1>1, <1>2, <1>4, <1>6 DEF Rests, HasLink
<1> QED
  BY <1>5, <1>7 DEF Summary

\* Every step keeps types, timers and the count of links, and does to the ids
\* what Summary says.
LEMMA PeerStep ==
  ASSUME PeerInv, Next
  PROVE  PeerInv' /\ \E p \in Pair : Summary(p)
<1>1. PICK p \in Pair :
        \/ ReceiveBeacon(p) \/ ReceiveOpen(p) \/ ReceiveConfirm(p) \/ ReceiveClose(p)
        \/ IsActiveLink(p) \/ TransmissionFailure(p) \/ TransmissionSuccess(p)
        \/ RetryTimeout(p) \/ ConfirmTimeout(p) \/ HoldingTimeout(p) \/ BeaconLoss(p)
        \/ LateBeaconLoss(p) \/ Lose(p)
  BY DEF Next
<1>2. CASE RetryTimeout(p) \/ ConfirmTimeout(p) \/ HoldingTimeout(p) \/ BeaconLoss(p)
  BY <1>2, TimeoutFacts DEF RetryTimeout, ConfirmTimeout, HoldingTimeout, BeaconLoss, Firing
<1>3. CASE Lose(p)
  BY <1>3, LoseFacts, PairFacts
<1> QED
  BY <1>1, <1>2, <1>3, BeaconFacts, OpenFacts, ConfirmFacts, CloseFacts, LookFacts, FailureFacts,
     SuccessFacts

LEMMA PeerInit == Init => PeerInv
<1> SUFFICES ASSUME Init PROVE PeerInv
  OBVIOUS
<1>1. TypeOK
  <2>1. Cardinality(Station) \in Nat
    BY PeerLinkAssumption, FS_CardinalityType
  <2>2. m_linksTotal \in [Station -> 0 .. Cardinality(Station)]
    BY <2>1 DEF Init
  <2> QED
    BY <2>2, PeerLinkAssumption DEF Init, TypeOK
<1>2. TimersMatchState
  BY DEF Init, TimersMatchState
<1>3. LinksCounted
  <2>1. \A s \in Station : {p \in Pair : p[1] = s /\ Estab(p)} = {}
    BY NoLinkFacts DEF Init, Estab
  <2> QED
    BY <2>1, FS_EmptySet DEF Init, LinksCounted
<1> QED
  BY <1>1, <1>2, <1>3 DEF PeerInv

LEMMA PeerNext == PeerInv /\ [Next]_vars => PeerInv'
<1>1. PeerInv /\ UNCHANGED vars => PeerInv'
  BY DEF PeerInv, TypeOK, TimersMatchState, LinksCounted, Estab, vars
<1> QED
  BY <1>1, PeerStep

(* The members keep their types: no retry beyond MaxRetries, and failures  *)
(* are reset before they reach MaxPacketFail.                              *)
THEOREM LinkTypes == Spec => []TypeOK
<1>1. PeerInv => TypeOK
  BY DEF PeerInv
<1> QED
  BY <1>1, PeerInit, PeerNext, PTL DEF Spec

(* Every link keeps the timers of its state and no other, whatever frames  *)
(* and timeouts meet it: StateMachine clears and sets them one by one.     *)
THEOREM TimersFitStates == Spec => []TimersMatchState
<1>1. PeerInv => TimersMatchState
  BY DEF PeerInv
<1> QED
  BY <1>1, PeerInit, PeerNext, PTL DEF Spec

(* The counter that admits links is the number of established ones,        *)
(* although PeerLinkStatus only adds and subtracts one at transitions.     *)
THEOREM CountIsExact == Spec => []LinksCounted
<1>1. PeerInv => LinksCounted
  BY DEF PeerInv
<1> QED
  BY <1>1, PeerInit, PeerNext, PTL DEF Spec

-------------------------------------------------------------------------------
(* The ids of links *)

InQueue(s) == {s[i] : i \in DOMAIN s}
KnowsId(l, t, id) ==
  /\ l # NoLink => l.peer = 0 \/ l.peer >= id
  /\ \A f \in InQueue(t) : f.local >= id

(* IdsInv for one pair of stations: their last ids are n and m, their      *)
(* links to each other l and k, and the frames under way s and t.          *)
Issued(n, m, l, k, s, t) ==
  /\ n >= 1
  /\ l # NoLink =>
       /\ 1 <= l.local /\ l.local < n /\ l.peer < m
       /\ \A f \in InQueue(s) : f.local <= l.local
       /\ \A f \in InQueue(t) : f.peer <= l.local
       /\ k # NoLink => k.peer <= l.local
  /\ \A f \in InQueue(s) : 1 <= f.local /\ f.local < n /\ f.peer < m
Ascends(s) == \A i, j \in DOMAIN s : i < j => s[i].local <= s[j].local
Grows(l, s, t) ==
  /\ Ascends(s)
  /\ l # NoLink => \A f \in InQueue(t) : f.local >= l.peer
Known(l, k, s, t) ==
  /\ \A f \in InQueue(s) : f.kind = "CONFIRM" => KnowsId(l, t, f.peer)
  /\ k.state \in Confirmed => KnowsId(l, t, k.local)
  /\ l.state \in Opened => l.peer # 0
PairIds(n, m, l, k, s, t) == Issued(n, m, l, k, s, t) /\ Grows(l, s, t) /\ Known(l, k, s, t)

LEMMA IdsByPair ==
  IdsInv <=> \A p \in Pair : PairIds(m_lastLocalLinkId[p[1]], m_lastLocalLinkId[p[2]], m_peerLinks[p],
                                     m_peerLinks[Peer(p)], queue[p], queue[Peer(p)])
<1>1. IdsIssued <=> \A p \in Pair : Issued(m_lastLocalLinkId[p[1]], m_lastLocalLinkId[p[2]], m_peerLinks[p],
                                           m_peerLinks[Peer(p)], queue[p], queue[Peer(p)])
  BY DEF IdsIssued, Issued, Frames, InQueue, HasLink
<1>2. IdsGrow <=> \A p \in Pair : Grows(m_peerLinks[p], queue[p], queue[Peer(p)])
  BY DEF IdsGrow, Grows, Ascends, Frames, InQueue, HasLink
<1>3. ConfirmsKnown <=> \A p \in Pair : Known(m_peerLinks[p], m_peerLinks[Peer(p)], queue[p], queue[Peer(p)])
  BY DEF ConfirmsKnown, Known, Knows, KnowsId, Confirmed, Opened, Frames, InQueue, HasLink
<1> QED
  BY <1>1, <1>2, <1>3 DEF IdsInv, PairIds

LEMMA IdsByPairNext ==
  IdsInv' <=> \A p \in Pair : PairIds(m_lastLocalLinkId'[p[1]], m_lastLocalLinkId'[p[2]], m_peerLinks'[p],
                                      m_peerLinks'[Peer(p)], queue'[p], queue'[Peer(p)])
<1>1. IdsIssued' <=> \A p \in Pair : Issued(m_lastLocalLinkId'[p[1]], m_lastLocalLinkId'[p[2]], m_peerLinks'[p],
                                            m_peerLinks'[Peer(p)], queue'[p], queue'[Peer(p)])
  BY DEF IdsIssued, Issued, Frames, InQueue, HasLink, Peer
<1>2. IdsGrow' <=> \A p \in Pair : Grows(m_peerLinks'[p], queue'[p], queue'[Peer(p)])
  BY DEF IdsGrow, Grows, Ascends, Frames, InQueue, HasLink, Peer
<1>3. ConfirmsKnown' <=> \A p \in Pair : Known(m_peerLinks'[p], m_peerLinks'[Peer(p)], queue'[p], queue'[Peer(p)])
  BY DEF ConfirmsKnown, Known, Knows, KnowsId, Confirmed, Opened, Frames, InQueue, HasLink, Peer
<1> QED
  BY <1>1, <1>2, <1>3 DEF IdsInv, PairIds

LEMMA QueueTypes ==
  ASSUME NEW s \in Seq(Frame), NEW f \in InQueue(s)
  PROVE  f \in Frame /\ f.local \in Nat /\ f.peer \in Nat
<1>1. PICK i \in DOMAIN s : f = s[i]
  BY DEF InQueue
<1>2. f \in Frame
  BY <1>1
<1> QED
  BY <1>2 DEF Frame, LinkId

\* A station gives an id to another link: the pair does not notice.
LEMMA LaterIds ==
  ASSUME NEW n \in Nat, NEW m \in Nat, NEW n2 \in Nat, NEW m2 \in Nat, n <= n2, m <= m2,
         NEW l \in Link \cup {NoLink}, NEW k \in Link \cup {NoLink}, NEW s \in Seq(Frame), NEW t \in Seq(Frame),
         PairIds(n, m, l, k, s, t)
  PROVE  PairIds(n2, m2, l, k, s, t)
<1>1. \A f \in InQueue(s) : f.local \in Nat /\ f.peer \in Nat
  BY QueueTypes
<1>2. l # NoLink => l.local \in Nat /\ l.peer \in Nat
  BY DEF Link, LinkId
<1>3. Issued(n2, m2, l, k, s, t)
  BY <1>1, <1>2 DEF PairIds, Issued
<1> QED
  BY <1>3 DEF PairIds

(* One end goes from the link l to the link new, which has the ids a and   *)
(* b, and sends frames of that link.                                       *)
IdStep(n, m, n2, l, new, k, s, s2, t, t2, a, b) ==
  /\ a \in Nat /\ b \in Nat /\ n <= n2
  /\ new # NoLink => new.local = a /\ new.peer = b
  /\ InQueue(t2) \subseteq InQueue(t) /\ Ascends(t2) /\ Ascends(s2)
  /\ \A f \in InQueue(s2) :
       \/ f \in InQueue(s)
       \/ f.local = a /\ f.peer \in {0, b} /\ (f.kind = "CONFIRM" => f.peer = b)
  /\ \/ 1 <= a /\ a < n2 /\ b < m
     \/ new = NoLink /\ InQueue(s2) \subseteq InQueue(s)
  /\ \A f \in InQueue(s) : f.local <= a
  /\ \A f \in InQueue(t) : f.peer <= a
  /\ k # NoLink => k.peer <= a /\ b <= k.local
  /\ \A f \in InQueue(t2) : f.local >= b
  /\ \A id \in Nat : KnowsId(l, t, id) => b = 0 \/ b >= id \/ new = NoLink
  /\ new.state \in Confirmed => KnowsId(k, s, a)
  /\ new.state \in Opened => b # 0

\* What the end that takes the step sees afterwards
LEMMA NearEnd ==
  ASSUME NEW n \in Nat, NEW m \in Nat, NEW n2 \in Nat, NEW a, NEW b,
         NEW l \in Link \cup {NoLink}, NEW k \in Link \cup {NoLink}, NEW new \in Link \cup {NoLink},
         NEW s \in Seq(Frame), NEW t \in Seq(Frame), NEW s2 \in Seq(Frame), NEW t2 \in Seq(Frame),
         PairIds(n, m, l, k, s, t), PairIds(m, n, k, l, t, s),
         IdStep(n, m, n2, l, new, k, s, s2, t, t2, a, b)
  PROVE  PairIds(n2, m, new, k, s2, t2)
<1>1. /\ \A f \in InQueue(s) \cup InQueue(t) \cup InQueue(s2) : f.local \in Nat /\ f.peer \in Nat
      /\ k # NoLink => k.local \in Nat /\ k.peer \in Nat
      /\ k.state \in Confirmed => k # NoLink
      /\ new.state \in Opened => new # NoLink
      /\ a \in Nat /\ b \in Nat
  BY QueueTypes, NoLinkFacts DEF Link, LinkId, Confirmed, Opened, IdStep
<1>2. Issued(n2, m, new, k, s2, t2)
  <2>1. n2 >= 1
    BY DEF PairIds, Issued, IdStep
  <2>2. ASSUME new # NoLink
        PROVE  /\ 1 <= new.local /\ new.local < n2 /\ new.peer < m
               /\ \A f \in InQueue(s2) : f.local <= new.local
               /\ \A f \in InQueue(t2) : f.peer <= new.local
               /\ k # NoLink => k.peer <= new.local
    BY <1>1, <2>2 DEF IdStep
  <2>3. ASSUME NEW f \in InQueue(s2)
        PROVE  1 <= f.local /\ f.local < n2 /\ f.peer < m
    BY <1>1, <2>3, SMTT(30) DEF IdStep, PairIds, Issued
  <2> QED
    BY <2>1, <2>2, <2>3 DEF Issued
<1>3. Grows(new, s2, t2)
  BY <1>1 DEF IdStep, Grows
<1>4. ASSUME NEW id \in Nat, KnowsId(l, t, id)
      PROVE  KnowsId(new, t2, id)
  BY <1>1, <1>4 DEF IdStep, KnowsId
<1>5. KnowsId(new, t2, b)
  BY <1>1 DEF IdStep, KnowsId
<1>6. Known(new, k, s2, t2)
  <2>1. ASSUME NEW f \in InQueue(s2), f.kind = "CONFIRM"
        PROVE  KnowsId(new, t2, f.peer)
    BY <1>1, <1>4, <1>5, <2>1 DEF IdStep, PairIds, Known
  <2>2. k.state \in Confirmed => KnowsId(new, t2, k.local)
    BY <1>1, <1>4 DEF PairIds, Known
  <2>3. new.state \in Opened => new.peer # 0
    BY <1>1 DEF IdStep
  <2> QED
    BY <2>1, <2>2, <2>3 DEF Known
<1> QED
  BY <1>2, <1>3, <1>6 DEF PairIds

\* What the other end sees
LEMMA FarEnd ==
  ASSUME NEW n \in Nat, NEW m \in Nat, NEW n2 \in Nat, NEW a, NEW b,
         NEW l \in Link \cup {NoLink}, NEW k \in Link \cup {NoLink}, NEW new \in Link \cup {NoLink},
         NEW s \in Seq(Frame), NEW t \in Seq(Frame), NEW s2 \in Seq(Frame), NEW t2 \in Seq(Frame),
         PairIds(n, m, l, k, s, t), PairIds(m, n, k, l, t, s),
         IdStep(n, m, n2, l, new, k, s, s2, t, t2, a, b)
  PROVE  PairIds(m, n2, k, new, t2, s2)
<1>1. /\ \A f \in InQueue(s) \cup InQueue(t) \cup InQueue(s2) : f.local \in Nat /\ f.peer \in Nat
      /\ k # NoLink => k.local \in Nat /\ k.peer \in Nat
      /\ new.state \in Opened => new # NoLink
      /\ new.state \in Confirmed => new # NoLink
      /\ a \in Nat /\ b \in Nat
  BY QueueTypes, NoLinkFacts DEF Link, LinkId, Confirmed, Opened, IdStep
<1>2. Issued(m, n2, k, new, t2, s2)
  <2>1. m >= 1 /\ n <= n2
    BY DEF PairIds, Issued, IdStep
  <2>2. ASSUME k # NoLink
        PROVE  /\ 1 <= k.local /\ k.local < m /\ k.peer < n2
               /\ \A f \in InQueue(t2) : f.local <= k.local
               /\ \A f \in InQueue(s2) : f.peer <= k.local
               /\ new # NoLink => new.peer <= k.local
    <3>1. 1 <= k.local /\ k.local < m /\ k.peer < n2
      BY <1>1, <2>1, <2>2 DEF PairIds, Issued
    <3>2. \A f \in InQueue(t2) : f.local <= k.local
      BY <2>2 DEF IdStep, PairIds, Issued
    <3>3. ASSUME NEW f \in InQueue(s2)
          PROVE  f.peer <= k.local
      <4>1. CASE f \in InQueue(s)
        BY <2>2, <4>1 DEF PairIds, Issued
      <4>2. CASE f \notin InQueue(s)
        <5>1. f.peer \in {0, b} /\ b <= k.local
          BY <2>2, <4>2 DEF IdStep
        <5> QED
          BY <1>1, <2>2, <5>1
      <4> QED
        BY <4>1, <4>2
    <3>4. new # NoLink => new.peer <= k.local
      BY <2>2 DEF IdStep
    <3> QED
      BY <3>1, <3>2, <3>3, <3>4
  <2>3. ASSUME NEW f \in InQueue(t2)
        PROVE  1 <= f.local /\ f.local < m /\ f.peer < n2
    BY <1>1, <2>1, <2>3 DEF IdStep, PairIds, Issued
  <2> QED
    BY <2>1, <2>2, <2>3 DEF Issued
<1>3. Grows(k, t2, s2)
  <2>1. ASSUME k # NoLink, NEW f \in InQueue(s2)
        PROVE  f.local >= k.peer
    BY <1>1, <2>1 DEF IdStep, PairIds, Grows
  <2> QED
    BY <2>1 DEF IdStep, Grows
<1>4. ASSUME NEW id \in Nat, KnowsId(k, s, id), id <= a
      PROVE  KnowsId(k, s2, id)
  BY <1>1, <1>4 DEF IdStep, KnowsId
<1>5. Known(k, new, t2, s2)
  <2>1. ASSUME NEW f \in InQueue(t2), f.kind = "CONFIRM"
        PROVE  KnowsId(k, s2, f.peer)
    BY <1>1, <1>4, <2>1 DEF IdStep, PairIds, Known
  <2>2. new.state \in Confirmed => KnowsId(k, s2, new.local)
    BY <1>1, <1>4 DEF IdStep
  <2>3. k.state \in Opened => k.peer # 0
    BY DEF PairIds, Known
  <2> QED
    BY <2>1, <2>2, <2>3 DEF Known
<1> QED
  BY <1>2, <1>3, <1>5 DEF PairIds

\* A frame taken from a queue, and the frames that stay
LEMMA TakenFrame ==
  ASSUME NEW t \in Seq(Frame), NEW t2 \in Seq(Frame), NEW taken \in BOOLEAN, Ascends(t),
         taken => t # << >>, t2 = IF taken THEN Tail(t) ELSE t
  PROVE  /\ InQueue(t2) \subseteq InQueue(t) /\ Ascends(t2)
         /\ taken => /\ Head(t) \in InQueue(t)
                     /\ \A f \in InQueue(t2) : f.local >= Head(t).local
<1>1. CASE taken
  <2>1. /\ t2 = Tail(t) /\ Len(t2) = Len(t) - 1 /\ Len(t) >= 1
        /\ \A i \in 1 .. Len(t2) : t2[i] = t[i + 1] /\ i + 1 \in 1 .. Len(t)
        /\ Head(t) = t[1] /\ 1 \in 1 .. Len(t)
    BY <1>1
  <2>2. \A i \in 1 .. Len(t) : t[i].local \in Nat
    BY QueueTypes DEF InQueue
  <2>3. InQueue(t2) \subseteq InQueue(t) /\ Head(t) \in InQueue(t)
    BY <2>1 DEF InQueue
  <2>4. ASSUME NEW i \in 1 .. Len(t2), NEW j \in 1 .. Len(t2), i < j
        PROVE  t2[i].local <= t2[j].local
    <3>1. /\ i + 1 \in DOMAIN t /\ j + 1 \in DOMAIN t /\ i + 1 < j + 1
          /\ t2[i] = t[i + 1] /\ t2[j] = t[j + 1]
      BY <2>1, <2>4
    <3> QED
      BY <3>1 DEF Ascends
  <2>5. ASSUME NEW i \in 1 .. Len(t2)
        PROVE  t2[i].local >= Head(t).local
    <3>1. i + 1 \in DOMAIN t /\ 1 \in DOMAIN t /\ 1 < i + 1 /\ t2[i] = t[i + 1] /\ Head(t) = t[1]
      BY <2>1
    <3>2. t[1].local <= t[i + 1].local
      BY <3>1 DEF Ascends
    <3> QED
      BY <2>2, <3>1, <3>2
  <2>6. DOMAIN t2 = 1 .. Len(t2)
    OBVIOUS
  <2> QED
    BY <1>1, <2>3, <2>4, <2>5, <2>6 DEF InQueue, Ascends
<1> QED
  BY <1>1

\* Frames sent for a link stand behind those sent before.
LEMMA SentFrames ==
  ASSUME NEW s \in Seq(Frame), NEW s2 \in Seq(Frame), NEW l \in Link, Ascends(s),
         \A f \in InQueue(s) : f.local <= l.local, Extends(s, s2, l)
  PROVE  /\ Ascends(s2)
         /\ \A f \in InQueue(s2) : f \in InQueue(s) \/ LinkFrame(l, f)
<1>1. l.local \in Nat
  BY DEF Link, LinkId
<1>2. \A f \in InQueue(s2) : f \in InQueue(s) \/ LinkFrame(l, f)
  BY DEF InQueue, Extends
<1>3. ASSUME NEW i \in DOMAIN s2, NEW j \in DOMAIN s2, i < j
      PROVE  s2[i].local <= s2[j].local
  <2>1. CASE j \in DOMAIN s /\ s2[j] = s[j]
    <3>1. i \in DOMAIN s /\ s2[i] = s[i]
      BY <1>3, <2>1 DEF Extends
    <3> QED
      BY <1>3, <2>1, <3>1 DEF Ascends
  <2>2. CASE LinkFrame(l, s2[j])
    <3>1. s2[i] \in InQueue(s) \/ LinkFrame(l, s2[i])
      BY <1>2 DEF InQueue
    <3> QED
      BY <1>1, <2>2, <3>1 DEF LinkFrame
  <2> QED
    BY <2>1, <2>2 DEF Extends
<1> QED
  BY <1>2, <1>3 DEF Ascends

\* IdsInv for p and for its peer, with the types of what it speaks of
LEMMA BothEnds ==
  ASSUME PeerInv, IdsInv, NEW p \in Pair
  PROVE  /\ PairIds(m_lastLocalLinkId[p[1]], m_lastLocalLinkId[p[2]], m_peerLinks[p],
                    m_peerLinks[Peer(p)], queue[p], queue[Peer(p)])
         /\ PairIds(m_lastLocalLinkId[p[2]], m_lastLocalLinkId[p[1]], m_peerLinks[Peer(p)],
                    m_peerLinks[p], queue[Peer(p)], queue[p])
         /\ m_lastLocalLinkId[p[1]] \in Nat /\ m_lastLocalLinkId[p[2]] \in Nat
         /\ m_peerLinks[p] \in Link \cup {NoLink} /\ m_peerLinks[Peer(p)] \in Link \cup {NoLink}
         /\ queue[p] \in Seq(Frame) /\ queue[Peer(p)] \in Seq(Frame)
<1>1. /\ p[1] \in Station /\ p[2] \in Station /\ Peer(p) \in Pair /\ Peer(Peer(p)) = p
      /\ Peer(p)[1] = p[2] /\ Peer(p)[2] = p[1]
  BY PairFacts
<1>2. PairIds(m_lastLocalLinkId[Peer(p)[1]], m_lastLocalLinkId[Peer(p)[2]], m_peerLinks[Peer(p)],
              m_peerLinks[Peer(Peer(p))], queue[Peer(p)], queue[Peer(Peer(p))])
  BY <1>1, IdsByPair
<1>3. PairIds(m_lastLocalLinkId[p[1]], m_lastLocalLinkId[p[2]], m_peerLinks[p],
              m_peerLinks[Peer(p)], queue[p], queue[Peer(p)])
  BY IdsByPair
<1> QED
  BY <1>1, <1>2, <1>3 DEF PeerInv, TypeOK

\* Works, as it is seen by the two ends
LEMMA WorksIds ==
  ASSUME PeerInv, IdsInv, NEW p \in Pair, NEW w, NEW new, NEW taken \in BOOLEAN, Works(p, w, new, taken)
  PROVE  IdStep(m_lastLocalLinkId[p[1]], m_lastLocalLinkId[p[2]], m_lastLocalLinkId'[p[1]],
                m_peerLinks[p], new, m_peerLinks[Peer(p)], queue[p], queue'[p], queue[Peer(p)],
                queue'[Peer(p)], w.local, w.peer)
<1> DEFINE n == m_lastLocalLinkId[p[1]]
           m == m_lastLocalLinkId[p[2]]
           n2 == m_lastLocalLinkId'[p[1]]
           l == m_peerLinks[p]
           k == m_peerLinks[Peer(p)]
           s == queue[p]
           t == queue[Peer(p)]
           s2 == queue'[p]
           t2 == queue'[Peer(p)]
           a == w.local
           b == w.peer
<1>1. /\ PairIds(n, m, l, k, s, t) /\ PairIds(m, n, k, l, t, s)
      /\ n \in Nat /\ m \in Nat /\ l \in Link \cup {NoLink} /\ k \in Link \cup {NoLink}
      /\ s \in Seq(Frame) /\ t \in Seq(Frame)
  BY BothEnds
<1>2. /\ s2 \in Seq(Frame) /\ t2 \in Seq(Frame) /\ Extends(s, s2, w)
      /\ taken => t # << >>
      /\ t2 = IF taken THEN Tail(t) ELSE t
  BY PairFacts DEF Works, QueuesChange
<1>3. /\ w \in Link
      /\ new = NoLink \/ (new.local = a /\ new.peer = b)
  BY DEF Works
<1>4. \/ /\ l # NoLink /\ a = l.local /\ n2 = n
         /\ b = l.peer \/ (taken /\ b = Head(t).local)
      \/ /\ a = n /\ n2 = n + 1
         /\ b = 0 \/ (taken /\ b = Head(t).local)
  <2>1. m_lastLocalLinkId \in [Station -> Nat] /\ p[1] \in Station
    BY PairFacts DEF PeerInv, TypeOK
  <2> QED
    BY <2>1 DEF Works, HasLink, TakesId
<1>5. new.state \in Confirmed =>
       \/ l # NoLink /\ l.state \in Confirmed /\ a = l.local
       \/ taken /\ Head(t).kind = "CONFIRM" /\ Head(t).peer = a
  <2>1. m_lastLocalLinkId \in [Station -> Nat] /\ p[1] \in Station
    BY PairFacts DEF PeerInv, TypeOK
  <2>2. m_lastLocalLinkId' = m_lastLocalLinkId => a = l.local
    BY <2>1 DEF Works
  <2> QED
    BY <2>2 DEF Works, HasLink
<1>6. new.state \in Opened =>
       \/ taken /\ b = Head(t).local
       \/ l # NoLink /\ l.state \in Opened /\ b = l.peer
  BY DEF Works, HasLink, TakesId
<1>7. /\ a \in Nat /\ b \in Nat
      /\ \A f \in InQueue(s) \cup InQueue(t) : f.local \in Nat /\ f.peer \in Nat
      /\ l # NoLink => l.local \in Nat /\ l.peer \in Nat
      /\ k # NoLink => k.local \in Nat /\ k.peer \in Nat
  BY <1>1, <1>3, QueueTypes DEF Link, LinkId
<1> HIDE DEF n, m, n2, l, k, s, t, s2, t2, a, b
<1>8. /\ InQueue(t2) \subseteq InQueue(t) /\ Ascends(t2)
      /\ taken => Head(t) \in InQueue(t) /\ \A f \in InQueue(t2) : f.local >= Head(t).local
  BY <1>1, <1>2, TakenFrame DEF PairIds, Grows
<1>9. 1 <= a /\ a < n2 /\ n <= n2
  BY <1>1, <1>4, <1>7 DEF PairIds, Issued
<1>10. /\ b < m
       /\ k # NoLink => b <= k.local
  <2>1. /\ l # NoLink => l.peer < m /\ (k # NoLink => l.peer <= k.local)
        /\ m >= 1 /\ (k # NoLink => 1 <= k.local)
        /\ \A f \in InQueue(t) : f.local < m /\ (k # NoLink => f.local <= k.local)
    BY <1>1 DEF PairIds, Issued
  <2> QED
    BY <1>1, <1>4, <1>7, <1>8, <2>1
<1>11. \A f \in InQueue(s) : f.local <= a
  BY <1>1, <1>4, <1>7 DEF PairIds, Issued
<1>12. \A f \in InQueue(t) : f.peer <= a
  BY <1>1, <1>4, <1>7 DEF PairIds, Issued
<1>13. k # NoLink => k.peer <= a
  BY <1>1, <1>4, <1>7 DEF PairIds, Issued
<1>14. \A f \in InQueue(t2) : f.local >= b
  <2>1. l # NoLink => \A f \in InQueue(t) : f.local >= l.peer
    BY <1>1 DEF PairIds, Grows
  <2> QED
    BY <1>4, <1>7, <1>8, <2>1
<1>15. ASSUME NEW id \in Nat, KnowsId(l, t, id)
       PROVE  b = 0 \/ b >= id
  BY <1>4, <1>8, <1>15 DEF KnowsId
<1>16. new.state \in Confirmed => KnowsId(k, s, a)
  BY <1>1, <1>5, <1>8 DEF PairIds, Known
<1>17. new.state \in Opened => b # 0
  <2>1. /\ \A f \in InQueue(t) : 1 <= f.local
        /\ l.state \in Opened => l.peer # 0
    BY <1>1 DEF PairIds, Known, Issued
  <2> QED
    BY <1>6, <1>7, <1>8, <2>1
<1>18. /\ Ascends(s2)
       /\ \A f \in InQueue(s2) :
            \/ f \in InQueue(s)
            \/ f.local = a /\ f.peer \in {0, b} /\ (f.kind = "CONFIRM" => f.peer = b)
  <2>1. Ascends(s) /\ \A f \in InQueue(s) : f.local <= w.local
    BY <1>1, <1>11 DEF PairIds, Grows, a
  <2>2. Ascends(s2) /\ \A f \in InQueue(s2) : f \in InQueue(s) \/ LinkFrame(w, f)
    BY <1>1, <1>2, <1>3, <2>1, SentFrames
  <2> QED
    BY <2>2 DEF LinkFrame, a, b
<1>19. IdStep(n, m, n2, l, new, k, s, s2, t, t2, a, b)
  BY <1>3, <1>7, <1>8, <1>9, <1>10, <1>11, <1>12, <1>13, <1>14, <1>15, <1>16, <1>17, <1>18 DEF IdStep
<1> QED
  BY <1>19 DEF n, m, n2, l, k, s, t, s2, t2, a, b

\* Rests, in the same way: with the ids of the link, or any if there is none
LEMMA RestsIds ==
  ASSUME PeerInv, IdsInv, NEW p \in Pair, NEW new, NEW taken \in BOOLEAN, Rests(p, new, taken)
  PROVE  \E a, b : IdStep(m_lastLocalLinkId[p[1]], m_lastLocalLinkId[p[2]], m_lastLocalLinkId'[p[1]],
                          m_peerLinks[p], new, m_peerLinks[Peer(p)], queue[p], queue'[p],
                          queue[Peer(p)], queue'[Peer(p)], a, b)
<1> DEFINE n == m_lastLocalLinkId[p[1]]
           m == m_lastLocalLinkId[p[2]]
           l == m_peerLinks[p]
           k == m_peerLinks[Peer(p)]
           s == queue[p]
           t == queue[Peer(p)]
           t2 == queue'[Peer(p)]
           a == IF l = NoLink THEN n ELSE l.local
           b == IF l = NoLink THEN 0 ELSE l.peer
<1>1. /\ PairIds(n, m, l, k, s, t) /\ PairIds(m, n, k, l, t, s)
      /\ n \in Nat /\ m \in Nat /\ l \in Link \cup {NoLink} /\ k \in Link \cup {NoLink}
      /\ s \in Seq(Frame) /\ t \in Seq(Frame)
  BY BothEnds
<1>2. /\ t2 \in Seq(Frame) /\ queue'[p] = s /\ m_lastLocalLinkId'[p[1]] = n
      /\ taken => t # << >>
      /\ t2 = IF taken THEN Tail(t) ELSE t
  BY PairFacts DEF Rests
<1>3. \/ new = NoLink
      \/ /\ l # NoLink /\ new.local = l.local /\ new.peer = l.peer /\ new.state = l.state
  BY DEF Rests, HasLink
<1>4. /\ \A f \in InQueue(s) \cup InQueue(t) : f.local \in Nat /\ f.peer \in Nat
      /\ l # NoLink => l.local \in Nat /\ l.peer \in Nat
      /\ k # NoLink => k.local \in Nat /\ k.peer \in Nat
      /\ NoLink.state \notin Confirmed \cup Opened
  BY <1>1, QueueTypes, NoLinkFacts DEF Link, LinkId, Confirmed, Opened
<1> HIDE DEF n, m, l, k, s, t, t2
<1>5. /\ InQueue(t2) \subseteq InQueue(t) /\ Ascends(t2) /\ Ascends(s)
  BY <1>1, <1>2, TakenFrame DEF PairIds, Grows
<1>6. a \in Nat /\ b \in Nat
  BY <1>1, <1>4
<1>7. /\ \A f \in InQueue(s) : f.local <= a
      /\ \A f \in InQueue(t) : f.peer <= a
      /\ k # NoLink => k.peer <= a /\ b <= k.local
  BY <1>1, <1>4 DEF PairIds, Issued
<1>8. \A f \in InQueue(t2) : f.local >= b
  BY <1>1, <1>4, <1>5 DEF PairIds, Grows
<1>9. (1 <= a /\ a < n /\ b < m) \/ new = NoLink
  BY <1>1, <1>3 DEF PairIds, Issued
<1>10. ASSUME NEW id \in Nat, KnowsId(l, t, id)
       PROVE  b = 0 \/ b >= id \/ new = NoLink
  BY <1>3, <1>10 DEF KnowsId
<1>11. /\ new.state \in Confirmed => KnowsId(k, s, a)
       /\ new.state \in Opened => b # 0
  BY <1>1, <1>3, <1>4 DEF PairIds, Known
<1>12. new # NoLink => new.local = a /\ new.peer = b
  BY <1>3
<1> HIDE DEF a, b
<1>13. IdStep(n, m, n, l, new, k, s, s, t, t2, a, b)
  BY <1>1, <1>5, <1>6, <1>7, <1>8, <1>9, <1>10, <1>11, <1>12 DEF IdStep
<1> QED
  BY <1>2, <1>13 DEF n, m, l, k, s, t, t2

\* What a step of p leaves alone
LEMMA Elsewhere ==
  ASSUME PeerInv, NEW p \in Pair, NEW new, NEW taken \in BOOLEAN,
         Rests(p, new, taken) \/ \E w : Works(p, w, new, taken)
  PROVE  /\ \A r \in Pair : m_peerLinks'[r] = IF r = p THEN new ELSE m_peerLinks[r]
         /\ \A r \in Pair : r = p \/ r = Peer(p) \/ queue'[r] = queue[r]
         /\ \A s \in Station : m_lastLocalLinkId'[s] >= m_lastLocalLinkId[s]
         /\ \A s \in Station : s = p[1] \/ m_lastLocalLinkId'[s] = m_lastLocalLinkId[s]
<1>1. /\ m_peerLinks \in [Pair -> Link \cup {NoLink}] /\ m_lastLocalLinkId \in [Station -> Nat]
      /\ p[1] \in Station
  BY PairFacts DEF PeerInv, TypeOK
<1>2. m_peerLinks' = [m_peerLinks EXCEPT ![p] = new]
  BY DEF Rests, Works
<1>3. \A r \in Pair : r = p \/ r = Peer(p) \/ queue'[r] = queue[r]
  BY DEF Rests, Works, QueuesChange
<1>4. \/ m_lastLocalLinkId' = m_lastLocalLinkId
      \/ m_lastLocalLinkId' = [m_lastLocalLinkId EXCEPT ![p[1]] = @ + 1]
  BY DEF Rests, Works
<1> QED
  BY <1>1, <1>2, <1>3, <1>4

\* Every step keeps the order of the ids.
LEMMA IdsStep ==
  ASSUME PeerInv, IdsInv, Next
  PROVE  IdsInv'
<1>1. PeerInv' /\ \E p \in Pair : Summary(p)
  BY PeerStep
<1>2. PICK p \in Pair : Summary(p)
  BY <1>1
<1>0. PICK new : \E taken \in BOOLEAN : Rests(p, new, taken) \/ \E w : Works(p, w, new, taken)
  BY <1>2 DEF Summary
<1>3. PICK taken \in BOOLEAN : Rests(p, new, taken) \/ \E w : Works(p, w, new, taken)
  BY <1>0
<1> DEFINE q == Peer(p)
           P(r) == PairIds(m_lastLocalLinkId'[r[1]], m_lastLocalLinkId'[r[2]], m_peerLinks'[r],
                           m_peerLinks'[Peer(r)], queue'[r], queue'[Peer(r)])
<1>4. PICK a, b : IdStep(m_lastLocalLinkId[p[1]], m_lastLocalLinkId[p[2]], m_lastLocalLinkId'[p[1]],
                         m_peerLinks[p], new, m_peerLinks[Peer(p)], queue[p], queue'[p],
                         queue[Peer(p)], queue'[Peer(p)], a, b)
  BY <1>3, RestsIds, WorksIds
<1>5. /\ \A r \in Pair : m_peerLinks'[r] = IF r = p THEN new ELSE m_peerLinks[r]
      /\ \A r \in Pair : r = p \/ r = Peer(p) \/ queue'[r] = queue[r]
      /\ \A s \in Station : m_lastLocalLinkId'[s] >= m_lastLocalLinkId[s]
      /\ \A s \in Station : s = p[1] \/ m_lastLocalLinkId'[s] = m_lastLocalLinkId[s]
  BY <1>3, Elsewhere
<1>6. /\ p[1] \in Station /\ p[2] \in Station /\ p[1] # p[2] /\ q \in Pair /\ q # p /\ Peer(q) = p
      /\ q[1] = p[2] /\ q[2] = p[1]
  BY PairFacts, PeerLinkAssumption
<1>7. /\ m_lastLocalLinkId' \in [Station -> Nat] /\ m_peerLinks' \in [Pair -> Link \cup {NoLink}]
      /\ queue' \in [Pair -> Seq(Frame)]
  BY <1>1 DEF PeerInv, TypeOK
<1>8. /\ new \in Link \cup {NoLink} /\ m_lastLocalLinkId'[p[1]] \in Nat
      /\ queue'[p] \in Seq(Frame) /\ queue'[q] \in Seq(Frame)
      /\ m_peerLinks'[p] = new /\ m_peerLinks'[q] = m_peerLinks[q]
      /\ m_lastLocalLinkId'[p[2]] = m_lastLocalLinkId[p[2]]
  BY <1>5, <1>6, <1>7
<1>9. /\ PairIds(m_lastLocalLinkId[p[1]], m_lastLocalLinkId[p[2]], m_peerLinks[p],
                 m_peerLinks[q], queue[p], queue[q])
      /\ PairIds(m_lastLocalLinkId[p[2]], m_lastLocalLinkId[p[1]], m_peerLinks[q],
                 m_peerLinks[p], queue[q], queue[p])
      /\ m_lastLocalLinkId[p[1]] \in Nat /\ m_lastLocalLinkId[p[2]] \in Nat
      /\ m_peerLinks[p] \in Link \cup {NoLink} /\ m_peerLinks[q] \in Link \cup {NoLink}
      /\ queue[p] \in Seq(Frame) /\ queue[q] \in Seq(Frame)
  BY BothEnds
<1>10. P(p)
  <2>1. PairIds(m_lastLocalLinkId'[p[1]], m_lastLocalLinkId[p[2]], new, m_peerLinks[q], queue'[p], queue'[q])
    BY <1>4, <1>8, <1>9, NearEnd, SMTT(30)
  <2> QED
    BY <1>8, <2>1
<1>11. P(q)
  <2>1. PairIds(m_lastLocalLinkId[p[2]], m_lastLocalLinkId'[p[1]], m_peerLinks[q], new, queue'[q], queue'[p])
    BY <1>4, <1>8, <1>9, FarEnd, SMTT(30)
  <2> QED
    BY <1>6, <1>8, <2>1
<1>12. ASSUME NEW r \in Pair, r # p, r # q
       PROVE  P(r)
  <2>1. /\ Peer(r) \in Pair /\ Peer(r) # p /\ Peer(r) # q /\ r[1] \in Station /\ r[2] \in Station
    BY <1>6, <1>12, PairFacts
  <2>2. /\ m_peerLinks'[r] = m_peerLinks[r] /\ m_peerLinks'[Peer(r)] = m_peerLinks[Peer(r)]
        /\ queue'[r] = queue[r] /\ queue'[Peer(r)] = queue[Peer(r)]
        /\ m_lastLocalLinkId'[r[1]] >= m_lastLocalLinkId[r[1]] /\ m_lastLocalLinkId'[r[1]] \in Nat
        /\ m_lastLocalLinkId'[r[2]] >= m_lastLocalLinkId[r[2]] /\ m_lastLocalLinkId'[r[2]] \in Nat
    BY <1>5, <1>7, <1>12, <2>1
  <2>3. /\ PairIds(m_lastLocalLinkId[r[1]], m_lastLocalLinkId[r[2]], m_peerLinks[r],
                   m_peerLinks[Peer(r)], queue[r], queue[Peer(r)])
        /\ m_lastLocalLinkId[r[1]] \in Nat /\ m_lastLocalLinkId[r[2]] \in Nat
        /\ m_peerLinks[r] \in Link \cup {NoLink} /\ m_peerLinks[Peer(r)] \in Link \cup {NoLink}
        /\ queue[r] \in Seq(Frame) /\ queue[Peer(r)] \in Seq(Frame)
    BY BothEnds
  <2>4. m_lastLocalLinkId[r[1]] <= m_lastLocalLinkId'[r[1]] /\ m_lastLocalLinkId[r[2]] <= m_lastLocalLinkId'[r[2]]
    BY <2>2, <2>3
  <2>5. PairIds(m_lastLocalLinkId'[r[1]], m_lastLocalLinkId'[r[2]], m_peerLinks[r],
                m_peerLinks[Peer(r)], queue[r], queue[Peer(r)])
    <3> DEFINE n == m_lastLocalLinkId[r[1]]
               m == m_lastLocalLinkId[r[2]]
               n2 == m_lastLocalLinkId'[r[1]]
               m2 == m_lastLocalLinkId'[r[2]]
               l == m_peerLinks[r]
               k == m_peerLinks[Peer(r)]
               s == queue[r]
               t == queue[Peer(r)]
    <3>1. /\ n \in Nat /\ m \in Nat /\ n2 \in Nat /\ m2 \in Nat /\ n <= n2 /\ m <= m2
          /\ l \in Link \cup {NoLink} /\ k \in Link \cup {NoLink} /\ s \in Seq(Frame) /\ t \in Seq(Frame)
          /\ PairIds(n, m, l, k, s, t)
      BY <2>2, <2>3, <2>4
    <3> HIDE DEF n, m, n2, m2, l, k, s, t
    <3>2. PairIds(n2, m2, l, k, s, t)
      BY <3>1, LaterIds
    <3> QED
      BY <3>2 DEF n, m, n2, m2, l, k, s, t
  <2> QED
    BY <2>2, <2>5
<1>13. \A r \in Pair : P(r)
  BY <1>10, <1>11, <1>12
<1> QED
  BY <1>13, IdsByPairNext

LEMMA IdsInit == Init => IdsInv
<1> SUFFICES ASSUME Init PROVE IdsInv
  OBVIOUS
<1>1. \A p \in Pair : /\ m_peerLinks[p] = NoLink /\ queue[p] = << >> /\ m_lastLocalLinkId[p[1]] = 1
                      /\ Peer(p) \in Pair
  BY PairFacts DEF Init
<1>2. InQueue(<< >>) = {} /\ Ascends(<< >>) /\ NoLink.state \notin Confirmed \cup Opened
  BY NoLinkFacts DEF InQueue, Ascends, Confirmed, Opened
<1>3. \A p \in Pair : PairIds(m_lastLocalLinkId[p[1]], m_lastLocalLinkId[p[2]], m_peerLinks[p],
                              m_peerLinks[Peer(p)], queue[p], queue[Peer(p)])
  BY <1>1, <1>2 DEF PairIds, Issued, Grows, Known
<1> QED
  BY <1>3, IdsByPair

LEMMA IdsAgreeNow == PeerInv /\ IdsInv => IdsAgree
<1> SUFFICES ASSUME PeerInv, IdsInv, NEW p \in Pair, Estab(p), Estab(Peer(p))
             PROVE  m_peerLinks[p].peer = m_peerLinks[Peer(p)].local
  BY DEF IdsAgree
<1> DEFINE l == m_peerLinks[p]
           k == m_peerLinks[Peer(p)]
<1>1. /\ PairIds(m_lastLocalLinkId[p[1]], m_lastLocalLinkId[p[2]], l, k, queue[p], queue[Peer(p)])
      /\ PairIds(m_lastLocalLinkId[p[2]], m_lastLocalLinkId[p[1]], k, l, queue[Peer(p)], queue[p])
      /\ l \in Link \cup {NoLink} /\ k \in Link \cup {NoLink}
  BY BothEnds
<1>2. l.state = "ESTAB" /\ k.state = "ESTAB"
  BY DEF Estab
<1> HIDE DEF l, k
<1>3. l # NoLink /\ k # NoLink /\ l.peer \in Nat /\ k.local \in Nat
  BY <1>1, <1>2, NoLinkFacts DEF Link, LinkId
<1>4. l.peer <= k.local
  BY <1>1, <1>3 DEF PairIds, Issued
<1>5. l.peer = 0 \/ l.peer >= k.local
  BY <1>1, <1>2, <1>3 DEF PairIds, Known, KnowsId, Confirmed
<1>6. l.peer # 0
  BY <1>1, <1>2 DEF PairIds, Known, Opened
<1>7. l.peer = k.local
  BY <1>3, <1>4, <1>5, <1>6
<1> QED
  BY <1>7 DEF l, k

(* Two ends that are both established mean the same link, for any number   *)
(* of stations and links, although frames of earlier links may still be    *)
(* under way or be lost: ids only grow, frames keep their order, and a     *)
(* confirmation is sent only by one that knows the id it confirms.         *)
THEOREM EndsAgree == Spec => []IdsAgree
<1>1. Init => PeerInv /\ IdsInv
  BY PeerInit, IdsInit
<1>2. PeerInv /\ IdsInv /\ [Next]_vars => (PeerInv /\ IdsInv)'
  <2>1. IdsInv /\ UNCHANGED vars => IdsInv'
    BY IdsByPair, IdsByPairNext DEF vars
  <2> QED
    BY <2>1, PeerNext, IdsStep
<1> QED
  BY <1>1, <1>2, IdsAgreeNow, PTL DEF Spec
===============================================================================
