------------------------------- MODULE PeerLink -------------------------------
(***************************************************************************)
(* 802.11s peer links of src/ns-3.16/src/mesh: every mesh station keeps    *)
(* one PeerLink for each neighbour it has heard of, and the two ends       *)
(* negotiate it with Open, Confirm and Close frames, retries and timeouts  *)
(* (PeerLink::StateMachine, PeerManagementProtocol).                       *)
(*                                                                         *)
(* The wireless MAC below keeps the frames of one station to another in    *)
(* order, delivers none twice and may lose any of them.  A timer that is   *)
(* set may fire at any time.  All the stations have the same mesh id and   *)
(* rates, so that ConfigurationMismatch is not called.                     *)
(***************************************************************************)
EXTENDS Integers, Sequences, FiniteSets

CONSTANTS
  Station,
  Pair,          \* the pairs of stations in range of each other
  MaxRetries,    \* m_dot11MeshMaxRetries
  MaxPacketFail, \* m_maxPacketFail
  MaxPeerLinks,  \* m_maxNumberOfPeerLinks of each station
  MaxFrames,     \* frames that the queue of the MAC holds for one station
  MaxLinks       \* links that a station initiates (a bound)

ASSUME PeerLinkAssumption ==
  /\ IsFiniteSet(Station)
  /\ \A p \in Pair : p \in Station \X Station /\ p[1] # p[2] /\ <<p[2], p[1]>> \in Pair
  /\ MaxPeerLinks \in [Station -> Nat]
  /\ MaxLinks \in [Station -> Nat] /\ {MaxRetries, MaxFrames} \subseteq Nat /\ MaxPacketFail \in Nat \ {0}

VARIABLES
  m_peerLinks,       \* of a station to another
  m_lastLocalLinkId, m_linksTotal,
  queue,             \* frames on their way from a station to another
  dropped            \* the beacon loss timers that links left behind

vars == <<m_peerLinks, m_lastLocalLinkId, m_linksTotal, queue, dropped>>

PeerState == {"IDLE", "OPN_SNT", "CNF_RCVD", "OPN_RCVD", "ESTAB", "HOLDING"}
Timer == {"retry", "confirm", "holding", "beacon"}
LinkId == Nat
Link == [state : PeerState, local : LinkId, peer : LinkId, retries : 0..MaxRetries,
         fails : 0 .. MaxPacketFail - 1, timers : SUBSET Timer]
NoLink == [state |-> "none"]
Frame == [kind : {"OPEN", "CONFIRM", "CLOSE"}, local : LinkId, peer : LinkId]

Init ==
  /\ m_peerLinks = [p \in Pair |-> NoLink]
  /\ m_lastLocalLinkId = [s \in Station |-> 1]
  /\ m_linksTotal = [s \in Station |-> 0]
  /\ queue = [p \in Pair |-> << >>]
  /\ dropped = {}

----------------------------------------------------------------------------
(* PeerLink: what StateMachine does to the link l on the event e.          *)

Opening == {"OPN_SNT", "CNF_RCVD", "OPN_RCVD"}
Retrying == {"OPN_SNT", "OPN_RCVD"}
Rejects == {"OPN_RJCT", "CNF_RJCT"}
Ends == {"CLS_ACPT", "CNCL"} \cup Rejects

NextState(st, e) ==
  CASE st = "IDLE" /\ e = "ACTOPN" -> "OPN_SNT"
    [] st \in {"IDLE", "OPN_SNT"} /\ e = "OPN_ACPT" -> "OPN_RCVD"
    [] st = "OPN_SNT" /\ e = "CNF_ACPT" -> "CNF_RCVD"
    [] st = "CNF_RCVD" /\ e = "OPN_ACPT" -> "ESTAB"
    [] st = "OPN_RCVD" /\ e = "CNF_ACPT" -> "ESTAB"
    [] st \in Opening \cup {"ESTAB"} /\ e \in Ends -> "HOLDING"
    [] st \in Retrying /\ e = "TOR2" -> "HOLDING"
    [] st = "CNF_RCVD" /\ e = "TOC" -> "HOLDING"
    [] st = "HOLDING" /\ e \in {"CLS_ACPT", "TOH"} -> "IDLE"
    [] OTHER -> st

(* Where ClearRetryTimer, ClearConfirmTimer and ClearHoldingTimer are      *)
(* called.  The mutant leaves the confirm timer of a link that is          *)
(* established.                                                            *)
ClearsLess(st, e) ==
  {t \in Timer :
    \/ t = "retry" /\ st \in Retrying /\ e \in Ends \cup {"CNF_ACPT", "TOR2"}
    \/ t = "retry" /\ st = "ESTAB" /\ e \in Rejects
    \/ t = "confirm" /\ st = "CNF_RCVD" /\ e \in Ends
    \/ t = "holding" /\ st = "HOLDING" /\ e = "CLS_ACPT"}
Clears(st, e) ==
  {t \in Timer :
    \/ t = "retry" /\ st \in Retrying /\ e \in Ends \cup {"CNF_ACPT", "TOR2"}
    \/ t = "retry" /\ st = "ESTAB" /\ e \in Rejects
    \/ t = "confirm" /\ st = "CNF_RCVD" /\ e \in Ends \cup {"OPN_ACPT"}
    \/ t = "holding" /\ st = "HOLDING" /\ e = "CLS_ACPT"}

(* Where SetRetryTimer, SetConfirmTimer and SetHoldingTimer are called.    *)
(* The mutant retries once.                                                *)
SetsOnce(st, e) ==
  {t \in Timer :
    \/ t = "retry" /\ st = "IDLE" /\ e \in {"ACTOPN", "OPN_ACPT"}
    \/ t = "confirm" /\ st = "OPN_SNT" /\ e = "CNF_ACPT"
    \/ t = "holding" /\ st # "HOLDING" /\ NextState(st, e) = "HOLDING"}
Sets(st, e) ==
  {t \in Timer :
    \/ t = "retry" /\ st = "IDLE" /\ e \in {"ACTOPN", "OPN_ACPT"}
    \/ t = "retry" /\ st \in Retrying /\ e = "TOR1"
    \/ t = "confirm" /\ st = "OPN_SNT" /\ e = "CNF_ACPT"
    \/ t = "holding" /\ st # "HOLDING" /\ NextState(st, e) = "HOLDING"}

StateMachine(l, e) ==
  [l EXCEPT !.state = NextState(@, e),
            !.retries = IF l.state \in Retrying /\ e = "TOR1" THEN @ + 1 ELSE @,
            !.timers = (@ \ Clears(l.state, e)) \cup Sets(l.state, e)]

\* SendPeerLinkOpen, SendPeerLinkConfirm and SendPeerLinkClose.
Open(l) == [kind |-> "OPEN", local |-> l.local, peer |-> 0]
Confirm(l) == [kind |-> "CONFIRM", local |-> l.local, peer |-> l.peer]
CloseFrame(l) == [kind |-> "CLOSE", local |-> l.local, peer |-> l.peer]

Sends(l, e) ==
  CASE l.state = "IDLE" /\ e = "ACTOPN" -> <<Open(l)>>
    [] l.state = "IDLE" /\ e = "OPN_ACPT" -> <<Confirm(l), Open(l)>>
    [] l.state \in Retrying /\ e = "TOR1" -> <<Open(l)>>
    [] l.state \in {"OPN_SNT", "CNF_RCVD", "ESTAB"} /\ e = "OPN_ACPT" -> <<Confirm(l)>>
    [] l.state # "HOLDING" /\ NextState(l.state, e) = "HOLDING" -> <<CloseFrame(l)>>
    [] l.state = "HOLDING" /\ e \in Rejects \cup {"OPN_ACPT", "CNF_ACPT"} -> <<CloseFrame(l)>>
    [] OTHER -> << >>

----------------------------------------------------------------------------
(* PeerManagementProtocol.                                                 *)

\* FindPeerLink: an idle link is erased on the way.
FindPeerLink(p) == IF m_peerLinks[p].state = "IDLE" THEN NoLink ELSE m_peerLinks[p]

InitiateLink(s) ==
  [state |-> "IDLE", local |-> m_lastLocalLinkId[s], peer |-> 0, retries |-> 0,
   fails |-> 0, timers |-> {}]

MayInitiate(s) == m_lastLocalLinkId[s] <= MaxLinks[s]
Initiated(s, isNew) ==
  m_lastLocalLinkId' = [m_lastLocalLinkId EXCEPT ![s] = IF isNew THEN @ + 1 ELSE @]

\* ShouldSendOpen and ShouldAcceptOpen.
ShouldOpen(s) == m_linksTotal[s] <= MaxPeerLinks[s]

\* What the queue of the MAC holds after it was given these frames.
Enqueue(q, frames) ==
  LET all == q \o frames
  IN  SubSeq(all, 1, IF Len(all) < MaxFrames THEN Len(all) ELSE MaxFrames)

\* PeerLinkStatus counts the links.  The mutant counts every link that reaches HOLDING.
CountedAtHolding(old, new) ==
  IF new = "ESTAB" /\ old # "ESTAB" THEN 1
  ELSE IF new = "HOLDING" /\ old # "HOLDING" THEN -1 ELSE 0
Counted(old, new) ==
  IF new = "ESTAB" /\ old # "ESTAB" THEN 1
  ELSE IF old = "ESTAB" /\ new # "ESTAB" THEN -1 ELSE 0

(* The event e happens to the link l of p.  A link that reaches IDLE is    *)
(* erased by PeerLinkStatus, which does not dispose of it: its beacon loss *)
(* timer goes on.                                                          *)
Apply(p, l, e) ==
  LET new == StateMachine(l, e)
      erased == l.state = "HOLDING" /\ new.state = "IDLE"
  IN  /\ m_peerLinks' = [m_peerLinks EXCEPT ![p] = IF erased THEN NoLink ELSE new]
      /\ dropped' = IF erased /\ "beacon" \in new.timers THEN dropped \cup {p} ELSE dropped
      /\ m_linksTotal' = [m_linksTotal EXCEPT ![p[1]] = @ + Counted(l.state, new.state)]

Send(p, l, e) == queue' = [queue EXCEPT ![p] = Enqueue(@, Sends(l, e))]

\* A beacon of p[2] reaches p[1]: it opens a link, or restarts the beacon loss timer.
ReceiveBeacon(p) ==
  LET found == FindPeerLink(p)
      fresh == found = NoLink
      l == IF fresh THEN InitiateLink(p[1]) ELSE found
      opened == IF fresh THEN StateMachine(l, "ACTOPN") ELSE l
  IN  \/ /\ fresh => ShouldOpen(p[1]) /\ MayInitiate(p[1])
         /\ m_peerLinks' = [m_peerLinks EXCEPT ![p] = [opened EXCEPT !.timers = @ \cup {"beacon"}]]
         /\ queue' = [queue EXCEPT ![p] = Enqueue(@, IF fresh THEN Sends(l, "ACTOPN") ELSE << >>)]
         /\ Initiated(p[1], fresh)
         /\ UNCHANGED <<m_linksTotal, dropped>>
      \/ /\ fresh /\ ~ShouldOpen(p[1])
         /\ m_peerLinks' = [m_peerLinks EXCEPT ![p] = NoLink]
         /\ UNCHANGED <<m_lastLocalLinkId, m_linksTotal, queue, dropped>>

Peer(p) == <<p[2], p[1]>>

(* ReceivePeerLinkFrame: p[1] takes the next frame that p[2] sent.         *)
Take(p, l, e) ==
  /\ Apply(p, l, e)
  /\ queue' = [queue EXCEPT ![Peer(p)] = Tail(@), ![p] = Enqueue(@, Sends(l, e))]

Ignore(p, l) ==
  /\ m_peerLinks' = [m_peerLinks EXCEPT ![p] = l]
  /\ queue' = [queue EXCEPT ![Peer(p)] = Tail(@)]
  /\ UNCHANGED <<m_linksTotal, dropped>>

(* OpenAccept and OpenReject: which link id they take over from the frame. *)
OpenAccept(l, f) == [l EXCEPT !.peer = f.local]
OpenReject(l, f) == IF l.peer = 0 THEN [l EXCEPT !.peer = f.local] ELSE l

ReceiveOpen(p) ==
  LET f == Head(queue[Peer(p)])
      fresh == FindPeerLink(p) = NoLink
      l == IF fresh THEN InitiateLink(p[1]) ELSE FindPeerLink(p)
  IN  /\ queue[Peer(p)] # << >> /\ f.kind = "OPEN"
      /\ fresh => MayInitiate(p[1])
      /\ Initiated(p[1], fresh)
      /\ IF ShouldOpen(p[1]) THEN Take(p, OpenAccept(l, f), "OPN_ACPT")
         ELSE Take(p, OpenReject(l, f), "OPN_RJCT")

\* The ids with which ConfirmAccept and Close go on.  The mutant looks at one of the two.
ConfirmMatchesPeer(l, f) == l.peer \in {0, f.local}
ConfirmMatches(l, f) == f.peer = l.local /\ l.peer \in {0, f.local}
CloseMatches(l, f) == f.peer \in {0, l.local} /\ l.peer \in {0, f.local}

ReceiveConfirm(p) ==
  LET f == Head(queue[Peer(p)])
      l == FindPeerLink(p)
  IN  /\ queue[Peer(p)] # << >> /\ f.kind = "CONFIRM"
      /\ UNCHANGED m_lastLocalLinkId
      /\ IF l # NoLink /\ ConfirmMatches(l, f)
         THEN Take(p, [l EXCEPT !.peer = f.local], "CNF_ACPT")
         ELSE Ignore(p, l)

ReceiveClose(p) ==
  LET f == Head(queue[Peer(p)])
      l == FindPeerLink(p)
  IN  /\ queue[Peer(p)] # << >> /\ f.kind = "CLOSE"
      /\ UNCHANGED m_lastLocalLinkId
      /\ IF l # NoLink /\ CloseMatches(l, f)
         THEN Take(p, [l EXCEPT !.peer = f.local], "CLS_ACPT")
         ELSE Ignore(p, l)

\* IsActiveLink: data is exchanged only over an established link.
IsActiveLink(p) ==
  /\ m_peerLinks' = [m_peerLinks EXCEPT ![p] = FindPeerLink(p)]
  /\ UNCHANGED <<m_lastLocalLinkId, m_linksTotal, queue, dropped>>

\* A frame to the peer was not acknowledged.
TransmissionFailure(p) ==
  LET l == FindPeerLink(p)
      failed == [l EXCEPT !.fails = @ + 1]
  IN  /\ l # NoLink
      /\ UNCHANGED m_lastLocalLinkId
      /\ IF failed.fails = MaxPacketFail
         THEN Apply(p, [failed EXCEPT !.fails = 0], "CNCL") /\ Send(p, failed, "CNCL")
         ELSE /\ m_peerLinks' = [m_peerLinks EXCEPT ![p] = failed]
              /\ UNCHANGED <<m_linksTotal, queue, dropped>>

TransmissionSuccess(p) ==
  /\ FindPeerLink(p) # NoLink
  /\ m_peerLinks' = [m_peerLinks EXCEPT ![p].fails = 0]
  /\ UNCHANGED <<m_lastLocalLinkId, m_linksTotal, queue, dropped>>

(* A timer of the link fires: RetryTimeout, ConfirmTimeout, HoldingTimeout *)
(* or BeaconLoss.  The mutant retries once too often.                      *)
RetryEventOnceMore(l) == IF l.retries <= MaxRetries THEN "TOR1" ELSE "TOR2"
RetryEvent(l) == IF l.retries < MaxRetries THEN "TOR1" ELSE "TOR2"
Fires(p, t, e) ==
  LET l == [m_peerLinks[p] EXCEPT !.timers = @ \ {t}]
  IN  /\ m_peerLinks[p] # NoLink /\ t \in m_peerLinks[p].timers
      /\ Apply(p, l, e) /\ Send(p, l, e)
      /\ UNCHANGED m_lastLocalLinkId

RetryTimeout(p) == Fires(p, "retry", RetryEvent(m_peerLinks[p]))
ConfirmTimeout(p) == Fires(p, "confirm", "TOC")
HoldingTimeout(p) == Fires(p, "holding", "TOH")
BeaconLoss(p) == Fires(p, "beacon", "CNCL")

(* The beacon loss timer of an erased link fires.  Nothing owns the object *)
(* any more; as long as its memory keeps its contents it is an idle link   *)
(* on which CNCL makes PeerLinkStatus look for the link of the same peer.  *)
LateBeaconLoss(p) ==
  /\ p \in dropped
  /\ dropped' \in {dropped, dropped \ {p}}
  /\ m_peerLinks' = [m_peerLinks EXCEPT ![p] = FindPeerLink(p)]
  /\ UNCHANGED <<m_lastLocalLinkId, m_linksTotal, queue>>

\* The MAC gives up a frame.
Lose(p) ==
  /\ queue[p] # << >>
  /\ queue' = [queue EXCEPT ![p] = Tail(@)]
  /\ UNCHANGED <<m_peerLinks, m_lastLocalLinkId, m_linksTotal, dropped>>

Next ==
  \E p \in Pair :
    \/ ReceiveBeacon(p) \/ ReceiveOpen(p) \/ ReceiveConfirm(p) \/ ReceiveClose(p)
    \/ IsActiveLink(p) \/ TransmissionFailure(p) \/ TransmissionSuccess(p)
    \/ RetryTimeout(p) \/ ConfirmTimeout(p) \/ HoldingTimeout(p) \/ BeaconLoss(p)
    \/ LateBeaconLoss(p) \/ Lose(p)

Spec == Init /\ [][Next]_vars

(* Timers are events of the simulator, which run as long as time goes on.  *)
(* Neither beacons nor frames are promised to arrive.                      *)
FairSpec ==
  /\ Spec
  /\ \A p \in Pair : WF_vars(RetryTimeout(p) \/ ConfirmTimeout(p) \/ HoldingTimeout(p))
-------------------------------------------------------------------------------
\* The types of the members; a link is retried at most MaxRetries times.
TypeOK ==
  /\ m_peerLinks \in [Pair -> Link \cup {NoLink}]
  /\ m_lastLocalLinkId \in [Station -> Nat]
  /\ m_linksTotal \in [Station -> 0..Cardinality(Station)]
  /\ queue \in [Pair -> Seq(Frame)] /\ \A p \in Pair : Len(queue[p]) <= MaxFrames
  /\ dropped \subseteq Pair

Estab(p) == m_peerLinks[p].state = "ESTAB"

(* Each state that must not last has its timer, and no timer is left from  *)
(* an earlier state: the transitions of StateMachine clear and set three   *)
(* timers one by one.                                                      *)
TimersMatchState ==
  \A p \in Pair : m_peerLinks[p] # NoLink =>
    LET l == m_peerLinks[p]
    IN  /\ "retry" \in l.timers <=> l.state \in Retrying
        /\ "confirm" \in l.timers <=> l.state = "CNF_RCVD"
        /\ "holding" \in l.timers <=> l.state = "HOLDING"

(* linksTotal, which PeerLinkStatus counts up and down and which admits    *)
(* new links, is the number of links that are established.                 *)
LinksCounted ==
  \A s \in Station : m_linksTotal[s] = Cardinality({p \in Pair : p[1] = s /\ Estab(p)})

(* Two ends that both take their link for established mean the same link,  *)
(* whatever frames of earlier links were lost, delayed or answered: each   *)
(* knows the other's link id, without which Close would be ignored.        *)
IdsAgree ==
  \A p \in Pair : Estab(p) /\ Estab(Peer(p)) => m_peerLinks[p].peer = m_peerLinks[Peer(p)].local

(* The negotiation and the closing of a link end, although every frame may *)
(* be lost and the peer may have gone.                                     *)
NegotiationEnds ==
  \A p \in Pair :
    m_peerLinks[p].state \in Opening \cup {"HOLDING"} ~> m_peerLinks[p].state \in {"ESTAB", "IDLE", "none"}

(* What PeerLinkStatus asserts of a link that turned idle: there is no     *)
(* link to its peer.  It does not hold when the beacon loss timer of an    *)
(* erased link fires after the next link was initiated.                    *)
StatusFindsNoLink == \A p \in dropped : FindPeerLink(p) = NoLink

(* The number of established links is limited to MaxNumberOfPeerLinks.  It *)
(* is not: one more is admitted, and links in negotiation do not count.    *)
WithinLimit == \A s \in Station : m_linksTotal[s] <= MaxPeerLinks[s]
-------------------------------------------------------------------------------
(* The inductive invariant behind IdsAgree.  Link ids of a station grow,   *)
(* and frames to a peer keep their order, so what a station knows of its   *)
(* peer's link ids never becomes older.                                    *)

HasLink(p) == m_peerLinks[p] # NoLink
Frames(p) == {queue[p][i] : i \in DOMAIN queue[p]}

\* Ids in use were given out, and a link's frames carry its id or older ones.
IdsIssued ==
  \A p \in Pair :
    /\ m_lastLocalLinkId[p[1]] >= 1
    /\ HasLink(p) =>
         /\ 1 <= m_peerLinks[p].local /\ m_peerLinks[p].local < m_lastLocalLinkId[p[1]]
         /\ m_peerLinks[p].peer < m_lastLocalLinkId[p[2]]
         /\ \A f \in Frames(p) : f.local <= m_peerLinks[p].local
         /\ \A f \in Frames(Peer(p)) : f.peer <= m_peerLinks[p].local
         /\ HasLink(Peer(p)) => m_peerLinks[Peer(p)].peer <= m_peerLinks[p].local
    /\ \A f \in Frames(p) :
         /\ 1 <= f.local /\ f.local < m_lastLocalLinkId[p[1]]
         /\ f.peer < m_lastLocalLinkId[p[2]]

\* What is still under way from the peer is not older than what was received.
IdsGrow ==
  \A p \in Pair :
    /\ \A i, j \in DOMAIN queue[p] : i < j => queue[p][i].local <= queue[p][j].local
    /\ HasLink(p) => \A f \in Frames(Peer(p)) : f.local >= m_peerLinks[p].peer

\* The station p[1] has confirmed the link id of p[2], and has received nothing
\* older since.
Knows(p, id) ==
  /\ HasLink(p) => m_peerLinks[p].peer = 0 \/ m_peerLinks[p].peer >= id
  /\ \A f \in Frames(Peer(p)) : f.local >= id

ConfirmsKnown ==
  \A p \in Pair :
    /\ \A f \in Frames(p) : f.kind = "CONFIRM" => Knows(p, f.peer)
    /\ m_peerLinks[Peer(p)].state \in {"CNF_RCVD", "ESTAB"} => Knows(p, m_peerLinks[Peer(p)].local)
    /\ m_peerLinks[p].state \in {"CNF_RCVD", "OPN_RCVD", "ESTAB"} => m_peerLinks[p].peer # 0

IdsInv == IdsIssued /\ IdsGrow /\ ConfirmsKnown
===============================================================================
