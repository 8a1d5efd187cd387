----------------------------- MODULE GmaReorder -----------------------------
(***************************************************************************)
(* The receiver's reordering (contrib/gma/model/gma-virtual-interface.cc:  *)
(* Receive, InOrderDelivery and what they call), with the sequence numbers *)
(* the transmitter puts on the packets.                                    *)
(*                                                                         *)
(* Every packet of a flow has a sequence number (SN); every packet of a    *)
(* link has a local one (LSN).  A link keeps the order of its packets and  *)
(* may lose some.  The receiver queues, per link, what arrives too early,  *)
(* and forwards it when the gap before it is filled, is known to be a      *)
(* loss, or has been waited for long enough.                               *)
(*                                                                         *)
(* A scenario is chosen at the start.  Its mode is how the peer uses the   *)
(* links: "split" spreads the packets, "steer" uses one link at a time,    *)
(* "duplicate" sends every packet over all links.                          *)
(***************************************************************************)
EXTENDS Integers, Sequences, FiniteSets

CONSTANTS
    LinkSeq,           \* the configured cids, in the order of m_linkParamsMap
    MAX_GMA_SN,        \* 2^24 - 1 in the code
    MAX_GMA_LSN,       \* 2^8 - 1 in the code
    UseLsnReordering,  \* attribute "UseLsnReordering"
    Scenarios

Links == {LinkSeq[i] : i \in 1 .. Len(LinkSeq)}

\* What a scenario allows: link failures, expiring timers, losses, and in steer mode a
\* peer that moves again before the packets of the previous move have arrived.
FaultKinds == {"loss", "timeout", "linkdown", "hasty"}

ScenarioType ==
    [mode : {"split", "steer", "duplicate"},
     firstSn : 0 .. MAX_GMA_SN,     \* 0, or the SN of a flow that has been running
     links : (SUBSET Links) \ {{}},   \* the links that are up and used
     maxPackets : Nat,              \* bound: packets the peer sends
     maxSteers : Nat,               \* bound: moves of the delivery link in steer mode
     faults : SUBSET FaultKinds]

ASSUME ReorderAssumption ==
    /\ LinkSeq \in Seq(0 .. 254) /\ LinkSeq # << >>
    /\ \A i, j \in 1 .. Len(LinkSeq) : i < j => LinkSeq[i] < LinkSeq[j]
    /\ MAX_GMA_SN \in Nat /\ MAX_GMA_LSN \in Nat
    /\ UseLsnReordering \in BOOLEAN
    /\ \A s \in Scenarios : s \in ScenarioType

NoCid == 255  \* UINT8_MAX

\* The receiver.
VARIABLES
    m_reorderingQueue,         \* per link
    m_gmaRxExpectedSn,
    m_gmaRxLast,               \* per link: m_gmaRxLastSn and m_gmaRxLastLocalSn
    m_enableReordering,
    m_useLsnReordering,
    m_newLinkCid,              \* steer mode: the link of the packets, NoCid after an end marker
    m_reorderingTimeoutEvent,  \* whether it is running
    m_stopReorderEvent,        \* whether it is running
    up,                        \* IsLinkUp
    forwarded                  \* what m_forwardPacketCallback got, in order

rxVars == <<m_reorderingQueue, m_gmaRxExpectedSn, m_gmaRxLast, m_enableReordering,
            m_useLsnReordering, m_newLinkCid, m_reorderingTimeoutEvent, m_stopReorderEvent,
            up, forwarded>>

\* The transmitter and the network.
VARIABLES
    sent,            \* packets sent; packet i has the i-th SN after the first
    m_gmaTxLocalSn,  \* per link
    deliveryLink,    \* steer mode: the link in use
    steers,          \* steer mode: the moves made
    wire             \* per link, what is in flight

txVars == <<sent, m_gmaTxLocalSn, deliveryLink, steers, wire>>

\* The packets InOrderDelivery threw away, remembered by the specification.
VARIABLE discarded

VARIABLE scenario  \* never changes

vars == <<rxVars, txVars, discarded, scenario>>

DefaultCid == CHOOSE cid \in scenario.links : \A link \in scenario.links : cid <= link
May(fault) == fault \in scenario.faults

\* The half of the number space that counts as "before".
WrapDiff(x1, x2, size) ==
    LET diff == x1 - x2
    IN  IF diff > size \div 2 THEN diff - size
        ELSE IF diff < - (size \div 2) THEN diff + size
        ELSE diff

SnDiff(x1, x2) == WrapDiff(x1, x2, MAX_GMA_SN + 1)
LsnDiff(x1, x2) == WrapDiff(x1, x2, MAX_GMA_LSN + 1)

\* Mutant of NextSn: the mask is missing.
UnmaskedNextSn(sn) == sn + 1

NextSn(sn) == (sn + 1) % (MAX_GMA_SN + 1)

\* A flow that has been running used the default link so far.
Init ==
    /\ scenario \in Scenarios
    /\ m_reorderingQueue = [cid \in Links |-> << >>]
    /\ m_gmaRxExpectedSn = scenario.firstSn
    /\ m_gmaRxLast = [cid \in Links |->
          IF scenario.firstSn > 0 /\ cid = DefaultCid
          THEN [sn |-> scenario.firstSn - 1, lsn |-> (scenario.firstSn - 1) % (MAX_GMA_LSN + 1)]
          ELSE [sn |-> MAX_GMA_SN, lsn |-> MAX_GMA_LSN]]
    /\ m_enableReordering = (scenario.firstSn > 0 /\ scenario.mode = "split")
    /\ m_useLsnReordering = UseLsnReordering
    /\ m_newLinkCid = IF scenario.firstSn > 0 /\ scenario.mode = "steer" THEN DefaultCid
                                                                         ELSE NoCid
    /\ m_reorderingTimeoutEvent = FALSE
    /\ m_stopReorderEvent = FALSE
    /\ up = scenario.links
    /\ forwarded = << >>
    /\ sent = 0
    /\ m_gmaTxLocalSn = [cid \in Links |->
          IF cid = DefaultCid THEN scenario.firstSn % (MAX_GMA_LSN + 1) ELSE 0]
    /\ deliveryLink = DefaultCid
    /\ steers = 0
    /\ wire = [cid \in Links |-> << >>]
    /\ discarded = {}

-----------------------------------------------------------------------------
(***************************************************************************)
(* The release loops.  They work on a record of what they change: the      *)
(* queues, the expected SN, what was forwarded, and the reordering itself. *)
(***************************************************************************)
Receiver(expired) ==
    [queue |-> m_reorderingQueue, expected |-> m_gmaRxExpectedSn, out |-> forwarded,
     on |-> m_enableReordering, newLink |-> m_newLinkCid, stop |-> m_stopReorderEvent,
     expired |-> expired]

\* m_totalQueueSize.
TotalQueueSize(queue) == Cardinality(UNION {{cid} \X (1 .. Len(queue[cid])) : cid \in Links})

\* Mutant of MinOf: the first queue that is not empty.
FirstOf(queue, min, cid) == IF queue[cid] # << >> /\ min = NoCid THEN cid ELSE min

\* MAX_GMA_SN in minSn means that there is no minimum yet.
MinOf(queue, min, cid) ==
    IF queue[cid] # << >>
       /\ (\/ min = NoCid
           \/ Head(queue[min]).sn = MAX_GMA_SN
           \/ SnDiff(Head(queue[min]).sn, Head(queue[cid]).sn) > 0)
    THEN cid ELSE min

\* The search for the minimum among the heads of the queues.
MinCid(queue) ==
    LET upTo[n \in 0 .. Len(LinkSeq)] ==
            IF n = 0 THEN NoCid ELSE MinOf(queue, upTo[n - 1], LinkSeq[n])
    IN  upTo[Len(LinkSeq)]

\* Mutant of Pop: the packet stays in its queue.
PopWithoutRemoval(r, cid) == [r EXCEPT !.out = Append(@, Head(r.queue[cid]).id)]

\* MeasureAndForward of the head of a queue.
Pop(r, cid) ==
    [r EXCEPT !.queue[cid] = Tail(@), !.out = Append(@, Head(r.queue[cid]).id)]

PopAndExpectNext(r, cid) ==
    [Pop(r, cid) EXCEPT !.expected = NextSn(Head(r.queue[cid]).sn)]

ReleaseAllStep(r) ==
    LET cid == MinCid(r.queue) IN IF cid = NoCid THEN r ELSE PopAndExpectNext(r, cid)

\* Each loop ends after one round for every packet that is queued, or before.
ReleaseAllPackets(r) ==
    LET after[n \in 0 .. TotalQueueSize(r.queue)] ==
            IF n = 0 THEN r ELSE ReleaseAllStep(after[n - 1])
    IN  after[TotalQueueSize(r.queue)]

\* Mutant of StopReordering: the packets stay in the queues.
StopWithoutRelease(r) ==
    IF r.on THEN [r EXCEPT !.on = FALSE, !.newLink = NoCid, !.stop = FALSE] ELSE r

StopReordering(r) ==
    ReleaseAllPackets(
        IF r.on THEN [r EXCEPT !.on = FALSE, !.newLink = NoCid, !.stop = FALSE] ELSE r)

\* The body of ReleaseMinSnPacket's loop: nothing when the queue of a link that is
\* up is empty.
ReleaseMinStep(r) ==
    LET cid == MinCid(r.queue)
    IN  IF \/ \E link \in up : r.queue[link] = << >>
           \/ cid = NoCid
           \/ Head(r.queue[cid]).sn = MAX_GMA_SN
        THEN r
        ELSE IF SnDiff(Head(r.queue[cid]).sn, r.expected) >= 0 THEN PopAndExpectNext(r, cid)
        ELSE Pop(r, cid)

ReleaseMinSnPacket(r) ==
    LET after[n \in 0 .. TotalQueueSize(r.queue)] ==
            IF n = 0 THEN r ELSE ReleaseMinStep(after[n - 1])
    IN  after[TotalQueueSize(r.queue)]

\* Mutant of ReleaseInOrderStep: no head ever expires.
ReleaseUnexpiredStep(r) ==
    LET cid == MinCid(r.queue)
        head == Head(r.queue[cid])
        next == PopAndExpectNext(r, cid)
    IN  IF cid # NoCid /\ (head.sn = r.expected \/ head.inOrder) THEN next ELSE r

\* The body of ReleaseInOrderPackets' loop.  r.expired counts how often the loop
\* still finds a head that waited longer than m_reorderingTimeout.
ReleaseInOrderStep(r) ==
    LET cid == MinCid(r.queue)
        head == Head(r.queue[cid])
        next == PopAndExpectNext(r, cid)
    IN  IF cid = NoCid THEN r
        ELSE IF head.sn = r.expected
        THEN IF r.newLink = cid THEN StopReordering(next) ELSE next
        ELSE IF SnDiff(head.sn, r.expected) < 0 THEN Pop(r, cid)
        ELSE IF head.inOrder THEN next
        ELSE IF r.expired > 0 THEN [next EXCEPT !.expired = @ - 1]
        ELSE r

ReleaseInOrderPackets(r) ==
    LET after[n \in 0 .. TotalQueueSize(r.queue)] ==
            IF n = 0 THEN r ELSE ReleaseInOrderStep(after[n - 1])
    IN  after[TotalQueueSize(r.queue)]

\* How many heads may have expired when the loop runs now.
Expirations == IF May("timeout") THEN 0 .. scenario.maxPackets ELSE {0}

Becomes(r) ==
    /\ m_reorderingQueue' = r.queue
    /\ m_gmaRxExpectedSn' = r.expected
    /\ forwarded' = r.out
    /\ m_enableReordering' = r.on
    /\ m_newLinkCid' = r.newLink
    /\ m_stopReorderEvent' = r.stop

\* ReleaseInOrderPackets ends by starting or cancelling its timer.
BecomesWithTimer(r) ==
    /\ Becomes(r)
    /\ m_reorderingTimeoutEvent' = (TotalQueueSize(r.queue) > 0)

-----------------------------------------------------------------------------
(***************************************************************************)
(* Receiving.                                                              *)
(***************************************************************************)

\* Mutant of GapIsLost: only the LSN is looked at.
LsnInOrder(pkt, cid) == LsnDiff(pkt.lsn, m_gmaRxLast[cid].lsn) = 1

\* "if lost = gap, we still deliver": what is missing was sent over this link.
GapIsLost(pkt, cid) ==
    /\ m_useLsnReordering'
    /\ LsnDiff(pkt.lsn, m_gmaRxLast[cid].lsn) = SnDiff(pkt.sn, m_gmaRxLast[cid].sn)

\* MeasureAndForward of the packet that arrived, then ReleaseInOrderPackets; an
\* in-order packet of the new link ends the reordering.
Deliver(r, pkt, cid) ==
    LET next == ReleaseInOrderPackets([r EXCEPT !.out = Append(@, pkt.id),
                                                !.expected = NextSn(pkt.sn)])
    IN  /\ Becomes(IF next.newLink = cid THEN StopReordering(next) ELSE next)
        /\ m_reorderingTimeoutEvent' = (TotalQueueSize(next.queue) > 0)
        /\ UNCHANGED discarded

\* The packet is queued; out of order over the new link it starts m_stopReorderEvent.
Enqueue(r, pkt, cid, inOrder) ==
    LET item == [sn |-> pkt.sn, id |-> pkt.id, inOrder |-> inOrder]
        queued == [r EXCEPT !.queue[cid] = Append(@, item),
                            !.stop = @ \/ (~ inOrder /\ r.newLink = cid)]
    IN  /\ BecomesWithTimer(ReleaseInOrderPackets(ReleaseMinSnPacket(queued)))
        /\ UNCHANGED discarded

InOrderDelivery(r, pkt, cid) ==
    /\ IF pkt.sn = r.expected THEN Deliver(r, pkt, cid)
       ELSE IF SnDiff(pkt.sn, r.expected) < 0
       THEN /\ Becomes(r)
            /\ UNCHANGED m_reorderingTimeoutEvent
            /\ discarded' = discarded \cup {pkt.id}
       ELSE IF GapIsLost(pkt, cid) /\ r.queue[cid] = << >> THEN Deliver(r, pkt, cid)
       ELSE Enqueue(r, pkt, cid, GapIsLost(pkt, cid))
    /\ m_gmaRxLast' = [m_gmaRxLast EXCEPT ![cid] = [sn |-> pkt.sn, lsn |-> pkt.lsn]]

\* The steer and duplicate branches of Receive, before the delivery: a packet
\* over another link than the last one starts the reordering.
OnArrival(r, cid) ==
    CASE scenario.mode = "steer" /\ r.newLink = NoCid -> [r EXCEPT !.newLink = cid]
      [] scenario.mode = "steer" /\ r.newLink \notin {NoCid, cid} /\ ~ r.on ->
            [r EXCEPT !.newLink = cid, !.on = TRUE]
      [] scenario.mode = "duplicate" -> [r EXCEPT !.on = TRUE]
      [] OTHER -> r

ReceiveData(cid) ==
    /\ wire[cid] # << >> /\ Head(wire[cid]).type = "data"
    /\ wire' = [wire EXCEPT ![cid] = Tail(@)]
    /\ m_useLsnReordering' = (m_useLsnReordering /\ scenario.mode # "duplicate")
    /\ \E expired \in Expirations :
          LET pkt == Head(wire[cid])
              r == OnArrival(Receiver(expired), cid)
          IN  IF r.on THEN InOrderDelivery(r, pkt, cid)
              ELSE /\ Becomes([r EXCEPT !.expected = NextSn(pkt.sn), !.out = Append(@, pkt.id)])
                   /\ UNCHANGED <<m_gmaRxLast, m_reorderingTimeoutEvent, discarded>>
    /\ UNCHANGED <<up, sent, m_gmaTxLocalSn, deliveryLink, steers>>

ReceiveEndMarker(cid) ==
    /\ wire[cid] # << >> /\ Head(wire[cid]).type = "end"
    /\ wire' = [wire EXCEPT ![cid] = Tail(@)]
    /\ Becomes(CASE m_newLinkCid = NoCid -> Receiver(0)
                 [] m_newLinkCid = cid   -> [Receiver(0) EXCEPT !.newLink = NoCid]
                 [] OTHER                -> StopReordering(Receiver(0)))
    /\ UNCHANGED <<m_gmaRxLast, m_useLsnReordering, m_reorderingTimeoutEvent, up,
                   sent, m_gmaTxLocalSn, deliveryLink, steers, discarded>>

\* ReorderingTimeout: the head with the least SN has waited long enough, unless
\* m_reorderingTimeout was raised meanwhile; then the timer starts again.
ReorderingTimeout(expired) ==
    /\ May("timeout")
    /\ m_reorderingTimeoutEvent
    /\ BecomesWithTimer(ReleaseInOrderPackets(Receiver(expired)))
    /\ UNCHANGED <<m_gmaRxLast, m_useLsnReordering, up, txVars, discarded>>

\* m_stopReorderEvent.
StopReorderTimeout ==
    /\ May("timeout")
    /\ m_stopReorderEvent
    /\ Becomes(StopReordering([Receiver(0) EXCEPT !.stop = FALSE]))
    /\ UNCHANGED <<m_gmaRxLast, m_useLsnReordering, m_reorderingTimeoutEvent, up,
                   txVars, discarded>>

\* SendTsu in split mode, for several links.
SendTsu ==
    /\ scenario.mode = "split" /\ ~ m_enableReordering
    /\ m_enableReordering' = TRUE
    /\ UNCHANGED <<m_reorderingQueue, m_gmaRxExpectedSn, m_gmaRxLast, m_useLsnReordering,
                   m_newLinkCid, m_reorderingTimeoutEvent, m_stopReorderEvent, up, forwarded,
                   txVars, discarded>>

LinkChanges(cid) ==
    /\ May("linkdown")
    /\ up' = IF cid \in up THEN up \ {cid} ELSE up \cup {cid}
    /\ UNCHANGED <<m_reorderingQueue, m_gmaRxExpectedSn, m_gmaRxLast, m_enableReordering,
                   m_useLsnReordering, m_newLinkCid, m_reorderingTimeoutEvent,
                   m_stopReorderEvent, forwarded, txVars, discarded>>

-----------------------------------------------------------------------------
(***************************************************************************)
(* The transmitter and the network.                                        *)
(***************************************************************************)

\* Transmit over the links `cids`: the peer splits only after a TSU.
Transmit(cids) ==
    /\ sent < scenario.maxPackets
    /\ CASE scenario.mode = "split"     ->
               \E cid \in scenario.links : /\ cids = {cid}
                                           /\ m_enableReordering \/ cid = DefaultCid
         [] scenario.mode = "steer"     -> cids = {deliveryLink}
         [] scenario.mode = "duplicate" -> cids = scenario.links
    /\ LET sn == (scenario.firstSn + sent) % (MAX_GMA_SN + 1)
           pkt(cid) == [type |-> "data", sn |-> sn, lsn |-> m_gmaTxLocalSn[cid], id |-> sent]
       IN  wire' = [cid \in Links |-> IF cid \in cids THEN Append(wire[cid], pkt(cid))
                                                      ELSE wire[cid]]
    /\ m_gmaTxLocalSn' = [cid \in Links |->
          IF cid \in cids THEN (m_gmaTxLocalSn[cid] + 1) % (MAX_GMA_LSN + 1)
                          ELSE m_gmaTxLocalSn[cid]]
    /\ sent' = sent + 1
    /\ UNCHANGED <<rxVars, deliveryLink, steers, discarded>>

\* A TSU moves the delivery link: SendEndMarker over the old one.  Only a "hasty"
\* peer moves again before the packets of the previous move have arrived.
Steer(cid) ==
    /\ scenario.mode = "steer" /\ cid # deliveryLink
    /\ May("hasty") \/ \A link \in Links \ {deliveryLink} : wire[link] = << >>
    /\ steers < scenario.maxSteers
    /\ steers' = steers + 1
    /\ deliveryLink' = cid
    /\ wire' = [wire EXCEPT ![deliveryLink] = Append(@, [type |-> "end"])]
    /\ UNCHANGED <<rxVars, sent, m_gmaTxLocalSn, discarded>>

Lose(cid) ==
    /\ May("loss")
    /\ wire[cid] # << >>
    /\ wire' = [wire EXCEPT ![cid] = Tail(@)]
    /\ UNCHANGED <<rxVars, sent, m_gmaTxLocalSn, deliveryLink, steers, discarded>>

Step ==
    \/ \E cids \in SUBSET Links : Transmit(cids)
    \/ \E cid \in scenario.links :
          Steer(cid) \/ Lose(cid) \/ ReceiveData(cid) \/ ReceiveEndMarker(cid) \/ LinkChanges(cid)
    \/ \E expired \in Expirations : ReorderingTimeout(expired)
    \/ StopReorderTimeout
    \/ SendTsu

Next == Step /\ UNCHANGED scenario

Spec == Init /\ [][Next]_vars

\* The timer fires, and in the end after m_reorderingTimeout has been raised
\* for the last time.
TimerExpires ==
    \E expired \in Expirations \ {0} : ReorderingTimeout(expired) /\ UNCHANGED scenario

FairSpec == Spec /\ WF_vars(TimerExpires)

-----------------------------------------------------------------------------
Sns == 0 .. MAX_GMA_SN
Lsns == 0 .. MAX_GMA_LSN
Items == [sn : Sns, id : Nat, inOrder : BOOLEAN]
DataPackets == [type : {"data"}, sn : Sns, lsn : Lsns, id : Nat]
EndMarkers == [type : {"end"}]

\* Type invariant: what is queued and in flight, the state of the receiver and of the
\* transmitter.
TypeOK ==
    /\ scenario \in Scenarios
    /\ m_reorderingQueue \in [Links -> Seq(Items)]
    /\ m_gmaRxExpectedSn \in Sns
    /\ m_gmaRxLast \in [Links -> [sn : Sns, lsn : Lsns]]
    /\ m_enableReordering \in BOOLEAN /\ m_useLsnReordering \in BOOLEAN
    /\ m_newLinkCid \in Links \cup {NoCid}
    /\ m_reorderingTimeoutEvent \in BOOLEAN /\ m_stopReorderEvent \in BOOLEAN
    /\ up \subseteq Links
    /\ forwarded \in Seq(Nat)
    /\ sent \in 0 .. scenario.maxPackets
    /\ m_gmaTxLocalSn \in [Links -> Lsns]
    /\ deliveryLink \in scenario.links
    /\ steers \in Nat
    /\ wire \in [Links -> Seq(DataPackets \cup EndMarkers)]

\* Packets reach the application in the order they were sent, and none twice.  In
\* split mode that is so whatever is lost, times out or fails ("this way, we make
\* sure the packets are released in order!", ReleaseInOrderPackets); in steer mode
\* StopReordering ends the promise when something is lost or times out.
ForwardedInOrder ==
    (scenario.mode = "split" \/ (scenario.mode = "steer" /\ scenario.faults = {}))
        => \A i \in 1 .. (Len(forwarded) - 1) : forwarded[i] < forwarded[i + 1]

\* As long as nothing times out and no link fails, no packet that arrives is thrown
\* away as too late: InOrderDelivery and ReleaseMinSnPacket skip a gap only when
\* what is missing was lost.
OnlyLostPacketsAreSkipped ==
    (scenario.mode = "split" /\ scenario.faults \subseteq {"loss"}) => discarded = {}

\* "The reordering cannot be expired": whenever a packet is queued, reordering is
\* on and the timer that will release it is running.
QueuedPacketsHaveTimer ==
    TotalQueueSize(m_reorderingQueue) > 0 => m_enableReordering /\ m_reorderingTimeoutEvent

\* No packet is held for ever: the queues are empty again and again, although what
\* they wait for may never arrive (ReorderingTimeout).
QueuesDrain ==
    (May("timeout") /\ TotalQueueSize(m_reorderingQueue) > 0)
        ~> TotalQueueSize(m_reorderingQueue) = 0

\* Unless the peer sends copies, no packet is forwarded twice (MeasureAndForward),
\* even when steering, time-outs and end markers interleave.
NoPacketTwice ==
    scenario.mode # "duplicate"
        => \A i, j \in DOMAIN forwarded : forwarded[i] = forwarded[j] => i = j

=============================================================================
