----------------------------- MODULE CtrlChannel -----------------------------
(***************************************************************************)
(* The control channel between two GMA endpoints                           *)
(* (contrib/gma/model/gma-virtual-interface.cc): probes, TSUs and their    *)
(* acknowledgements, retransmission, and what they do to the link registry *)
(* (LinkState) of the sender.                                              *)
(*                                                                         *)
(* One endpoint is the receiver of the data: it decides how the traffic is *)
(* split and tells its peer with TSU messages.  The peer only transmits    *)
(* data: it adopts the split, follows the link bit map of the messages and *)
(* answers.  Messages may be lost, delayed and reordered: a message that   *)
(* is not lost may be delivered at any later time or never.                *)
(***************************************************************************)
EXTENDS Integers, FiniteSets

CONSTANTS
    Links,             \* the configured cids
    MAX_RETX_ATTEMPT,  \* 5 in the code
    FirstCsn,          \* 0, or the csn of an interface that has been running
    Scenarios          \* bounds: one is chosen at the start

WIFI_CID == 0
CsnSpace == 65536      \* a csn is a uint16_t

\* A scenario bounds the rounds of PeriodicProbeMsg, the TSUs that the measurement
\* cycle or an action asks for, the crossings of the Wi-Fi power thresholds and the
\* messages in flight, either way (the others are lost); and it sets the attribute
\* "PreferLargeCidValue".
ScenarioType ==
    [probes : Nat, decisions : Nat, powers : Nat, inFlight : Nat, preferLarge : BOOLEAN]

ASSUME ChannelAssumption ==
    /\ Links \subseteq 0 .. 254
    /\ IsFiniteSet(Links)
    /\ WIFI_CID \in Links
    /\ MAX_RETX_ATTEMPT \in Nat
    /\ FirstCsn \in 0 .. (CsnSpace - 1)
    /\ \A s \in Scenarios : s \in ScenarioType

VARIABLES
    m_cidList, m_defaultLinkCid, m_fixDefaultLink,  \* the link registry
    m_preferLargeCidValue,
    m_ctrFailed, m_lowQuality, m_bitmapFailed,
    m_mxCtrSeqNumber,         \* the next csn
    m_txedCtrQueue,           \* what is not acknowledged; every entry has one timer running
    m_lastSplit,              \* the links with a share in m_lastSplittingIndexList
    m_measurementOn,
    m_maxTsaSn,
    m_enableMarkCtrlLinkMap,
    m_wifiPowerRange,         \* 0 low, 1 high
    wire, acks,               \* the messages in flight to the peer and back
    peer,                     \* the peer: m_maxTsuSeqNum, m_maxLinkMapUpdateSn, its split, its bit map
    used                      \* the scenario, and what is used up of its bounds

linkVars == <<m_cidList, m_defaultLinkCid, m_fixDefaultLink, m_preferLargeCidValue,
              m_ctrFailed, m_lowQuality, m_bitmapFailed>>

\* What the specification remembers to state the properties: the split of the
\* last TSU, the csns it was sent under, whether it was answered, whether the
\* retransmission of an older TSU has overtaken it, and whether a TSU was given up.
VARIABLES lastTsu, tsuGivenUp

history == <<lastTsu, tsuGivenUp>>

vars == <<linkVars, m_mxCtrSeqNumber, m_txedCtrQueue, m_lastSplit, m_measurementOn,
          m_maxTsaSn, m_enableMarkCtrlLinkMap, m_wifiPowerRange, wire, acks, peer, used,
          history>>

LS == INSTANCE LinkState
        WITH Cids <- Links, DefaultLinkCid <- WIFI_CID, FixDefaultLink <- FALSE

\* The largest csn seen, by either side.
LastCsn == IF FirstCsn = 0 THEN 0 ELSE FirstCsn - 1

\* All links are configured; only the default one is used before it is probed.  An
\* interface that has been running has all its messages answered and its best link
\* as the default.
Init ==
    /\ used \in [probes : {0}, decisions : {0}, powers : {0}, scenario : Scenarios]
    /\ m_cidList = Links
    /\ m_fixDefaultLink = FALSE
    /\ m_preferLargeCidValue = used.scenario.preferLarge
    /\ m_defaultLinkCid \in Links
    /\ IF FirstCsn = 0 THEN m_defaultLinkCid = WIFI_CID
       ELSE \A cid \in Links : ~ LS!Outranks(cid, m_defaultLinkCid)
    /\ m_ctrFailed = IF FirstCsn = 0 THEN Links \ {WIFI_CID} ELSE {}
    /\ m_lowQuality = {}
    /\ m_bitmapFailed = {}
    /\ m_mxCtrSeqNumber = FirstCsn
    /\ m_txedCtrQueue = {}
    /\ m_lastSplit = {}
    /\ m_measurementOn = TRUE
    /\ m_maxTsaSn = LastCsn
    /\ m_enableMarkCtrlLinkMap = FALSE
    /\ m_wifiPowerRange = 1
    /\ wire = {}
    /\ acks = {}
    /\ peer = [maxTsuSeqNum |-> LastCsn, maxLinkMapUpdateSn |-> LastCsn,
               split |-> {}, wifiUp |-> TRUE]
    /\ lastTsu = [split |-> {}, csns |-> {}, answered |-> FALSE, overtaken |-> FALSE]
    /\ tsuGivenUp = FALSE

-----------------------------------------------------------------------------
(***************************************************************************)
(* Sequence numbers and messages.                                          *)
(***************************************************************************)

\* Mutant of CsnDiff: no wrap-around.
PlainDiff(x1, x2) == x1 - x2

CsnDiff(x1, x2) ==
    LET diff == x1 - x2
    IN  IF diff > 32768 THEN diff - 65536
        ELSE IF diff < -32768 THEN diff + 65536
        ELSE diff

\* The csn `n` messages from now.
CsnAfter(n) == (m_mxCtrSeqNumber + n) % CsnSpace

\* An entry of m_txedCtrQueue: its key, the type and the cid of the stored header,
\* the split a TSU carries, and the csns of all its transmissions.
Entry(type, cid, split, csn) ==
    [first |-> csn, type |-> type, cid |-> cid, split |-> split, csns |-> {csn}]

\* SetLinkStatus: the bit of the Wi-Fi link, evaluated when the message is sent.
LinkStatus == m_enableMarkCtrlLinkMap => LS!IsLinkUp(WIFI_CID)

\* The links SendCtrlMsg sends an entry over: a TSU goes over all the links it
\* gives a share, everything else over the cid of its header.
SentOver(entry) == IF entry.type = "tsu" THEN entry.split ELSE {entry.cid}

\* The copies of one transmission.
Copies(entry, csn, wifiUp) ==
    {[type |-> entry.type, cid |-> cid, csn |-> csn, split |-> entry.split, wifiUp |-> wifiUp] :
        cid \in SentOver(entry)}

\* The network takes the copies that it does not lose.
Send(copies) ==
    \E taken \in SUBSET copies :
        /\ Cardinality(wire \cup taken) + Cardinality(acks) <= used.scenario.inFlight
        /\ wire' = wire \cup taken

\* Every interface sends its first probes before it measures anything.
Started == FirstCsn # 0 \/ used.probes > 0

NoTsuWaiting == \A entry \in m_txedCtrQueue : entry.type # "tsu"

\* SendTsu, next to `queue`: "it will be overwrited before sending to all links"
\* holds for the messages, the stored header keeps cid 0.
SendTsu(split, queue, wifiUp) ==
    LET entry == Entry("tsu", 0, split, m_mxCtrSeqNumber)
    IN  /\ m_txedCtrQueue' = queue \cup {entry}
        /\ Send(Copies(entry, m_mxCtrSeqNumber, wifiUp))
        /\ m_mxCtrSeqNumber' = CsnAfter(1)
        /\ lastTsu' = [split |-> split, csns |-> {m_mxCtrSeqNumber},
                       answered |-> FALSE, overtaken |-> FALSE]

\* GmaRxControl::LinkDownTsu, after the registry has marked `cid` down: the splits
\* it may ask for, none when no TSU is needed.  Before the first decision all
\* traffic is sent to the default link; after it the share of the link is dealt
\* out to links that are up.
LinkDownTsu(cid) ==
    IF m_lastSplit = {}
    THEN IF cid # m_defaultLinkCid' THEN {{m_defaultLinkCid'}} ELSE {}
    ELSE IF cid \in m_lastSplit /\ LS!UpLinks' # {}
    THEN {(m_lastSplit \ {cid}) \cup dealt : dealt \in (SUBSET LS!UpLinks') \ {{}}}
    ELSE {}

\* A trigger took `cid` down; `changed` is what it returned.  The rest of the
\* handler: LinkDownTsu, and SendTsu when it asks for one.
NotifyLinkDown(cid, changed, queue) ==
    IF ~ changed \/ LinkDownTsu(cid) = {}
    THEN /\ m_txedCtrQueue' = queue
         /\ UNCHANGED <<m_lastSplit, wire, m_mxCtrSeqNumber, lastTsu>>
    ELSE \E split \in LinkDownTsu(cid) :
            /\ m_lastSplit' = IF m_lastSplit = {} THEN {} ELSE split
            /\ SendTsu(split, queue, m_enableMarkCtrlLinkMap' => (WIFI_CID \in LS!UpLinks'))

\* What the down triggers of LinkState return.
TakenDown(cid) == LS!IsLinkUp(cid) /\ ~ m_fixDefaultLink

-----------------------------------------------------------------------------
(***************************************************************************)
(* Sending.                                                                *)
(***************************************************************************)

\* PeriodicProbeMsg: one probe per link, in the order of the cids.
ProbeCsn(cid) == CsnAfter(Cardinality({link \in Links : link < cid}))

PeriodicProbeMsg ==
    /\ used.probes < used.scenario.probes
    /\ used' = [used EXCEPT !.probes = @ + 1]
    /\ LET probe(cid) == Entry("probe", cid, {}, ProbeCsn(cid))
       IN  /\ m_txedCtrQueue' = m_txedCtrQueue \cup {probe(cid) : cid \in Links}
           /\ Send(UNION {Copies(probe(cid), ProbeCsn(cid), LinkStatus) : cid \in Links})
    /\ m_mxCtrSeqNumber' = CsnAfter(Cardinality(Links))
    /\ UNCHANGED <<linkVars, m_lastSplit, m_measurementOn, m_maxTsaSn,
                   m_enableMarkCtrlLinkMap, m_wifiPowerRange, acks, peer, history>>

\* A decision of the measurement cycle (MeasureIntervalEnd) stops the measurement
\* until the TSA; an action from outside (RlSplit) does not.
Decide(split, byMeasurement) ==
    /\ Started
    /\ used.decisions < used.scenario.decisions
    /\ byMeasurement => m_measurementOn
    /\ used' = [used EXCEPT !.decisions = @ + 1]
    /\ m_measurementOn' = (m_measurementOn /\ ~ byMeasurement)
    /\ m_lastSplit' = split
    /\ SendTsu(split, m_txedCtrQueue, LinkStatus)
    /\ UNCHANGED <<linkVars, m_maxTsaSn, m_enableMarkCtrlLinkMap, m_wifiPowerRange,
                   acks, peer, tsuGivenUp>>

\* Mutant of GiveUp: the entry stays in the queue.
GiveUpWithoutErase(entry) ==
    /\ Cardinality(entry.csns) > MAX_RETX_ATTEMPT
    /\ LS!CtrlMsgDown(entry.cid)
    /\ UNCHANGED <<m_enableMarkCtrlLinkMap>>
    /\ NotifyLinkDown(entry.cid, TakenDown(entry.cid), m_txedCtrQueue)
    /\ tsuGivenUp' = (tsuGivenUp \/ entry.type = "tsu")
    /\ UNCHANGED <<m_measurementOn, m_maxTsaSn, m_wifiPowerRange, acks, peer, used>>

\* RetxCtrlMsgExpires after too many attempts: the link of the stored header is
\* taken down and the message given up.
GiveUp(entry) ==
    /\ Cardinality(entry.csns) > MAX_RETX_ATTEMPT
    /\ LS!CtrlMsgDown(entry.cid)
    /\ UNCHANGED <<m_enableMarkCtrlLinkMap>>
    /\ NotifyLinkDown(entry.cid, TakenDown(entry.cid), m_txedCtrQueue \ {entry})
    /\ tsuGivenUp' = (tsuGivenUp \/ entry.type = "tsu")
    /\ UNCHANGED <<m_measurementOn, m_maxTsaSn, m_wifiPowerRange, acks, peer, used>>

\* RetxCtrlMsgExpires otherwise: the same content under a new csn, up to `limit`
\* times.
RetransmitWith(entry, limit) ==
    /\ Cardinality(entry.csns) <= limit
    /\ m_txedCtrQueue' = (m_txedCtrQueue \ {entry})
                            \cup {[entry EXCEPT !.csns = @ \cup {m_mxCtrSeqNumber}]}
    /\ Send(Copies(entry, m_mxCtrSeqNumber, LinkStatus))
    /\ m_mxCtrSeqNumber' = CsnAfter(1)
    /\ lastTsu' = IF entry.first \in lastTsu.csns
                  THEN [lastTsu EXCEPT !.csns = @ \cup {m_mxCtrSeqNumber}]
                  ELSE [lastTsu EXCEPT !.overtaken = @ \/ entry.type = "tsu"]
    /\ UNCHANGED <<linkVars, m_lastSplit, m_measurementOn, m_maxTsaSn,
                   m_enableMarkCtrlLinkMap, m_wifiPowerRange, acks, peer, used, tsuGivenUp>>

\* Mutant of Retransmit: one attempt too many.
RetransmitOnceMore(entry) == RetransmitWith(entry, MAX_RETX_ATTEMPT + 1)

Retransmit(entry) == RetransmitWith(entry, MAX_RETX_ATTEMPT)

RetxCtrlMsgExpires == \E entry \in m_txedCtrQueue : GiveUp(entry) \/ Retransmit(entry)

\* WifiPowerTrace: the received power leaves one range for the other.
WifiPowerTrace(range) ==
    /\ Started
    /\ used.powers < used.scenario.powers
    /\ range # m_wifiPowerRange
    /\ used' = [used EXCEPT !.powers = @ + 1]
    /\ m_wifiPowerRange' = range
    /\ m_enableMarkCtrlLinkMap' = TRUE
    /\ IF range = 0
       THEN /\ LS!LowRssiDown(WIFI_CID)
            /\ NotifyLinkDown(WIFI_CID, TakenDown(WIFI_CID), m_txedCtrQueue)
       ELSE /\ LS!HighRssiUp(WIFI_CID)
            /\ UNCHANGED <<m_txedCtrQueue, m_lastSplit, wire, m_mxCtrSeqNumber, lastTsu>>
    /\ UNCHANGED <<m_measurementOn, m_maxTsaSn, acks, peer, tsuGivenUp>>

-----------------------------------------------------------------------------
(***************************************************************************)
(* Receiving.                                                              *)
(***************************************************************************)

\* The peer's RecvCtrlMsg for a probe or a TSU: the link bit map first, whose
\* m_maxLinkMapUpdateSn is assigned whether or not the message is newer; then the
\* split of a newer TSU; then the answer over the same link, which may be lost.
PeerRecvCtrlMsg(msg) ==
    /\ wire' = wire \ {msg}
    /\ peer' = [maxLinkMapUpdateSn |-> msg.csn,
                wifiUp |-> IF CsnDiff(msg.csn, peer.maxLinkMapUpdateSn) > 0
                           THEN msg.wifiUp ELSE peer.wifiUp,
                maxTsuSeqNum |-> IF msg.type = "tsu" /\ CsnDiff(msg.csn, peer.maxTsuSeqNum) > 0
                                 THEN msg.csn ELSE peer.maxTsuSeqNum,
                split |-> IF msg.type = "tsu" /\ CsnDiff(msg.csn, peer.maxTsuSeqNum) > 0
                          THEN msg.split ELSE peer.split]
    /\ \/ acks' = acks \cup {[type |-> IF msg.type = "tsu" THEN "tsa" ELSE "ack",
                              cid |-> msg.cid, csn |-> msg.csn]}
       \/ UNCHANGED acks
    /\ UNCHANGED <<linkVars, m_mxCtrSeqNumber, m_txedCtrQueue, m_lastSplit, m_measurementOn,
                   m_maxTsaSn, m_enableMarkCtrlLinkMap, m_wifiPowerRange, used, history>>

\* Mutant of RecvAck: only the answer to the first transmission restarts the measurement.
RecvAckOfFirst(ack) ==
    /\ acks' = acks \ {ack}
    /\ IF \E entry \in m_txedCtrQueue : ack.csn \in entry.csns
       THEN /\ m_txedCtrQueue' = {entry \in m_txedCtrQueue : ack.csn \notin entry.csns}
            /\ IF /\ ack.type = "tsa" /\ CsnDiff(ack.csn, m_maxTsaSn) > 0
                  /\ \E entry \in m_txedCtrQueue : ack.csn = entry.first
               THEN m_maxTsaSn' = ack.csn /\ m_measurementOn' = TRUE
               ELSE UNCHANGED <<m_maxTsaSn, m_measurementOn>>
            /\ LS!CtrlMsgUp(ack.cid)
            /\ lastTsu' = [lastTsu EXCEPT !.answered = @ \/ ack.csn \in lastTsu.csns]
       ELSE UNCHANGED <<linkVars, m_txedCtrQueue, m_maxTsaSn, m_measurementOn, lastTsu>>
    /\ UNCHANGED <<m_mxCtrSeqNumber, m_lastSplit, m_enableMarkCtrlLinkMap, m_wifiPowerRange,
                   wire, peer, used, tsuGivenUp>>

\* RecvCtrlMsg for an ACK or a TSA, of the first transmission or of a later one.
\* Without an entry it is ignored.
RecvAck(ack) ==
    /\ acks' = acks \ {ack}
    /\ IF \E entry \in m_txedCtrQueue : ack.csn \in entry.csns
       THEN /\ m_txedCtrQueue' = {entry \in m_txedCtrQueue : ack.csn \notin entry.csns}
            /\ IF ack.type = "tsa" /\ CsnDiff(ack.csn, m_maxTsaSn) > 0
               THEN m_maxTsaSn' = ack.csn /\ m_measurementOn' = TRUE
               ELSE UNCHANGED <<m_maxTsaSn, m_measurementOn>>
            /\ LS!CtrlMsgUp(ack.cid)
            /\ lastTsu' = [lastTsu EXCEPT !.answered = @ \/ ack.csn \in lastTsu.csns]
       ELSE UNCHANGED <<linkVars, m_txedCtrQueue, m_maxTsaSn, m_measurementOn, lastTsu>>
    /\ UNCHANGED <<m_mxCtrSeqNumber, m_lastSplit, m_enableMarkCtrlLinkMap, m_wifiPowerRange,
                   wire, peer, used, tsuGivenUp>>

Next ==
    \/ PeriodicProbeMsg
    \/ \E split \in (SUBSET Links) \ {{}}, byMeasurement \in BOOLEAN : Decide(split, byMeasurement)
    \/ RetxCtrlMsgExpires
    \/ \E range \in {0, 1} : WifiPowerTrace(range)
    \/ \E msg \in wire : PeerRecvCtrlMsg(msg)
    \/ \E ack \in acks : RecvAck(ack)

Spec == Init /\ [][Next]_vars

\* The timers of the unacknowledged messages fire; nothing else must happen.
FairSpec == Spec /\ WF_vars(RetxCtrlMsgExpires)

-----------------------------------------------------------------------------
\* The csns, and the records of the queue and of the two directions.
Csns == 0 .. (CsnSpace - 1)
CtrlTypes == {"probe", "tsu"}
Entries == [first : Csns, type : CtrlTypes, cid : Links, split : SUBSET Links, csns : SUBSET Csns]
CtrlMsgs == [type : CtrlTypes, cid : Links, csn : Csns, split : SUBSET Links, wifiUp : BOOLEAN]
Acks == [type : {"ack", "tsa"}, cid : Links, csn : Csns]

\* Type invariant of the control channel.
TypeOK ==
    /\ LS!TypeOK /\ m_cidList = Links
    /\ m_mxCtrSeqNumber \in Csns /\ m_maxTsaSn \in Csns
    /\ m_txedCtrQueue \subseteq Entries
    /\ \A entry \in m_txedCtrQueue :
          /\ entry.first \in entry.csns
          /\ SentOver(entry) # {}
          /\ IsFiniteSet(entry.csns) /\ Cardinality(entry.csns) <= MAX_RETX_ATTEMPT + 1
    /\ m_lastSplit \subseteq Links
    /\ m_measurementOn \in BOOLEAN /\ m_enableMarkCtrlLinkMap \in BOOLEAN
    /\ m_wifiPowerRange \in {0, 1}
    /\ wire \subseteq CtrlMsgs /\ acks \subseteq Acks
    /\ peer \in [maxTsuSeqNum : Csns, maxLinkMapUpdateSn : Csns, split : SUBSET Links, wifiUp : BOOLEAN]
    /\ used \in [probes : Nat, decisions : Nat, powers : Nat, scenario : Scenarios]
    /\ lastTsu \in [split : SUBSET Links, csns : SUBSET Csns, answered : BOOLEAN,
                   overtaken : BOOLEAN]
    /\ tsuGivenUp \in BOOLEAN

\* When the last TSU has been answered, the peer splits the traffic as it says,
\* however many copies were lost, delayed or reordered and however many TSUs were
\* unanswered at the same time ("forwad msg to control only if this TSU has bigger
\* sn").  The one exception: RetxCtrlMsgExpires gives the retransmission of an older
\* TSU a new csn, so that the peer takes it for the newer of the two.
AnsweredTsuIsAdopted ==
    (lastTsu.answered /\ ~ lastTsu.overtaken) => peer.split = lastTsu.split

\* While the measurement is stopped a TSU is on its way whose TSA restarts it
\* ("MeasureCycleStartByTsa will be triggered by a tsu msg"), whatever else is sent,
\* repeated or answered in between; only a TSU that is given up leaves it stopped.
StoppedMeasurementAwaitsTsa == m_measurementOn \/ ~ NoTsuWaiting \/ tsuGivenUp

\* After the last probe and the last decision the queue empties for good: every
\* message is acknowledged or given up (RetxCtrlMsgExpires), and the TSUs that
\* giving up sends (LinkDownTsu) do not go on for ever.
EveryMessageSettles == <>[](m_txedCtrQueue = {})

=============================================================================
