------------------------------ MODULE PhyAccess ------------------------------
(***************************************************************************)
(* Access point selection of the Wi-Fi link                                *)
(* (contrib/gma/model/phy-access-control.cc): the client's scan of the     *)
(* received powers, the test probe over a better access point, its answer  *)
(* and its timeout, the switch; and the server's copy of the client's      *)
(* address, which follows the probes (AddRemotePhyIp, AddPhyLink).         *)
(*                                                                         *)
(* An address is named by its access point.  Every probe, new or           *)
(* retransmitted, has a csn of its own.  Packets may be lost and           *)
(* reordered; a packet that is not lost stays in `net` until delivered.    *)
(* Time is left out: a timer may end at any moment after it was started.   *)
(***************************************************************************)
EXTENDS Integers, Sequences, FiniteSets

CONSTANTS
    Aps,                 \* the ids of the candidate access points
    FirstAp,             \* the one the link is created with
    Powers,              \* the received powers, in dBm, that may be reported
    RoamingLowRssi,      \* RoamingLowRssi, -79 by default
    SingleRadioValues,   \* whether SimulateLinkDownTime may be more than 0
    EmulateDelayValues,  \* whether the server may delay the packets of the link
    Csns,                \* csns; more of them than packets in flight
    MaxReports,          \* bound: reports after the first ones
    MaxInFlight          \* bound: packets in flight

WIFI_ROAMING_RSSI_THRESH == 3
NoPower == -1000         \* "no trace available"

ASSUME PhyAssumption ==
    /\ Aps \subseteq Nat /\ FirstAp \in Aps
    /\ Powers \subseteq {p \in Int : p > NoPower} /\ RoamingLowRssi \in Int
    /\ SingleRadioValues \subseteq BOOLEAN /\ EmulateDelayValues \subseteq BOOLEAN
    /\ 0 \in Csns
    /\ MaxReports \in Nat /\ MaxInFlight \in Nat

VARIABLES
    m_idToRssiMap,     \* per access point, the last power or NoPower
    m_currentApId, m_bestApId,
    m_ipAddr,          \* the access point whose address the client sends to
    m_testProbeAcked, m_testProbeSn,
    timeouts,          \* how many TestProbeTimeout events are scheduled
    down,              \* the client is within the link down time after a change
    server,            \* the server: its address of the client, its link down time
    net,               \* the packets in flight, either way
    delayed,           \* answers that wait for the emulated delay at the server
    reports            \* reports so far

\* Attributes of the simulation: a single radio, a delay emulated at the server.
VARIABLES singleRadio, emulateDelay

client == <<m_currentApId, m_bestApId, m_ipAddr, m_testProbeAcked, m_testProbeSn, timeouts, down>>
config == <<singleRadio, emulateDelay>>
vars == <<m_idToRssiMap, client, server, net, delayed, reports, config>>

\* The link is created with its first access point.  Some access points may have
\* been heard: the current one is among them as soon as one is (ScanRssi asserts it).
Init ==
    /\ m_idToRssiMap \in [Aps -> Powers \cup {NoPower}]
    /\ m_idToRssiMap[FirstAp] = NoPower => \A ap \in Aps : m_idToRssiMap[ap] = NoPower
    /\ m_currentApId = FirstAp /\ m_bestApId = FirstAp /\ m_ipAddr = FirstAp
    /\ m_testProbeAcked = TRUE
    /\ m_testProbeSn = 0
    /\ timeouts = 0
    /\ down = FALSE
    /\ server = [ip |-> FirstAp, down |-> FALSE]
    /\ net = <<>>
    /\ delayed = <<>>
    /\ reports = 0
    /\ singleRadio \in SingleRadioValues
    /\ emulateDelay \in EmulateDelayValues

-----------------------------------------------------------------------------
(***************************************************************************)
(* Packets.                                                                *)
(***************************************************************************)

\* A packet: the access point it is sent over; whether it belongs to a test probe
\* (ProbeFlag 0).
Packet == [type : {"probe", "ack"}, ap : Aps, test : BOOLEAN, sn : Csns]

Probe(ap, test, sn) == [type |-> "probe", ap |-> ap, test |-> test, sn |-> sn]

Ack(ap, probe) == [probe EXCEPT !.type = "ack", !.ap = ap]

Without(packets, i) == SubSeq(packets, 1, i - 1) \o SubSeq(packets, i + 1, Len(packets))

\* The csns of the packets in flight and of the last test.
InUse == {net[i].sn : i \in 1 .. Len(net)} \cup {delayed[i].sn : i \in 1 .. Len(delayed)}
            \cup {m_testProbeSn}

\* The next value of m_mxCtrSeqNumber: a csn no packet in flight has.
NewSn == CHOOSE n \in Csns \ InUse : TRUE

Room == Len(net) + Len(delayed) < MaxInFlight /\ Csns \ InUse # {}

-----------------------------------------------------------------------------
(***************************************************************************)
(* The client.                                                             *)
(***************************************************************************)

\* ReportRssi.  The current access point is heard first.
ReportRssi(power, apId) ==
    /\ reports < MaxReports
    /\ apId # m_currentApId => m_idToRssiMap[m_currentApId] # NoPower
    /\ m_idToRssiMap' = [m_idToRssiMap EXCEPT ![apId] = power]
    /\ reports' = reports + 1
    /\ UNCHANGED <<client, server, net, delayed, config>>

\* The first access point, in the order of the map, with the largest power.
IsStrongest(ap) ==
    \A other \in Aps : \/ m_idToRssiMap[other] < m_idToRssiMap[ap]
                       \/ m_idToRssiMap[other] = m_idToRssiMap[ap] /\ ap <= other

\* The access point a scan finds to move to, if any.
BetterAps ==
    {ap \in Aps :
        /\ ~ (singleRadio /\ m_idToRssiMap[m_currentApId] > RoamingLowRssi)
        /\ IsStrongest(ap)
        /\ m_idToRssiMap[ap] > m_idToRssiMap[m_currentApId] + WIFI_ROAMING_RSSI_THRESH}

\* Mutant of ScanRssi: a single radio scans whatever the power of its access point.
ScanAlways ==
    LET better == {ap \in Aps : m_idToRssiMap[ap] > m_idToRssiMap[m_currentApId] + WIFI_ROAMING_RSSI_THRESH}
    IN  IF better = {} THEN m_bestApId ELSE CHOOSE ap \in better : TRUE

\* ScanRssi: m_bestApId after the scan.  It is not reset when nothing better is found.
ScanRssi == IF BetterAps = {} THEN m_bestApId ELSE CHOOSE ap \in BetterAps : TRUE

\* The client moves to m_bestApId, as the scan `best` left it, without a test.
SwitchNow(best) ==
    /\ m_currentApId' = best
    /\ m_bestApId' = best
    /\ m_ipAddr' = best
    /\ down' = singleRadio
    /\ UNCHANGED <<m_testProbeAcked, m_testProbeSn, timeouts>>

\* Mutant of TestProbe: no timeout is scheduled.
TestProbeWithoutTimeout(best) ==
    /\ m_bestApId' = best
    /\ m_testProbeAcked' = FALSE
    /\ m_testProbeSn' = NewSn
    /\ UNCHANGED <<m_currentApId, m_ipAddr, down, timeouts>>

\* The probe goes over the better access point, as a test.
TestProbe(best) ==
    /\ m_bestApId' = best
    /\ m_testProbeAcked' = FALSE
    /\ m_testProbeSn' = NewSn
    /\ timeouts' = timeouts + 1
    /\ UNCHANGED <<m_currentApId, m_ipAddr, down>>

\* SendPacket for a probe.  While a test is pending, or when nothing better is
\* known, the probe is sent as it is; a switch at once precedes its sending.
SendProbe ==
    LET best == ScanRssi
        atOnce == singleRadio \/ m_idToRssiMap[m_currentApId] < RoamingLowRssi
    IN  /\ Room
        /\ ~ (singleRadio /\ down)
        /\ \/ /\ best # m_currentApId /\ atOnce
              /\ SwitchNow(best)
              /\ net' = Append(net, Probe(best, FALSE, NewSn))
           \/ /\ best # m_currentApId /\ ~ atOnce /\ m_testProbeAcked
              /\ TestProbe(best)
              /\ net' = Append(net, Probe(best, TRUE, NewSn))
           \/ /\ best = m_currentApId \/ (~ atOnce /\ ~ m_testProbeAcked)
              /\ m_bestApId' = best
              /\ net' = Append(net, Probe(m_ipAddr, FALSE, NewSn))
              /\ UNCHANGED <<m_currentApId, m_ipAddr, m_testProbeAcked, m_testProbeSn, timeouts, down>>
        /\ UNCHANGED <<m_idToRssiMap, server, delayed, reports, config>>

\* Mutants of TestProbeTimeout: it fires unscheduled; the test stays pending.
UnscheduledTimeout ==
    /\ timeouts' = timeouts - 1
    /\ m_bestApId' = IF m_testProbeAcked THEN m_bestApId ELSE m_currentApId
    /\ m_testProbeAcked' = TRUE
    /\ UNCHANGED <<m_idToRssiMap, m_currentApId, m_ipAddr, m_testProbeSn, down,
                   server, net, delayed, reports, config>>
TimeoutKeepsTest ==
    /\ timeouts > 0
    /\ timeouts' = timeouts - 1
    /\ m_bestApId' = IF m_testProbeAcked THEN m_bestApId ELSE m_currentApId
    /\ UNCHANGED <<m_idToRssiMap, m_currentApId, m_ipAddr, m_testProbeAcked, m_testProbeSn, down,
                   server, net, delayed, reports, config>>

\* TestProbeTimeout.  The event does not know which test it was scheduled for, and
\* an answer does not cancel it.
TestProbeTimeout ==
    /\ timeouts > 0
    /\ timeouts' = timeouts - 1
    /\ m_bestApId' = IF m_testProbeAcked THEN m_bestApId ELSE m_currentApId
    /\ m_testProbeAcked' = TRUE
    /\ UNCHANGED <<m_idToRssiMap, m_currentApId, m_ipAddr, m_testProbeSn, down,
                   server, net, delayed, reports, config>>

\* ReceiveOk: a single radio hears its own access point only, after the down time.
ReceiveOk(ap, ip, isDown) == singleRadio => (ap = ip /\ ~ isDown)

\* Mutant of ProbeAcked: the address stays ("the IP address will be changed at the
\* next probe").
ProbeAckedKeepsIp(sn) ==
    IF ~ m_testProbeAcked /\ sn = m_testProbeSn
    THEN /\ m_currentApId' = m_bestApId
         /\ down' = singleRadio
         /\ m_testProbeAcked' = TRUE
         /\ UNCHANGED <<m_bestApId, m_ipAddr, m_testProbeSn, timeouts>>
    ELSE UNCHANGED client

\* ProbeAcked: the answer to the pending test moves the client to m_bestApId.
ProbeAcked(sn) ==
    IF ~ m_testProbeAcked /\ sn = m_testProbeSn
    THEN /\ m_currentApId' = m_bestApId
         /\ m_ipAddr' = m_bestApId
         /\ down' = singleRadio
         /\ m_testProbeAcked' = TRUE
         /\ UNCHANGED <<m_bestApId, m_testProbeSn, timeouts>>
    ELSE UNCHANGED client

RecvAck(i) ==
    /\ net[i].type = "ack"
    /\ net' = Without(net, i)
    /\ IF ReceiveOk(net[i].ap, m_ipAddr, down) THEN ProbeAcked(net[i].sn) ELSE UNCHANGED client
    /\ UNCHANGED <<m_idToRssiMap, server, delayed, reports, config>>

\* m_ipChangeTime + m_simulateLinkDownTime is reached.
ClientDownTimeEnds ==
    /\ down
    /\ down' = FALSE
    /\ UNCHANGED <<m_idToRssiMap, m_currentApId, m_bestApId, m_ipAddr, m_testProbeAcked,
                   m_testProbeSn, timeouts, server, net, delayed, reports, config>>

-----------------------------------------------------------------------------
(***************************************************************************)
(* The server.                                                             *)
(***************************************************************************)

\* VirtualRecv, AddRemotePhyIp and AddPhyLink: a probe that is not a test moves the
\* server to the address it came from, whatever its csn.
AddPhyLink(probe) ==
    IF ~ probe.test /\ probe.ap # server.ip THEN [ip |-> probe.ap, down |-> singleRadio] ELSE server

\* The answer is sent to the address the test probe came from: SetIp, SendByCid,
\* SetIp.  SendByCid waits when a delay is emulated, and then uses the address that
\* is set when the delay is over.
AnswerAp(probe) == IF probe.test THEN probe.ap ELSE server'.ip

\* The server receives a probe: the address first, then ReceiveOk, then the answer.
RecvProbe(i) ==
    LET probe == net[i]
    IN  /\ probe.type = "probe"
        /\ server' = AddPhyLink(probe)
        /\ IF ~ ReceiveOk(probe.ap, server'.ip, server'.down)
           THEN net' = Without(net, i) /\ UNCHANGED delayed
           ELSE IF emulateDelay
           THEN net' = Without(net, i) /\ delayed' = Append(delayed, Ack(server'.ip, probe))
           ELSE net' = Append(Without(net, i), Ack(AnswerAp(probe), probe)) /\ UNCHANGED delayed
        /\ UNCHANGED <<m_idToRssiMap, client, reports, config>>

\* SendByCidNow at the end of the emulated delay; within the down time SendPacket
\* drops the packet.
SendDelayed(i) ==
    /\ delayed' = Without(delayed, i)
    /\ IF singleRadio /\ server.down
       THEN UNCHANGED net
       ELSE net' = Append(net, [delayed[i] EXCEPT !.ap = server.ip])
    /\ UNCHANGED <<m_idToRssiMap, client, server, reports, config>>

ServerDownTimeEnds ==
    /\ server.down
    /\ server' = [server EXCEPT !.down = FALSE]
    /\ UNCHANGED <<m_idToRssiMap, client, net, delayed, reports, config>>

-----------------------------------------------------------------------------
\* The network loses a packet.
Lose(i) ==
    /\ net' = Without(net, i)
    /\ UNCHANGED <<m_idToRssiMap, client, server, delayed, reports, config>>

Next ==
    \/ \E power \in Powers, apId \in Aps : ReportRssi(power, apId)
    \/ SendProbe
    \/ TestProbeTimeout
    \/ \E i \in 1 .. Len(net) : RecvAck(i) \/ RecvProbe(i) \/ Lose(i)
    \/ ClientDownTimeEnds
    \/ ServerDownTimeEnds
    \/ \E i \in 1 .. Len(delayed) : SendDelayed(i)

Spec == Init /\ [][Next]_vars

\* The packet is of the pending test.
OfTest(packet) == ~ m_testProbeAcked /\ packet.sn = m_testProbeSn

Packets == 1 .. MaxInFlight

\* Probes are periodic, timers fire, and no packet stays in flight for ever.  Of
\* infinitely many probes some arrive, and of infinitely many tests some are
\* answered before a timeout.
FairSpec ==
    /\ Spec
    /\ SF_vars(SendProbe)
    /\ WF_vars(net # <<>> /\ (RecvAck(1) \/ RecvProbe(1) \/ Lose(1)))
    /\ SF_vars(\E i \in Packets : i <= Len(net) /\ ~ net[i].test /\ RecvProbe(i))
    /\ SF_vars(\E i \in Packets : i <= Len(net) /\ OfTest(net[i]) /\ RecvProbe(i))
    /\ SF_vars(\E i \in Packets : i <= Len(delayed) /\ OfTest(delayed[i]) /\ SendDelayed(i))
    /\ SF_vars(\E i \in Packets : i <= Len(net) /\ OfTest(net[i]) /\ RecvAck(i))
    /\ WF_vars(delayed # <<>> /\ SendDelayed(1))
    /\ WF_vars(TestProbeTimeout)
    /\ WF_vars(ClientDownTimeEnds)
    /\ WF_vars(ServerDownTimeEnds)

-----------------------------------------------------------------------------
\* Type invariant of the access point selection.
TypeOK ==
    /\ m_idToRssiMap \in [Aps -> Powers \cup {NoPower}]
    /\ m_currentApId \in Aps /\ m_bestApId \in Aps /\ m_ipAddr \in Aps
    /\ m_testProbeAcked \in BOOLEAN /\ m_testProbeSn \in Csns
    /\ timeouts \in Nat
    /\ down \in BOOLEAN
    /\ server \in [ip : Aps, down : BOOLEAN]
    /\ net \in Seq(Packet) /\ delayed \in Seq(Packet)
    /\ reports \in Nat
    /\ singleRadio \in BOOLEAN /\ emulateDelay \in BOOLEAN

\* Part of the inductive invariant: an access point is only preferred to the current
\* one while a test of it is pending, so nobody moves later on a power that was
\* measured long ago (ScanRssi does not reset m_bestApId itself).
BestIsForTest == m_bestApId # m_currentApId => ~ m_testProbeAcked

\* A pending test has a timeout ahead of it.  Without one no further access point
\* would ever be tested.
PendingTestTimesOut == ~ m_testProbeAcked => timeouts > 0

\* A single radio leaves its access point only when the power is not above
\* RoamingLowRssi ("single radio and current ap power larger than low thresh...
\* stay in current AP").
SingleRadioStaysOnGoodAp ==
    [][singleRadio /\ m_currentApId' # m_currentApId
        => m_idToRssiMap[m_currentApId] <= RoamingLowRssi]_vars

\* When the powers stop changing, the client ends up on an access point that no
\* scan would leave, whatever tests and answers were lost, and stays there.
ClientSettles == <>[](BetterAps = {} /\ m_bestApId = m_currentApId)

\* The server ends up with the address of the access point the client is on,
\* although a delayed probe of an access point the client has left moves it back
\* (AddRemotePhyIp does not look at the csn).
ServerFollowsClient == <>[](server.ip = m_currentApId /\ m_ipAddr = m_currentApId)

=============================================================================
