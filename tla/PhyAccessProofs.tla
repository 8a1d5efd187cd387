--------------------------- MODULE PhyAccessProofs ---------------------------
(***************************************************************************)
(* Proofs about PhyAccess, for every set of access points, powers and csns *)
(* and every bound, with and without a single radio.                       *)
(***************************************************************************)
EXTENDS PhyAccess, TLAPS

\* Removing a packet leaves a sequence of packets.
LEMMA WithoutType ==
    ASSUME NEW S, NEW s \in Seq(S), NEW i \in 1 .. Len(s)
    PROVE  Without(s, i) \in Seq(S)
  BY DEF Without

\* So does adding one.
LEMMA AppendType ==
    ASSUME NEW S, NEW s \in Seq(S), NEW e \in S
    PROVE  Append(s, e) \in Seq(S)
  OBVIOUS

\* What SendProbe does: it switches at once, sends a test, or sends the probe as it is.
LEMMA SendProbeCases ==
    ASSUME SendProbe
    PROVE  /\ UNCHANGED <<m_idToRssiMap, server, delayed, reports, singleRadio, emulateDelay>>
           /\ \/ /\ ScanRssi # m_currentApId
                 /\ SwitchNow(ScanRssi)
                 /\ net' = Append(net, Probe(ScanRssi, FALSE, NewSn))
              \/ /\ ~ singleRadio
                 /\ TestProbe(ScanRssi)
                 /\ net' = Append(net, Probe(ScanRssi, TRUE, NewSn))
              \/ /\ ScanRssi = m_currentApId \/ ~ m_testProbeAcked
                 /\ m_bestApId' = ScanRssi
                 /\ net' = Append(net, Probe(m_ipAddr, FALSE, NewSn))
                 /\ UNCHANGED <<m_currentApId, m_ipAddr, m_testProbeAcked, m_testProbeSn,
                                timeouts, down>>
  BY Zenon DEF SendProbe, config

\* A scan yields an access point, and another one than before only from BetterAps.
LEMMA ScanType ==
    ASSUME TypeOK
    PROVE  ScanRssi \in Aps /\ (ScanRssi # m_bestApId => ScanRssi \in BetterAps)
  BY DEF TypeOK, ScanRssi, BetterAps

\* Where there is room, the next csn is a csn.
LEMMA NewSnType ==
    ASSUME Room
    PROVE  NewSn \in Csns
  BY DEF Room, NewSn

\* The answer to a packet is a packet.
LEMMA AckType ==
    ASSUME NEW p \in Packet, NEW ap \in Aps
    PROVE  Ack(ap, p) \in Packet
  BY DEF Packet, Ack

\* The type invariant is inductive: every step of the client, of the server and of
\* the network keeps it.
LEMMA TypeInductive ==
    ASSUME TypeOK, [Next]_vars
    PROVE  TypeOK'
  <1>1. CASE UNCHANGED vars
    BY <1>1 DEF TypeOK, vars, client, config
  <1>2. CASE \E power \in Powers, apId \in Aps : ReportRssi(power, apId)
    BY <1>2 DEF TypeOK, ReportRssi, client, config
  <1>3. CASE SendProbe
    <2>1. ScanRssi \in Aps
      BY ScanType
    <2>2. NewSn \in Csns
      BY <1>3, NewSnType DEF SendProbe
    <2>3. \A ap \in Aps, test \in BOOLEAN : Probe(ap, test, NewSn) \in Packet
      BY <2>2 DEF Probe, Packet
    <2>4. net' \in Seq(Packet)
      <3>1. net \in Seq(Packet) /\ m_ipAddr \in Aps
        BY DEF TypeOK
      <3>2. \A ap \in Aps, test \in BOOLEAN : Append(net, Probe(ap, test, NewSn)) \in Seq(Packet)
        BY <2>3, <3>1, AppendType
      <3>3. /\ Append(net, Probe(ScanRssi, FALSE, NewSn)) \in Seq(Packet)
            /\ Append(net, Probe(ScanRssi, TRUE, NewSn)) \in Seq(Packet)
            /\ Append(net, Probe(m_ipAddr, FALSE, NewSn)) \in Seq(Packet)
        BY <2>1, <3>1, <3>2
      <3> QED
        BY <1>3, <3>3, SendProbeCases, Zenon
    <2>5. CASE SwitchNow(ScanRssi)
      BY <1>3, <2>1, <2>4, <2>5, SendProbeCases DEF SwitchNow, TypeOK
    <2>6. CASE TestProbe(ScanRssi)
      <3>1. m_testProbeAcked' = FALSE /\ timeouts' = timeouts + 1 /\ m_testProbeSn' = NewSn
        BY <2>6 DEF TestProbe
      <3>2. m_bestApId' = ScanRssi /\ UNCHANGED <<m_currentApId, m_ipAddr, down>>
        BY <2>6 DEF TestProbe
      <3>3. UNCHANGED <<m_idToRssiMap, server, delayed, reports, singleRadio, emulateDelay>>
        BY <1>3, SendProbeCases
      <3>4. timeouts' \in Nat
        BY <3>1 DEF TypeOK
      <3>5. m_testProbeSn' \in Csns /\ m_bestApId' \in Aps
        BY <2>1, <2>2, <3>1, <3>2
      <3> QED
        BY <2>4, <3>1, <3>2, <3>3, <3>4, <3>5, Zenon DEF TypeOK
    <2>7. CASE m_bestApId' = ScanRssi /\ UNCHANGED <<m_currentApId, m_ipAddr, m_testProbeAcked,
                                                    m_testProbeSn, timeouts, down>>
      BY <1>3, <2>1, <2>4, <2>7, SendProbeCases DEF TypeOK
    <2> QED
      BY <1>3, <2>5, <2>6, <2>7, SendProbeCases
  <1>4. CASE TestProbeTimeout
    BY <1>4 DEF TypeOK, TestProbeTimeout, config
  <1>5. ASSUME NEW i \in 1 .. Len(net), RecvAck(i) PROVE TypeOK'
    <2>1. net' \in Seq(Packet)
      BY <1>5, WithoutType DEF RecvAck, TypeOK
    <2> QED
      BY <1>5, <2>1 DEF RecvAck, ProbeAcked, TypeOK, client, config
  <1>6. ASSUME NEW i \in 1 .. Len(net), RecvProbe(i) PROVE TypeOK'
    <2>1. net[i] \in Packet
      BY DEF TypeOK
    <2>2. server' \in [ip : Aps, down : BOOLEAN]
      BY <1>6, <2>1 DEF RecvProbe, AddPhyLink, TypeOK, Packet
    <2>3. AnswerAp(net[i]) \in Aps /\ server'.ip \in Aps
      BY <2>1, <2>2 DEF AnswerAp, Packet
    <2>4. Ack(AnswerAp(net[i]), net[i]) \in Packet /\ Ack(server'.ip, net[i]) \in Packet
      BY <2>1, <2>3, AckType
    <2>5. Without(net, i) \in Seq(Packet)
      BY WithoutType DEF TypeOK
    <2>6. /\ \/ net' = Without(net, i)
             \/ net' = Append(Without(net, i), Ack(AnswerAp(net[i]), net[i]))
          /\ \/ delayed' = delayed
             \/ delayed' = Append(delayed, Ack(server'.ip, net[i]))
      BY <1>6 DEF RecvProbe
    <2>7. net' \in Seq(Packet) /\ delayed' \in Seq(Packet)
      <3>1. delayed \in Seq(Packet)
        BY DEF TypeOK
      <3>2. /\ Append(Without(net, i), Ack(AnswerAp(net[i]), net[i])) \in Seq(Packet)
            /\ Append(delayed, Ack(server'.ip, net[i])) \in Seq(Packet)
        BY <2>4, <2>5, <3>1, AppendType
      <3> QED
        BY <2>5, <2>6, <3>1, <3>2, Zenon
    <2> QED
      BY <1>6, <2>2, <2>7 DEF RecvProbe, TypeOK, client, config
  <1>7. ASSUME NEW i \in 1 .. Len(net), Lose(i) PROVE TypeOK'
    <2>1. net' \in Seq(Packet)
      BY <1>7, WithoutType DEF Lose, TypeOK
    <2> QED
      BY <1>7, <2>1 DEF Lose, TypeOK, client, config
  <1>8. CASE ClientDownTimeEnds
    BY <1>8 DEF TypeOK, ClientDownTimeEnds, config
  <1>9. CASE ServerDownTimeEnds
    BY <1>9 DEF TypeOK, ServerDownTimeEnds, client, config
  <1>10. ASSUME NEW i \in 1 .. Len(delayed), SendDelayed(i) PROVE TypeOK'
    <2>1. delayed' \in Seq(Packet)
      BY <1>10, WithoutType DEF SendDelayed, TypeOK
    <2>2. delayed[i] \in Packet /\ server.ip \in Aps
      BY DEF TypeOK
    <2>3. [delayed[i] EXCEPT !.ap = server.ip] \in Packet
      BY <2>2 DEF Packet
    <2>4. net' = net \/ net' = Append(net, [delayed[i] EXCEPT !.ap = server.ip])
      BY <1>10 DEF SendDelayed
    <2>5. net' \in Seq(Packet)
      <3>1. net \in Seq(Packet)
        BY DEF TypeOK
      <3>2. Append(net, [delayed[i] EXCEPT !.ap = server.ip]) \in Seq(Packet)
        BY <2>3, <3>1, AppendType
      <3> QED
        BY <2>4, <3>1, <3>2, Zenon
    <2> QED
      BY <1>10, <2>1, <2>5 DEF SendDelayed, TypeOK, client, config
  <1> QED
    BY <1>1, <1>2, <1>3, <1>4, <1>5, <1>6, <1>7, <1>8, <1>9, <1>10 DEF Next

\* Access points, addresses, packets and timers keep their types in every behaviour
\* of the client, the server and the network.
THEOREM TypeCorrect == Spec => []TypeOK
  <1>1. Init => TypeOK
    <2> SUFFICES ASSUME Init PROVE TypeOK
      OBVIOUS
    <2>1. net \in Seq(Packet) /\ delayed \in Seq(Packet)
      BY DEF Init
    <2>2. /\ m_testProbeAcked \in BOOLEAN /\ down \in BOOLEAN
          /\ singleRadio \in BOOLEAN /\ emulateDelay \in BOOLEAN
      BY PhyAssumption DEF Init
    <2>3. server \in [ip : Aps, down : BOOLEAN]
      BY PhyAssumption DEF Init
    <2>4. m_testProbeSn \in Csns /\ timeouts \in Nat /\ reports \in Nat
      BY PhyAssumption DEF Init
    <2>5. /\ m_idToRssiMap \in [Aps -> Powers \cup {NoPower}]
          /\ m_currentApId \in Aps /\ m_bestApId \in Aps /\ m_ipAddr \in Aps
      BY PhyAssumption DEF Init
    <2> QED
      BY <2>1, <2>2, <2>3, <2>4, <2>5 DEF TypeOK
  <1>2. TypeOK /\ [Next]_vars => TypeOK'
    BY TypeInductive
  <1> QED
    BY <1>1, <1>2, PTL DEF Spec

-----------------------------------------------------------------------------
\* What a step does to the selection of the client: nothing, unless it is a probe,
\* an answer or a timeout.
LEMMA SelectionUnchanged ==
    ASSUME [Next]_vars, ~ SendProbe, ~ TestProbeTimeout,
           \A i \in 1 .. Len(net) : ~ RecvAck(i)
    PROVE  UNCHANGED <<m_currentApId, m_bestApId, m_testProbeAcked, timeouts>>
  BY DEF Next, vars, client, ReportRssi, RecvProbe, Lose, ClientDownTimeEnds,
         ServerDownTimeEnds, SendDelayed

\* Every step keeps the two facts about the pending test.
LEMMA TestInductive ==
    ASSUME TypeOK, BestIsForTest, PendingTestTimesOut, [Next]_vars
    PROVE  BestIsForTest' /\ PendingTestTimesOut'
  <1>1. CASE SendProbe
    <2>1. CASE SwitchNow(ScanRssi)
      BY <2>1 DEF SwitchNow, BestIsForTest, PendingTestTimesOut
    <2>2. CASE TestProbe(ScanRssi)
      BY <2>2 DEF TestProbe, BestIsForTest, PendingTestTimesOut, TypeOK
    <2>3. CASE /\ ScanRssi = m_currentApId \/ ~ m_testProbeAcked
               /\ m_bestApId' = ScanRssi
               /\ UNCHANGED <<m_currentApId, m_testProbeAcked, timeouts>>
      BY <2>3 DEF BestIsForTest, PendingTestTimesOut
    <2> QED
      BY <1>1, <2>1, <2>2, <2>3, SendProbeCases
  <1>2. CASE TestProbeTimeout
    BY <1>2 DEF TestProbeTimeout, BestIsForTest, PendingTestTimesOut, TypeOK
  <1>3. ASSUME NEW i \in 1 .. Len(net), RecvAck(i)
        PROVE  BestIsForTest' /\ PendingTestTimesOut'
    BY <1>3 DEF RecvAck, ProbeAcked, client, BestIsForTest, PendingTestTimesOut
  <1>4. CASE UNCHANGED <<m_currentApId, m_bestApId, m_testProbeAcked, timeouts>>
    BY <1>4 DEF BestIsForTest, PendingTestTimesOut
  <1> QED
    BY <1>1, <1>2, <1>3, <1>4, SelectionUnchanged

\* No access point is preferred to the current one without a pending test, and a
\* pending test has a timeout ahead: SendPacket, ProbeAcked and TestProbeTimeout
\* together never leave the result of an old scan behind.
THEOREM TestsAreSound == Spec => [](BestIsForTest /\ PendingTestTimesOut)
  <1>1. Init => BestIsForTest /\ PendingTestTimesOut
    BY DEF Init, BestIsForTest, PendingTestTimesOut
  <1>2. TypeOK /\ BestIsForTest /\ PendingTestTimesOut /\ [Next]_vars
        => BestIsForTest' /\ PendingTestTimesOut'
    BY TestInductive
  <1> QED
    BY <1>1, <1>2, TypeCorrect, PTL DEF Spec

-----------------------------------------------------------------------------
\* A single radio never has a test pending.
NoTestOfSingleRadio == singleRadio => m_testProbeAcked

\* Only SendProbe starts a test, and not with a single radio.
LEMMA NoTestInductive ==
    ASSUME TypeOK, NoTestOfSingleRadio, [Next]_vars
    PROVE  NoTestOfSingleRadio'
  <1>1. singleRadio' = singleRadio
    BY DEF Next, vars, config, ReportRssi, SendProbe, TestProbeTimeout, RecvAck, RecvProbe,
           Lose, ClientDownTimeEnds, ServerDownTimeEnds, SendDelayed
  <1>2. CASE SendProbe
    BY <1>1, <1>2, SendProbeCases DEF SwitchNow, NoTestOfSingleRadio
  <1>3. CASE TestProbeTimeout
    BY <1>3 DEF TestProbeTimeout, NoTestOfSingleRadio
  <1>4. ASSUME NEW i \in 1 .. Len(net), RecvAck(i) PROVE NoTestOfSingleRadio'
    BY <1>1, <1>4 DEF RecvAck, ProbeAcked, client, NoTestOfSingleRadio
  <1>5. CASE UNCHANGED <<m_currentApId, m_bestApId, m_testProbeAcked, timeouts>>
    BY <1>1, <1>5 DEF NoTestOfSingleRadio
  <1> QED
    BY <1>2, <1>3, <1>4, <1>5, SelectionUnchanged

\* A step that moves a single radio finds its access point at or below the threshold.
LEMMA SwitchOnlyFromBadAp ==
    ASSUME TypeOK, BestIsForTest, NoTestOfSingleRadio, [Next]_vars,
           singleRadio, m_currentApId' # m_currentApId
    PROVE  m_idToRssiMap[m_currentApId] <= RoamingLowRssi
  <1>1. m_testProbeAcked /\ m_bestApId = m_currentApId
    BY DEF NoTestOfSingleRadio, BestIsForTest
  <1>2. SendProbe
    <2>1. ASSUME NEW i \in 1 .. Len(net), RecvAck(i) PROVE FALSE
      BY <1>1, <2>1 DEF RecvAck, ProbeAcked, client
    <2>2. ~ TestProbeTimeout
      BY DEF TestProbeTimeout
    <2> QED
      BY <2>1, <2>2, SelectionUnchanged
  <1>3. ScanRssi # m_currentApId
    BY <1>2, SendProbeCases DEF TestProbe
  <1>4. ScanRssi \in BetterAps
    BY <1>1, <1>3, ScanType
  <1>5. ~ (m_idToRssiMap[m_currentApId] > RoamingLowRssi)
    BY <1>4 DEF BetterAps
  <1>6. m_idToRssiMap[m_currentApId] \in Int /\ RoamingLowRssi \in Int
    <2>1. NoPower \in Int
      BY DEF NoPower
    <2>2. Powers \subseteq Int /\ RoamingLowRssi \in Int
      BY PhyAssumption
    <2>3. m_idToRssiMap[m_currentApId] \in Powers \cup {NoPower}
      BY DEF TypeOK
    <2> QED
      BY <2>1, <2>2, <2>3
  <1> QED
    BY <1>5, <1>6

\* A single radio leaves an access point only when its power is not above
\* RoamingLowRssi: no earlier scan can make it leave a good one.
THEOREM SingleRadioStays == Spec => SingleRadioStaysOnGoodAp
  <1>1. Init => NoTestOfSingleRadio
    BY DEF Init, NoTestOfSingleRadio
  <1>2. TypeOK /\ NoTestOfSingleRadio /\ [Next]_vars => NoTestOfSingleRadio'
    BY NoTestInductive
  <1>3. TypeOK /\ BestIsForTest /\ NoTestOfSingleRadio /\ [Next]_vars
        => [singleRadio /\ m_currentApId' # m_currentApId
                => m_idToRssiMap[m_currentApId] <= RoamingLowRssi]_vars
    BY SwitchOnlyFromBadAp
  <1> QED
    BY <1>1, <1>2, <1>3, TypeCorrect, TestsAreSound, PTL
       DEF Spec, SingleRadioStaysOnGoodAp

=============================================================================
