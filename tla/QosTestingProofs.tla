-------------------------- MODULE QosTestingProofs --------------------------
(***************************************************************************)
(* Proofs about QosTesting, for any clients, channels and bounds: the      *)
(* scheduler runs one test per channel and never restarts one, if the      *)
(* guard time covers the latency of a notification and of its answer.      *)
(***************************************************************************)
EXTENDS QosTesting, FiniteSetTheorems, TLAPS

\* The least guard time that covers the latency of a notification and of its answer.
GuardCoversLatency == 2 * MaxLatency <= GuardTime

\* The inductive invariant of the two.  The requests of a scheduled client name its
\* channel, and the map has an entry exactly while the timer runs.
ListNamesChannel(list, ch) ==
    \A i \in 1 .. Len(list) : /\ list[i].channel = ch
                              /\ Scheduled(list[i].client) => ChannelOf[list[i].client] = ch

RequestsNameChannel ==
    /\ \A m \in wire : Scheduled(m.client) => m.channel = ChannelOf[m.client]
    /\ \A ch \in Channels : ListNamesChannel(m_channelToQoSRequestInfo[ch].list, ch)

EntryMeansTimer ==
    \A ch \in Channels : IF m_channelToQoSRequestInfo[ch].present
                          THEN Running(ch) ELSE ~ Running(ch)

\* The notification of a test and its answer, on their way.
OfTest(m, c, d) == m.type \in {"notify", "ackNotify"} /\ m.client = c /\ m.dir = d

\* The test of a client in a direction is announced or under way.
Busy(c, d) ==
    \/ duplicating[d][c] > 0
    \/ measuring[d][c] > 0
    \/ \E m \in wire : OfTest(m, c, d)

\* The prohibit timer of a client's channel.
Timer(c) == m_channelToQoSRequestInfo[ChannelOf[c]].timer

\* The timer of the channel outlasts everything that belongs to the test.
TimerOutlastsTest ==
    \A c \in Clients : Scheduled(c) =>
        /\ \A m \in wire : m.client = c /\ m.type = "notify" => Timer(c) >= ProhibitTime - m.age
        /\ \A m \in wire : m.client = c /\ m.type = "ackNotify" =>
                Timer(c) >= ProhibitTime - MaxLatency - m.age
        /\ \A d \in Directions :
              /\ duplicating[d][c] > 0 => Timer(c) >= duplicating[d][c] + GuardTime - MaxLatency
              /\ measuring[d][c] > 0 => Timer(c) >= measuring[d][c] + GuardTime - 2 * MaxLatency

\* All that is busy on a channel belongs to one test.
OneOwner ==
    \A a, b \in Clients, d, e \in Directions :
        (Scheduled(a) /\ Scheduled(b) /\ ChannelOf[a] = ChannelOf[b] /\ Busy(a, d) /\ Busy(b, e))
            => a = b /\ d = e

\* A test is announced once, before anything else of it at the client, and its
\* announcement is acknowledged once, before the server measures.
AnnouncedOnce ==
    \A m \in wire : Scheduled(m.client) =>
        /\ m.type = "notify" =>
              /\ duplicating[Uplink][m.client] = 0 /\ measuring[m.dir][m.client] = 0
              /\ \A n \in wire : OfTest(n, m.client, m.dir) => n = m
        /\ m.type = "ackNotify" /\ m.dir = Uplink =>
              /\ measuring[Uplink][m.client] = 0
              /\ \A n \in wire : OfTest(n, m.client, Uplink) => n = m

TestsInv == TimerOutlastsTest /\ OneOwner /\ AnnouncedOnce

SchedulerInv == RequestsNameChannel /\ EntryMeansTimer /\ TestsInv

-----------------------------------------------------------------------------
\* The answer to a message is a message of age 0.
LEMMA AnswerType ==
    ASSUME NEW m \in Messages,
           NEW type \in {"request", "ackRequest", "notify", "ackNotify"}
    PROVE  /\ Answer(type, m) \in Messages
           /\ Answer(type, m).type = type /\ Answer(type, m).age = 0
           /\ Answer(type, m).client = m.client /\ Answer(type, m).dir = m.dir
           /\ Answer(type, m).channel = m.channel
  <1>1. 0 \in 0 .. MaxLatency
    BY QosAssumption
  <1>2. [m EXCEPT !.type = type] \in Messages
    BY DEF Messages
  <1>3. Answer(type, m) = [[m EXCEPT !.type = type] EXCEPT !.age = 0]
    BY DEF Answer, Messages
  <1>4. Answer(type, m) \in Messages
    BY <1>1, <1>2, <1>3 DEF Messages
  <1> QED
    BY <1>4 DEF Answer, Messages

\* A test that is to start runs for its duration, unless the client is running one.
LEMMA StartType ==
    ASSUME TypeOK, NEW c \in Clients, NEW d \in Directions, StartQosTesting(c, d)
    PROVE  /\ duplicating' \in [Directions -> [Clients -> 0 .. Duration]]
           /\ stopped' \subseteq Clients
  <1>1. Duration \in 0 .. Duration
    BY QosAssumption
  <1>2. duplicating[d] \in [Clients -> 0 .. Duration]
    BY DEF TypeOK
  <1>3. [duplicating[d] EXCEPT ![c] = Duration] \in [Clients -> 0 .. Duration]
    BY <1>1, <1>2
  <1>4. CASE duplicating[d][c] > 0
    BY <1>4 DEF StartQosTesting, TypeOK
  <1>5. CASE ~ duplicating[d][c] > 0
    <2>1. duplicating' = [duplicating EXCEPT ![d] = [duplicating[d] EXCEPT ![c] = Duration]]
          /\ UNCHANGED stopped
      BY <1>5 DEF StartQosTesting
    <2> QED
      BY <1>3, <2>1 DEF TypeOK
  <1> QED
    BY <1>4, <1>5

\* What StartTest leaves behind.
LEMMA StartTestType ==
    ASSUME TypeOK, NEW m \in Messages, NEW W \in SUBSET Messages, StartTest(m, W)
    PROVE  /\ duplicating' \in [Directions -> [Clients -> 0 .. Duration]]
           /\ stopped' \subseteq Clients
           /\ wire' \subseteq Messages
  <1>1. wire' \subseteq Messages
    BY AnswerType DEF StartTest
  <1>2. m.client \in Clients /\ Downlink \in Directions
    BY DEF Messages, Directions
  <1> QED
    BY <1>1, <1>2, StartType DEF StartTest, TypeOK

\* The type invariant is inductive.
LEMMA TypeInductive ==
    ASSUME TypeOK, [Next]_vars
    PROVE  TypeOK'
  <1> USE QosAssumption DEF ProhibitTime
  <1>1. ASSUME NEW c \in Clients, NEW dir \in Directions, RequestTest(c, dir) PROVE TypeOK'
    <2>1. \A ch \in Channels \cup {AnyChannel} : Msg("request", c, dir, ch, requests) \in Messages
      BY DEF Msg, Messages, TypeOK
    <2>2. wire' \subseteq Messages
      BY <1>1, <2>1 DEF RequestTest, TypeOK
    <2> QED
      BY <1>1, <2>2 DEF RequestTest, TypeOK, testVars
  <1>2. ASSUME NEW c \in Steered, NEW kind \in {"none", "backup", "default"},
               ReceiveDlSplitWeightAction(c, kind)
        PROVE  TypeOK'
    <2>1. c \in Clients
      OBVIOUS
    <2>2. measuring' \in [Directions -> [Clients -> 0 .. Duration]]
      BY <1>2, <2>1 DEF ReceiveDlSplitWeightAction, TypeOK, Directions
    <2>3. m_qosTestingAllowed' \in [Clients -> BOOLEAN]
      BY <1>2, <2>1 DEF ReceiveDlSplitWeightAction, TypeOK
    <2>4. m_qosSteerActionReceived' \in [Clients -> BOOLEAN]
      BY <1>2, <2>1 DEF ReceiveDlSplitWeightAction, TypeOK
    <2> QED
      BY <1>2, <2>2, <2>3, <2>4 DEF ReceiveDlSplitWeightAction, TypeOK
  <1>3. ASSUME NEW e \in m_txedCtrQueue, RetxCtrlMsgExpires(e) PROVE TypeOK'
    <2>1. m_qosClientTestingActive' \in [Clients -> BOOLEAN]
      BY <1>3 DEF RetxCtrlMsgExpires, TypeOK
    <2> QED
      BY <1>3, <2>1 DEF RetxCtrlMsgExpires, TypeOK, testVars
  <1>4. ASSUME NEW ch \in Channels, QosTestingTimerExpire(ch) PROVE TypeOK'
    <2> DEFINE info == m_channelToQoSRequestInfo[ch]
    <2>1. info \in RequestInfo /\ info.list \in Seq(Messages)
      BY DEF TypeOK, RequestInfo
    <2>2. CASE info.list = <<>>
      <3>1. NoEntry \in RequestInfo
        BY DEF NoEntry, RequestInfo
      <3> QED
        BY <1>4, <2>2, <3>1 DEF QosTestingTimerExpire, TypeOK, clientVars
    <2>3. CASE info.list # <<>>
      <3>1. Head(info.list) \in Messages /\ Tail(info.list) \in Seq(Messages)
        BY <2>1, <2>3
      <3>2. [present |-> TRUE, timer |-> ProhibitTime, list |-> Tail(info.list)] \in RequestInfo
        BY <3>1 DEF RequestInfo
      <3>3. StartTest(Head(info.list), wire)
        BY <1>4, <2>3 DEF QosTestingTimerExpire
      <3>4. /\ duplicating' \in [Directions -> [Clients -> 0 .. Duration]]
            /\ stopped' \subseteq Clients
            /\ wire' \subseteq Messages
        BY <3>1, <3>3, StartTestType DEF TypeOK
      <3>5. m_channelToQoSRequestInfo' \in [Channels -> RequestInfo]
        BY <1>4, <2>3, <3>2 DEF QosTestingTimerExpire, TypeOK
      <3> QED
        BY <1>4, <3>4, <3>5 DEF QosTestingTimerExpire, TypeOK, clientVars
    <2> QED
      BY <2>2, <2>3
  <1>5. ASSUME NEW m \in wire, VirtualRecv(m) PROVE TypeOK'
    <2>1. m \in Messages /\ wire \ {m} \in SUBSET Messages
      BY DEF TypeOK
    <2>2. UNCHANGED <<clientVars, measuring, requests>>
      BY <1>5 DEF VirtualRecv
    <2>3. CASE m.channel = AnyChannel
      <3>1. StartTest(m, wire \ {m}) /\ UNCHANGED m_channelToQoSRequestInfo
        BY <1>5, <2>3 DEF VirtualRecv
      <3> QED
        BY <2>1, <2>2, <3>1, StartTestType DEF TypeOK, clientVars
    <2>4. CASE m.channel # AnyChannel /\ ~ m_channelToQoSRequestInfo[m.channel].present
      <3>1. /\ StartTest(m, wire \ {m})
            /\ m_channelToQoSRequestInfo' = [m_channelToQoSRequestInfo EXCEPT
                  ![m.channel] = [present |-> TRUE, timer |-> ProhibitTime, list |-> <<>>]]
        BY <1>5, <2>4 DEF VirtualRecv
      <3>2. [present |-> TRUE, timer |-> ProhibitTime, list |-> <<>>] \in RequestInfo
        BY DEF RequestInfo
      <3>3. m_channelToQoSRequestInfo' \in [Channels -> RequestInfo]
        BY <3>1, <3>2 DEF TypeOK
      <3> QED
        BY <2>1, <2>2, <3>1, <3>3, StartTestType DEF TypeOK, clientVars
    <2>5. CASE m.channel # AnyChannel /\ m_channelToQoSRequestInfo[m.channel].present
      <3>1. m.channel \in Channels /\ m.client \in Clients
        BY <2>1, <2>5 DEF Messages
      <3>2. CASE Running(m.channel)
        <4> DEFINE info == m_channelToQoSRequestInfo[m.channel]
        <4>1. info \in RequestInfo
          BY <3>1 DEF TypeOK
        <4>2. [info EXCEPT !.list = Append(@, m)] \in RequestInfo
          <5>1. Append(info.list, m) \in Seq(Messages)
            BY <2>1, <4>1 DEF RequestInfo
          <5> QED
            BY <4>1, <5>1 DEF RequestInfo
        <4>3. m_channelToQoSRequestInfo' =
                [m_channelToQoSRequestInfo EXCEPT ![m.channel] = [info EXCEPT !.list = Append(@, m)]]
          BY <1>5, <2>5, <3>2 DEF VirtualRecv
        <4>4. m_channelToQoSRequestInfo' \in [Channels -> RequestInfo]
          BY <4>2, <4>3 DEF TypeOK
        <4>5. wire' = (wire \ {m}) \cup {Answer("ackRequest", m)} /\ UNCHANGED <<stopped, duplicating>>
          BY <1>5, <2>5, <3>2 DEF VirtualRecv
        <4>6. wire' \subseteq Messages
          BY <2>1, <4>5, AnswerType
        <4> QED
          BY <2>2, <4>4, <4>5, <4>6 DEF TypeOK, clientVars
      <3>3. CASE ~ Running(m.channel)
        <4>1. stopped' = stopped \cup {m.client}
              /\ UNCHANGED <<m_channelToQoSRequestInfo, wire, duplicating>>
          BY <1>5, <2>5, <3>3 DEF VirtualRecv
        <4> QED
          BY <2>2, <3>1, <4>1 DEF TypeOK, clientVars
      <3> QED
        BY <3>2, <3>3
    <2> QED
      BY <2>3, <2>4, <2>5
  <1>6. ASSUME NEW m \in wire, RecvAckRequest(m) PROVE TypeOK'
    BY <1>6 DEF RecvAckRequest, TypeOK, clientVars, testVars
  <1>7. ASSUME NEW m \in wire, RecvNotify(m) PROVE TypeOK'
    <2>1. m \in Messages /\ m.client \in Clients /\ m.dir \in Directions
      BY DEF TypeOK, Messages
    <2>2. wire' \subseteq Messages
      BY <1>7, <2>1, AnswerType DEF RecvNotify, TypeOK
    <2>3. m_qosClientTestingActive' \in [Clients -> BOOLEAN]
      BY <1>7, <2>1 DEF RecvNotify, TypeOK
    <2>4. sessionEnds' \in [Clients -> SUBSET (1 .. Duration)]
      BY <1>7, <2>1 DEF RecvNotify, TypeOK
    <2>5. /\ duplicating' \in [Directions -> [Clients -> 0 .. Duration]]
          /\ stopped' \subseteq Clients
      BY <1>7, <2>1, StartType DEF RecvNotify, TypeOK, Directions, testVars
    <2>6. measuring' \in [Directions -> [Clients -> 0 .. Duration]]
      BY <1>7, <2>1 DEF RecvNotify, TypeOK, Directions, testVars
    <2> QED
      BY <1>7, <2>2, <2>3, <2>4, <2>5, <2>6 DEF RecvNotify, TypeOK
  <1>8. ASSUME NEW m \in wire, RecvAckNotify(m) PROVE TypeOK'
    <2>1. m.client \in Clients
      BY DEF TypeOK, Messages
    <2>2. measuring' \in [Directions -> [Clients -> 0 .. Duration]] /\ stopped' \subseteq Clients
      BY <1>8, <2>1 DEF RecvAckNotify, TypeOK, Directions
    <2> QED
      BY <1>8, <2>2 DEF RecvAckNotify, TypeOK, clientVars
  <1>9. ASSUME NEW m \in wire, Lose(m) PROVE TypeOK'
    BY <1>9 DEF Lose, TypeOK, clientVars, testVars
  <1>10. CASE Tick
    <2>1. wire' \subseteq Messages
      <3> SUFFICES ASSUME NEW m \in wire, m.age < MaxLatency
                   PROVE  [m EXCEPT !.age = @ + 1] \in Messages
        BY <1>10 DEF Tick
      <3>1. m \in Messages
        BY DEF TypeOK
      <3>2. m.age + 1 \in 0 .. MaxLatency
        BY <3>1 DEF Messages
      <3> QED
        BY <3>1, <3>2 DEF Messages
    <2>2. m_channelToQoSRequestInfo' \in [Channels -> RequestInfo]
      <3> SUFFICES ASSUME NEW ch \in Channels
                   PROVE  [m_channelToQoSRequestInfo[ch] EXCEPT !.timer = Less(@)] \in RequestInfo
        BY <1>10 DEF Tick
      <3>1. m_channelToQoSRequestInfo[ch] \in RequestInfo
        BY DEF TypeOK
      <3>2. Less(m_channelToQoSRequestInfo[ch].timer) \in -1 .. ProhibitTime
        BY <3>1 DEF RequestInfo, Less
      <3> QED
        BY <3>1, <3>2 DEF RequestInfo
    <2>3. /\ duplicating' \in [Directions -> [Clients -> 0 .. Duration]]
          /\ measuring' \in [Directions -> [Clients -> 0 .. Duration]]
      BY <1>10 DEF Tick, TypeOK, Less
    <2>4. sessionEnds' \in [Clients -> SUBSET (1 .. Duration)]
      BY <1>10 DEF Tick, TypeOK
    <2>5. m_qosClientTestingActive' \in [Clients -> BOOLEAN]
      BY <1>10 DEF Tick, TypeOK
    <2> QED
      BY <1>10, <2>1, <2>2, <2>3, <2>4, <2>5 DEF Tick, TypeOK
  <1>11. CASE UNCHANGED vars
    BY <1>11 DEF vars, clientVars, testVars, TypeOK
  <1> QED
    BY <1>1, <1>2, <1>3, <1>4, <1>5, <1>6, <1>7, <1>8, <1>9, <1>10, <1>11 DEF Next, Deliver

\* Clients, timers, tests and messages keep their types, whatever is lost or late.
THEOREM TypeCorrect == Spec => []TypeOK
  <1>1. Init => TypeOK
    <2>1. NoEntry \in RequestInfo
      BY QosAssumption DEF NoEntry, RequestInfo, ProhibitTime
    <2> QED
      BY <2>1, QosAssumption DEF Init, TypeOK, Directions
  <1>2. TypeOK /\ [Next]_vars => TypeOK'
    BY TypeInductive
  <1> QED
    BY <1>1, <1>2, PTL DEF Spec

-----------------------------------------------------------------------------
\* The timer of a client's channel, and the time left of a test, are numbers.
LEMMA TimerType ==
    ASSUME NEW infos \in [Channels -> RequestInfo], NEW c \in Clients
    PROVE  infos[ChannelOf[c]].timer \in Int
  <1>1. infos[ChannelOf[c]] \in RequestInfo
    BY QosAssumption
  <1>2. -1 .. ProhibitTime \subseteq Int
    BY QosAssumption DEF ProhibitTime
  <1> QED
    BY <1>1, <1>2 DEF RequestInfo

LEMMA TestType ==
    ASSUME NEW left \in [Directions -> [Clients -> 0 .. Duration]],
           NEW c \in Clients, NEW d \in Directions
    PROVE  left[d][c] \in Int /\ left[d][c] >= 0 /\ left[d][c] <= Duration
  BY QosAssumption

\* What a message holds.
LEMMA MessageFields ==
    ASSUME NEW m \in Messages
    PROVE  /\ m.client \in Clients /\ m.dir \in Directions /\ m.age \in Int
           /\ m.age >= 0 /\ m.age <= MaxLatency
           /\ m.channel \in Channels \cup {AnyChannel}
           /\ m.type \in {"request", "ackRequest", "notify", "ackNotify"}
  <1>1. m.age \in 0 .. MaxLatency
    BY DEF Messages
  <1> QED
    BY <1>1, QosAssumption DEF Messages

\* While a test is announced or under way the timer of its channel has not expired.
LEMMA BusyMeansTimer ==
    ASSUME TypeOK, TimerOutlastsTest, GuardCoversLatency,
           NEW c \in Clients, Scheduled(c), NEW d \in Directions, Busy(c, d)
    PROVE  Timer(c) > 0
  <1> USE QosAssumption DEF GuardCoversLatency, ProhibitTime
  <1>1. Timer(c) \in Int
    BY TimerType DEF TypeOK, Timer
  <1>2. CASE duplicating[d][c] > 0
    BY <1>1, <1>2 DEF TypeOK, TimerOutlastsTest
  <1>3. CASE measuring[d][c] > 0
    BY <1>1, <1>3 DEF TypeOK, TimerOutlastsTest
  <1>4. CASE \E m \in wire : OfTest(m, c, d)
    <2>1. PICK m \in wire : OfTest(m, c, d)
      BY <1>4
    <2>2. m.age \in 0 .. MaxLatency
      BY DEF TypeOK, Messages
    <2> QED
      BY <1>1, <2>1, <2>2 DEF OfTest, TimerOutlastsTest
  <1> QED
    BY <1>2, <1>3, <1>4 DEF Busy

\* A step that starts, announces and acknowledges no test of a scheduled client.
LEMMA CalmStep ==
    ASSUME TypeOK, TypeOK', TestsInv,
           \A c \in Clients : Scheduled(c)' => Scheduled(c),
           \A c \in Clients : Scheduled(c)' => \/ Timer(c)' >= Timer(c)
                                              \/ \A d \in Directions : ~ Busy(c, d),
           \A m \in wire' : Scheduled(m.client)' => m \in wire \/ m.type \in {"request", "ackRequest"},
           \A c \in Clients, d \in Directions : Scheduled(c)' =>
               /\ duplicating'[d][c] \in {0, duplicating[d][c]}
               /\ measuring'[d][c] \in {0, measuring[d][c]}
    PROVE  TestsInv'
  <1> USE QosAssumption DEF ProhibitTime
  <1>1. \A c \in Clients : Timer(c) \in Int /\ Timer(c)' \in Int
    BY TimerType DEF TypeOK, Timer
  <1>2. \A m \in wire' : m \in Messages
    BY DEF TypeOK
  <1>3. \A m \in Messages : m.client \in Clients /\ m.dir \in Directions /\ m.age \in Int
    BY DEF Messages
  <1>4. \A m \in wire' : Scheduled(m.client)' /\ m.type \in {"notify", "ackNotify"} => m \in wire
    OBVIOUS
  <1>5. \A c \in Clients, d \in Directions : Scheduled(c)' /\ Busy(c, d)' => Busy(c, d)
    <2> SUFFICES ASSUME NEW c \in Clients, NEW d \in Directions, Scheduled(c)', Busy(c, d)'
                 PROVE  Busy(c, d)
      OBVIOUS
    <2>1. /\ duplicating'[d][c] > 0 => duplicating[d][c] > 0
          /\ measuring'[d][c] > 0 => measuring[d][c] > 0
      OBVIOUS
    <2>2. (\E m \in wire' : OfTest(m, c, d)) => \E m \in wire : OfTest(m, c, d)
      BY <1>4 DEF OfTest
    <2> QED
      BY <2>1, <2>2 DEF Busy, OfTest
  <1>6. TimerOutlastsTest'
    <2> SUFFICES ASSUME NEW c \in Clients, Scheduled(c)'
                 PROVE  /\ \A m \in wire' : m.client = c /\ m.type = "notify" =>
                              Timer(c)' >= ProhibitTime - m.age
                        /\ \A m \in wire' : m.client = c /\ m.type = "ackNotify" =>
                              Timer(c)' >= ProhibitTime - MaxLatency - m.age
                        /\ \A d \in Directions :
                              /\ duplicating'[d][c] > 0 =>
                                    Timer(c)' >= duplicating'[d][c] + GuardTime - MaxLatency
                              /\ measuring'[d][c] > 0 =>
                                    Timer(c)' >= measuring'[d][c] + GuardTime - 2 * MaxLatency
      BY DEF TimerOutlastsTest
    <2>1. Scheduled(c)
      OBVIOUS
    <2>2. CASE \A d \in Directions : ~ Busy(c, d)
      <3>1. \A d \in Directions : ~ Busy(c, d)'
        BY <1>5, <2>2
      <3> QED
        BY <1>2, <1>3, <3>1 DEF Busy, OfTest
    <2>3. CASE Timer(c)' >= Timer(c)
      <3>1. \A m \in wire : m.client = c /\ m.type = "notify" => Timer(c) >= ProhibitTime - m.age
        BY <2>1 DEF TestsInv, TimerOutlastsTest
      <3>2. \A m \in wire : m.client = c /\ m.type = "ackNotify" =>
               Timer(c) >= ProhibitTime - MaxLatency - m.age
        BY <2>1 DEF TestsInv, TimerOutlastsTest
      <3>3. \A m \in wire' : m.client = c /\ m.type = "notify" => Timer(c)' >= ProhibitTime - m.age
        BY <1>1, <1>2, <1>3, <1>4, <2>3, <3>1
      <3>4. \A m \in wire' : m.client = c /\ m.type = "ackNotify" =>
               Timer(c)' >= ProhibitTime - MaxLatency - m.age
        BY <1>1, <1>2, <1>3, <1>4, <2>3, <3>2
      <3>5. ASSUME NEW d \in Directions
            PROVE  /\ duplicating'[d][c] > 0 => Timer(c)' >= duplicating'[d][c] + GuardTime - MaxLatency
                   /\ measuring'[d][c] > 0 => Timer(c)' >= measuring'[d][c] + GuardTime - 2 * MaxLatency
        <4>1. duplicating[d][c] \in Int /\ measuring[d][c] \in Int
          BY DEF TypeOK
        <4> QED
          BY <1>1, <2>1, <2>3, <4>1 DEF TestsInv, TimerOutlastsTest
      <3> QED
        BY <3>3, <3>4, <3>5
    <2> QED
      BY <2>2, <2>3
  <1>7. OneOwner'
    BY <1>5 DEF TestsInv, OneOwner
  <1>8. AnnouncedOnce'
    <2> SUFFICES ASSUME NEW m \in wire', Scheduled(m.client)'
                 PROVE  /\ m.type = "notify" =>
                              /\ duplicating'[Uplink][m.client] = 0 /\ measuring'[m.dir][m.client] = 0
                              /\ \A n \in wire' : OfTest(n, m.client, m.dir) => n = m
                        /\ m.type = "ackNotify" /\ m.dir = Uplink =>
                              /\ measuring'[Uplink][m.client] = 0
                              /\ \A n \in wire' : OfTest(n, m.client, Uplink) => n = m
      BY DEF AnnouncedOnce
    <2>1. m.client \in Clients /\ m.dir \in Directions /\ Uplink \in Directions
      BY <1>2, <1>3 DEF Directions
    <2>2. Scheduled(m.client)
      BY <2>1
    <2>3. \A n \in wire' : n.client = m.client /\ n.type \in {"notify", "ackNotify"} => n \in wire
      BY <1>4
    <2>4. CASE m.type = "notify"
      <3>1. /\ duplicating[Uplink][m.client] = 0 /\ measuring[m.dir][m.client] = 0
            /\ \A n \in wire : OfTest(n, m.client, m.dir) => n = m
        BY <2>2, <2>3, <2>4 DEF TestsInv, AnnouncedOnce
      <3> QED
        BY <2>1, <2>3, <2>4, <3>1 DEF OfTest
    <2>5. CASE m.type = "ackNotify" /\ m.dir = Uplink
      <3>1. /\ measuring[Uplink][m.client] = 0
            /\ \A n \in wire : OfTest(n, m.client, Uplink) => n = m
        BY <2>2, <2>3, <2>5 DEF TestsInv, AnnouncedOnce
      <3> QED
        BY <2>1, <2>3, <2>5, <3>1 DEF OfTest
    <2> QED
      BY <2>4, <2>5
  <1> QED
    BY <1>6, <1>7, <1>8 DEF TestsInv

\* The test that starts on a channel whose timer has expired, or that has no entry,
\* finds nothing of another test on it.
LEMMA StartStep ==
    ASSUME TypeOK, TypeOK', TestsInv, GuardCoversLatency,
           NEW m \in Messages, Scheduled(m.client), NEW W \in SUBSET wire, StartTest(m, W),
           Timer(m.client) <= 0, Timer(m.client)' = ProhibitTime,
           \A c \in Clients : ChannelOf[c] # ChannelOf[m.client] => Timer(c)' = Timer(c),
           \A c, b \in Clients : ChannelOf[c] = ChannelOf[b] => Timer(c)' = Timer(b)',
           \A c, b \in Clients : ChannelOf[c] = ChannelOf[b] => Timer(c) = Timer(b),
           UNCHANGED <<clientVars, measuring>>
    PROVE  TestsInv' /\ UNCHANGED stopped
  <1> USE QosAssumption DEF ProhibitTime
  <1> DEFINE o == m.client
             same(c) == ChannelOf[c] = ChannelOf[o]
             notify == Answer("notify", m)
  <1>1. o \in Clients /\ m.dir \in Directions /\ Uplink \in Directions /\ Downlink \in Directions
    BY MessageFields DEF Directions
  <1>2. \A c \in Clients : Timer(c) \in Int /\ Timer(c)' \in Int
    BY TimerType DEF TypeOK, Timer
  <1>3. ASSUME NEW c \in Clients, Scheduled(c), same(c), NEW d \in Directions
        PROVE  ~ Busy(c, d)
    BY <1>1, <1>2, <1>3, BusyMeansTimer DEF TestsInv
  <1>4. \A c \in Clients : Scheduled(c)' <=> Scheduled(c)
    BY DEF clientVars, Scheduled
  <1>5. /\ notify \in Messages /\ notify.type = "notify" /\ notify.age = 0
        /\ notify.client = o /\ notify.dir = m.dir
        /\ Answer("ackRequest", m).type = "ackRequest"
    BY AnswerType
  <1>6. wire' = W \cup {Answer("ackRequest", m), notify}
    BY DEF StartTest
  <1>7. \A n \in wire' : n.type \in {"notify", "ackNotify"} => n \in wire \/ n = notify
    BY <1>5, <1>6
  <1>8. \A d \in Directions : duplicating[d][o] = 0 /\ measuring[d][o] = 0
    <2> SUFFICES ASSUME NEW d \in Directions PROVE duplicating[d][o] = 0 /\ measuring[d][o] = 0
      OBVIOUS
    <2>1. ~ Busy(o, d)
      BY <1>1, <1>3
    <2> QED
      BY <1>1, <2>1, TestType DEF Busy, TypeOK
  <1>9. /\ UNCHANGED stopped
        /\ \A c \in Clients, d \in Directions :
              duplicating'[d][c] = IF c = o /\ d = m.dir /\ m.dir = Downlink THEN Duration
                                   ELSE duplicating[d][c]
    <2>1. CASE m.dir = Downlink
      <3>1. duplicating' = [duplicating EXCEPT ![Downlink][o] = Duration] /\ UNCHANGED stopped
        BY <1>1, <1>8, <2>1 DEF StartTest, StartQosTesting
      <3> QED
        BY <1>1, <2>1, <3>1 DEF TypeOK
    <2>2. CASE m.dir # Downlink
      BY <2>2 DEF StartTest
    <2> QED
      BY <2>1, <2>2
  <1>10. \A n \in wire' : n \in Messages
    BY DEF TypeOK
  <1>11. ASSUME NEW n \in wire', Scheduled(n.client), same(n.client),
                n.type \in {"notify", "ackNotify"}
         PROVE  n = notify
    <2>1. n.client \in Clients /\ n.dir \in Directions
      BY <1>10, MessageFields
    <2>2. n \notin wire
      BY <1>3, <1>11, <2>1 DEF Busy, OfTest
    <2> QED
      BY <1>7, <1>11, <2>2
  <1>12. ASSUME NEW c \in Clients, NEW d \in Directions, Scheduled(c), Busy(c, d)'
         PROVE  IF same(c) THEN c = o /\ d = m.dir ELSE Busy(c, d)
    <2>1. CASE duplicating'[d][c] > 0
      BY <1>3, <1>9, <1>12, <2>1 DEF Busy
    <2>2. CASE measuring'[d][c] > 0
      BY <1>3, <1>12, <2>2 DEF Busy
    <2>3. CASE \E n \in wire' : OfTest(n, c, d)
      <3>1. PICK n \in wire' : OfTest(n, c, d)
        BY <2>3
      <3>2. CASE same(c)
        BY <1>5, <1>11, <1>12, <3>1, <3>2 DEF OfTest
      <3>3. CASE ~ same(c)
        <4>1. n \in wire
          BY <1>5, <1>7, <3>1, <3>3 DEF OfTest
        <4> QED
          BY <3>1, <3>3, <4>1 DEF Busy
      <3> QED
        BY <3>2, <3>3
    <2> QED
      BY <1>12, <2>1, <2>2, <2>3 DEF Busy, OfTest
  <1>13. OneOwner'
    <2> SUFFICES ASSUME NEW a \in Clients, NEW b \in Clients, NEW d \in Directions, NEW e \in Directions,
                        Scheduled(a), Scheduled(b), ChannelOf[a] = ChannelOf[b],
                        Busy(a, d)', Busy(b, e)'
                 PROVE  a = b /\ d = e
      BY <1>4 DEF OneOwner
    <2>1. CASE same(a)
      BY <1>12, <2>1
    <2>2. CASE ~ same(a)
      <3>1. Busy(a, d) /\ Busy(b, e)
        BY <1>12, <2>2
      <3> QED
        BY <3>1 DEF TestsInv, OneOwner
    <2> QED
      BY <2>1, <2>2
  <1>14. TimerOutlastsTest'
    <2> SUFFICES ASSUME NEW c \in Clients, Scheduled(c)
                 PROVE  /\ \A n \in wire' : n.client = c /\ n.type = "notify" =>
                              Timer(c)' >= ProhibitTime - n.age
                        /\ \A n \in wire' : n.client = c /\ n.type = "ackNotify" =>
                              Timer(c)' >= ProhibitTime - MaxLatency - n.age
                        /\ \A d \in Directions :
                              /\ duplicating'[d][c] > 0 =>
                                    Timer(c)' >= duplicating'[d][c] + GuardTime - MaxLatency
                              /\ measuring'[d][c] > 0 =>
                                    Timer(c)' >= measuring'[d][c] + GuardTime - 2 * MaxLatency
      BY <1>4 DEF TimerOutlastsTest
    <2>1. CASE same(c)
      <3>1. Timer(c)' = Duration + GuardTime
        BY <1>1, <2>1
      <3>2. \A n \in wire' : n.client = c /\ n.type \in {"notify", "ackNotify"} =>
               n.type = "notify" /\ n.age = 0
        BY <1>5, <1>11, <2>1
      <3>3. \A d \in Directions :
               /\ duplicating'[d][c] \in Int /\ duplicating'[d][c] <= Duration
               /\ measuring'[d][c] \in Int /\ measuring'[d][c] <= 0
        BY <1>3, <2>1, TestType DEF TypeOK, Busy
      <3>4. \A n \in wire' : n.client = c /\ n.type = "notify" => Timer(c)' >= ProhibitTime - n.age
        BY <3>1, <3>2
      <3>5. \A n \in wire' : ~ (n.client = c /\ n.type = "ackNotify")
        BY <3>2
      <3>6. ASSUME NEW d \in Directions
            PROVE  /\ duplicating'[d][c] > 0 => Timer(c)' >= duplicating'[d][c] + GuardTime - MaxLatency
                   /\ ~ measuring'[d][c] > 0
        <4>1. /\ duplicating'[d][c] \in Int /\ duplicating'[d][c] <= Duration
              /\ measuring'[d][c] \in Int /\ measuring'[d][c] <= 0
          BY <3>3
        <4> QED
          BY <3>1, <4>1
      <3> QED
        BY <3>4, <3>5, <3>6
    <2>2. CASE ~ same(c)
      <3>1. Timer(c)' = Timer(c)
        BY <2>2
      <3>2. \A n \in wire' : n.client = c /\ n.type \in {"notify", "ackNotify"} => n \in wire
        BY <1>5, <1>7, <2>2
      <3>3. \A d \in Directions : duplicating'[d][c] = duplicating[d][c]
        BY <1>9, <2>2
      <3> QED
        BY <3>1, <3>2, <3>3 DEF TestsInv, TimerOutlastsTest
    <2> QED
      BY <2>1, <2>2
  <1>15. AnnouncedOnce'
    <2> SUFFICES ASSUME NEW n \in wire', Scheduled(n.client)
                 PROVE  /\ n.type = "notify" =>
                              /\ duplicating'[Uplink][n.client] = 0 /\ measuring'[n.dir][n.client] = 0
                              /\ \A k \in wire' : OfTest(k, n.client, n.dir) => k = n
                        /\ n.type = "ackNotify" /\ n.dir = Uplink =>
                              /\ measuring'[Uplink][n.client] = 0
                              /\ \A k \in wire' : OfTest(k, n.client, Uplink) => k = n
      BY <1>4, <1>10, MessageFields DEF AnnouncedOnce
    <2>1. n.client \in Clients /\ n.dir \in Directions
      BY <1>10, MessageFields
    <2>2. CASE same(n.client) /\ n.type \in {"notify", "ackNotify"}
      <3>1. n = notify
        BY <1>11, <2>2
      <3>2. duplicating'[Uplink][o] = 0 /\ measuring'[m.dir][o] = 0
        BY <1>1, <1>8, <1>9 DEF Uplink, Downlink
      <3>3. \A k \in wire' : OfTest(k, o, m.dir) => k = notify
        BY <1>11 DEF OfTest
      <3> QED
        BY <1>5, <3>1, <3>2, <3>3
    <2>3. CASE ~ same(n.client) /\ n.type \in {"notify", "ackNotify"}
      <3>1. n \in wire
        BY <1>5, <1>7, <2>3
      <3>2. \A k \in wire' : k.client = n.client /\ k.type \in {"notify", "ackNotify"} => k \in wire
        BY <1>5, <1>7, <2>3
      <3>3. duplicating'[Uplink][n.client] = duplicating[Uplink][n.client]
        BY <1>1, <1>9, <2>1, <2>3
      <3>4. /\ n.type = "notify" =>
                  /\ duplicating[Uplink][n.client] = 0 /\ measuring[n.dir][n.client] = 0
                  /\ \A k \in wire : OfTest(k, n.client, n.dir) => k = n
            /\ n.type = "ackNotify" /\ n.dir = Uplink =>
                  /\ measuring[Uplink][n.client] = 0
                  /\ \A k \in wire : OfTest(k, n.client, Uplink) => k = n
        BY <3>1 DEF TestsInv, AnnouncedOnce
      <3> QED
        BY <3>2, <3>3, <3>4 DEF OfTest
    <2> QED
      BY <2>2, <2>3
  <1> QED
    BY <1>9, <1>13, <1>14, <1>15 DEF TestsInv

\* The messages of a scheduled client's test: an announcement that is on its way is
\* the only one, and so is its answer uplink.
LEMMA OnlyMessage ==
    ASSUME TypeOK, TestsInv, NEW m \in wire, Scheduled(m.client),
           m.type = "notify" \/ (m.type = "ackNotify" /\ m.dir = Uplink)
    PROVE  \A n \in wire : n.client = m.client /\ n.type \in {"notify", "ackNotify"} => n = m
  <1> SUFFICES ASSUME NEW n \in wire, n.client = m.client, n.type \in {"notify", "ackNotify"}
               PROVE  n = m
    OBVIOUS
  <1>1. m.client \in Clients /\ m.dir \in Directions /\ n.dir \in Directions
    BY MessageFields DEF TypeOK
  <1>2. Busy(m.client, m.dir) /\ Busy(m.client, n.dir)
    BY DEF Busy, OfTest
  <1>3. n.dir = m.dir
    BY <1>1, <1>2 DEF TestsInv, OneOwner
  <1> QED
    BY <1>3 DEF TestsInv, AnnouncedOnce, OfTest

\* The client receives the start notification: the test or the measurement that it
\* starts ends before the timer of the channel, and it is running none.
LEMMA NotifyStep ==
    ASSUME TypeOK, TypeOK', TestsInv, NEW m \in wire, Scheduled(m.client), RecvNotify(m)
    PROVE  TestsInv' /\ UNCHANGED stopped
  <1> USE QosAssumption DEF ProhibitTime
  <1> DEFINE o == m.client
             ack == Answer("ackNotify", m)
  <1>1. o \in Clients /\ m.dir \in Directions /\ Uplink \in Directions /\ Downlink \in Directions
        /\ m \in Messages /\ m.age \in Int /\ m.age >= 0 /\ m.age <= MaxLatency
    BY MessageFields DEF Directions, TypeOK
  <1>2. \A c \in Clients : Timer(c) \in Int /\ Timer(c)' = Timer(c)
    BY TimerType DEF TypeOK, Timer, RecvNotify
  <1>3. \A c \in Clients : Scheduled(c)' <=> Scheduled(c)
    BY DEF RecvNotify, Scheduled
  <1>4. /\ m.type = "notify" /\ Busy(o, m.dir)
        /\ duplicating[Uplink][o] = 0 /\ measuring[m.dir][o] = 0
        /\ Timer(o) >= ProhibitTime - m.age
    BY <1>1 DEF RecvNotify, TestsInv, AnnouncedOnce, TimerOutlastsTest, Busy, OfTest
  <1>5. /\ ack \in Messages /\ ack.type = "ackNotify" /\ ack.age = 0
        /\ ack.client = o /\ ack.dir = m.dir
    BY <1>1, AnswerType
  <1>6. /\ wire' = (wire \ {m}) \cup {ack} /\ UNCHANGED stopped
        /\ \A c \in Clients, d \in Directions :
              /\ duplicating'[d][c] = IF c = o /\ d = m.dir /\ d = Uplink THEN Duration
                                      ELSE duplicating[d][c]
              /\ measuring'[d][c] = IF c = o /\ d = m.dir /\ d = Downlink THEN Duration
                                    ELSE measuring[d][c]
    <2>1. CASE m.dir = Uplink
      <3>1. /\ wire' = (wire \ {m}) \cup {ack} /\ UNCHANGED <<stopped, measuring>>
            /\ duplicating' = [duplicating EXCEPT ![Uplink][o] = Duration]
        BY <1>1, <1>4, <2>1 DEF RecvNotify, StartQosTesting, Uplink, Downlink
      <3> QED
        BY <1>1, <2>1, <3>1 DEF TypeOK, Uplink, Downlink
    <2>2. CASE m.dir = Downlink
      <3>1. /\ wire' = (wire \ {m}) \cup {ack} /\ UNCHANGED <<stopped, duplicating>>
            /\ measuring' = [measuring EXCEPT ![Downlink][o] = Duration]
        BY <1>1, <1>4, <2>2 DEF RecvNotify, Uplink, Downlink
      <3> QED
        BY <1>1, <2>2, <3>1 DEF TypeOK, Uplink, Downlink
    <2> QED
      BY <1>1, <2>1, <2>2 DEF Directions
  <1>7. \A n \in wire' : n = ack \/ n \in wire
    BY <1>6
  <1>8. \A n \in wire' : n.client = o /\ n.type \in {"notify", "ackNotify"} => n = ack
    <2>1. \A n \in wire : n.client = o /\ n.type \in {"notify", "ackNotify"} => n = m
      BY <1>4, OnlyMessage
    <2> QED
      BY <1>6, <2>1
  <1>9. ASSUME NEW c \in Clients, NEW d \in Directions, Busy(c, d)' PROVE Busy(c, d)
    BY <1>4, <1>5, <1>6, <1>7, <1>9 DEF Busy, OfTest
  <1>10. OneOwner'
    BY <1>3, <1>9 DEF TestsInv, OneOwner
  <1>11. TimerOutlastsTest'
    <2> SUFFICES ASSUME NEW c \in Clients, Scheduled(c)
                 PROVE  /\ \A n \in wire' : n.client = c /\ n.type = "notify" =>
                              Timer(c) >= ProhibitTime - n.age
                        /\ \A n \in wire' : n.client = c /\ n.type = "ackNotify" =>
                              Timer(c) >= ProhibitTime - MaxLatency - n.age
                        /\ \A d \in Directions :
                              /\ duplicating'[d][c] > 0 =>
                                    Timer(c) >= duplicating'[d][c] + GuardTime - MaxLatency
                              /\ measuring'[d][c] > 0 =>
                                    Timer(c) >= measuring'[d][c] + GuardTime - 2 * MaxLatency
      BY <1>2, <1>3 DEF TimerOutlastsTest
    <2>1. \A n \in wire' : n.client = c /\ n.type = "notify" => Timer(c) >= ProhibitTime - n.age
      BY <1>5, <1>7 DEF TestsInv, TimerOutlastsTest
    <2>2. Timer(o) >= ProhibitTime - MaxLatency - ack.age
      BY <1>1, <1>2, <1>4, <1>5
    <2>3. \A n \in wire' : n.client = c /\ n.type = "ackNotify" =>
             Timer(c) >= ProhibitTime - MaxLatency - n.age
      BY <1>5, <1>7, <2>2 DEF TestsInv, TimerOutlastsTest
    <2>4. Timer(o) >= Duration + GuardTime - MaxLatency /\ Timer(o) >= Duration + GuardTime - 2 * MaxLatency
      BY <1>1, <1>2, <1>4
    <2>5. ASSUME NEW d \in Directions
          PROVE  /\ duplicating'[d][c] > 0 => Timer(c) >= duplicating'[d][c] + GuardTime - MaxLatency
                 /\ measuring'[d][c] > 0 => Timer(c) >= measuring'[d][c] + GuardTime - 2 * MaxLatency
      BY <1>6, <2>4 DEF TestsInv, TimerOutlastsTest
    <2> QED
      BY <2>1, <2>3, <2>5
  <1>12. AnnouncedOnce'
    <2> SUFFICES ASSUME NEW n \in wire', Scheduled(n.client), n.type \in {"notify", "ackNotify"}
                 PROVE  /\ n.type = "notify" =>
                              /\ duplicating'[Uplink][n.client] = 0 /\ measuring'[n.dir][n.client] = 0
                              /\ \A k \in wire' : OfTest(k, n.client, n.dir) => k = n
                        /\ n.type = "ackNotify" /\ n.dir = Uplink =>
                              /\ measuring'[Uplink][n.client] = 0
                              /\ \A k \in wire' : OfTest(k, n.client, Uplink) => k = n
      BY <1>3, MessageFields DEF AnnouncedOnce, TypeOK
    <2>1. n.client \in Clients /\ n.dir \in Directions
      BY MessageFields DEF TypeOK
    <2>2. CASE n.client = o
      <3>1. n = ack
        BY <1>8, <2>2
      <3>2. m.dir = Uplink => measuring'[Uplink][o] = 0
        BY <1>1, <1>4, <1>6 DEF Uplink, Downlink
      <3> QED
        BY <1>5, <1>8, <2>2, <3>1, <3>2 DEF OfTest
    <2>3. CASE n.client # o
      <3>1. n \in wire
        BY <1>5, <1>7, <2>3
      <3>2. \A k \in wire' : k.client = n.client => k \in wire
        BY <1>5, <1>7, <2>3
      <3>3. \A d \in Directions : duplicating'[d][n.client] = duplicating[d][n.client]
                                  /\ measuring'[d][n.client] = measuring[d][n.client]
        BY <1>6, <2>1, <2>3
      <3>4. /\ n.type = "notify" =>
                  /\ duplicating[Uplink][n.client] = 0 /\ measuring[n.dir][n.client] = 0
                  /\ \A k \in wire : OfTest(k, n.client, n.dir) => k = n
            /\ n.type = "ackNotify" /\ n.dir = Uplink =>
                  /\ measuring[Uplink][n.client] = 0
                  /\ \A k \in wire : OfTest(k, n.client, Uplink) => k = n
        BY <3>1 DEF TestsInv, AnnouncedOnce
      <3> QED
        BY <1>1, <2>1, <3>2, <3>3, <3>4 DEF OfTest
    <2> QED
      BY <2>2, <2>3
  <1> QED
    BY <1>6, <1>10, <1>11, <1>12 DEF TestsInv

\* The server receives the acknowledgement and starts its measurement uplink.
LEMMA AckNotifyStep ==
    ASSUME TypeOK, TypeOK', TestsInv, NEW m \in wire, Scheduled(m.client), RecvAckNotify(m)
    PROVE  TestsInv' /\ UNCHANGED stopped
  <1> USE QosAssumption DEF ProhibitTime
  <1> DEFINE o == m.client
  <1>1. o \in Clients /\ m.dir \in Directions /\ Uplink \in Directions /\ Downlink \in Directions
        /\ m.age \in Int /\ m.age >= 0 /\ m.age <= MaxLatency
    BY MessageFields DEF Directions, TypeOK
  <1>2. \A c \in Clients : Timer(c) \in Int /\ Timer(c)' = Timer(c)
    BY TimerType DEF TypeOK, Timer, RecvAckNotify
  <1>3. \A c \in Clients : Scheduled(c)' <=> Scheduled(c)
    BY DEF RecvAckNotify, Scheduled, clientVars
  <1>4. m.type = "ackNotify" /\ wire' = wire \ {m} /\ UNCHANGED duplicating
    BY DEF RecvAckNotify
  <1>5. CASE UNCHANGED <<measuring, stopped>>
    BY <1>2, <1>3, <1>4, <1>5, CalmStep
  <1>6. CASE ~ UNCHANGED <<measuring, stopped>>
    <2>1. m.dir = Uplink
      BY <1>1, <1>6 DEF RecvAckNotify, Directions
    <2>2. measuring[Uplink][o] = 0
      BY <1>4, <2>1 DEF TestsInv, AnnouncedOnce
    <2>3. measuring' = [measuring EXCEPT ![Uplink][o] = Duration] /\ UNCHANGED stopped
      BY <1>6, <2>2 DEF RecvAckNotify
    <2>4. \A c \in Clients, d \in Directions :
             measuring'[d][c] = IF c = o /\ d = Uplink THEN Duration ELSE measuring[d][c]
      BY <1>1, <2>3 DEF TypeOK
    <2>5. \A n \in wire' : n \in wire /\ n # m
      BY <1>4
    <2>6. \A n \in wire' : ~ (n.client = o /\ n.type \in {"notify", "ackNotify"})
      BY <1>4, <2>1, <2>5, OnlyMessage
    <2>7. Busy(o, Uplink)
      BY <1>4, <2>1 DEF Busy, OfTest
    <2>8. ASSUME NEW c \in Clients, NEW d \in Directions, Busy(c, d)' PROVE Busy(c, d)
      BY <1>4, <2>4, <2>5, <2>7, <2>8 DEF Busy, OfTest
    <2>9. OneOwner'
      BY <1>3, <2>8 DEF TestsInv, OneOwner
    <2>10. Timer(o) >= Duration + GuardTime - 2 * MaxLatency
      <3>1. Timer(o) >= ProhibitTime - MaxLatency - m.age
        BY <1>1, <1>4 DEF TestsInv, TimerOutlastsTest
      <3> QED
        BY <1>1, <1>2, <3>1
    <2>11. TimerOutlastsTest'
      BY <1>2, <1>3, <1>4, <2>4, <2>5, <2>10 DEF TestsInv, TimerOutlastsTest
    <2>12. AnnouncedOnce'
      <3> SUFFICES ASSUME NEW n \in wire', Scheduled(n.client), n.type \in {"notify", "ackNotify"}
                   PROVE  /\ n.type = "notify" =>
                                /\ duplicating'[Uplink][n.client] = 0 /\ measuring'[n.dir][n.client] = 0
                                /\ \A k \in wire' : OfTest(k, n.client, n.dir) => k = n
                          /\ n.type = "ackNotify" /\ n.dir = Uplink =>
                                /\ measuring'[Uplink][n.client] = 0
                                /\ \A k \in wire' : OfTest(k, n.client, Uplink) => k = n
        BY <1>3, MessageFields DEF AnnouncedOnce, TypeOK
      <3>1. n.client \in Clients /\ n.dir \in Directions /\ n.client # o /\ n \in wire
        BY <2>5, <2>6, MessageFields DEF TypeOK
      <3>2. \A d \in Directions : measuring'[d][n.client] = measuring[d][n.client]
        BY <2>4, <3>1
      <3> QED
        BY <1>1, <1>4, <2>5, <3>1, <3>2 DEF TestsInv, AnnouncedOnce
    <2> QED
      BY <2>3, <2>9, <2>11, <2>12 DEF TestsInv
  <1> QED
    BY <1>5, <1>6

\* A tick takes as much of the timer as of everything else.
LEMMA TickStep ==
    ASSUME TypeOK, TypeOK', TestsInv, GuardCoversLatency, Tick
    PROVE  TestsInv'
  <1> USE QosAssumption DEF ProhibitTime
  <1> DEFINE older(m) == [m EXCEPT !.age = @ + 1]
  <1>1. wire' = {older(m) : m \in wire}
    BY DEF Tick
  <1>2. \A m \in wire : /\ older(m).type = m.type /\ older(m).client = m.client
                        /\ older(m).dir = m.dir /\ older(m).age = m.age + 1 /\ m.age \in Int
    BY MessageFields DEF TypeOK, Messages
  <1>3. ASSUME NEW n \in wire'
        PROVE  \E m \in wire : /\ n = older(m)
                               /\ n.type = m.type /\ n.client = m.client
                               /\ n.dir = m.dir /\ n.age = m.age + 1 /\ m.age \in Int
    <2>1. PICK m \in wire : n = older(m)
      BY <1>1
    <2> HIDE DEF older
    <2> QED
      BY <1>2, <2>1
  <1> HIDE DEF older
  <1>4. \A c \in Clients : Scheduled(c)' <=> Scheduled(c)
    BY DEF Tick, Scheduled
  <1>5. \A c \in Clients, d \in Directions :
           /\ duplicating'[d][c] = Less(duplicating[d][c])
           /\ measuring'[d][c] = Less(measuring[d][c])
           /\ duplicating[d][c] \in Int /\ measuring[d][c] \in Int
    BY TestType DEF Tick, TypeOK
  <1>6. ASSUME NEW c \in Clients, NEW d \in Directions, Busy(c, d)' PROVE Busy(c, d)
    <2>1. /\ duplicating'[d][c] > 0 => duplicating[d][c] > 0
          /\ measuring'[d][c] > 0 => measuring[d][c] > 0
      BY <1>5 DEF Less
    <2>2. (\E n \in wire' : OfTest(n, c, d)) => \E m \in wire : OfTest(m, c, d)
      BY <1>3 DEF OfTest
    <2> QED
      BY <1>6, <2>1, <2>2 DEF Busy, OfTest
  <1>7. ASSUME NEW c \in Clients, Scheduled(c), NEW d \in Directions, Busy(c, d)
        PROVE  Timer(c) \in Int /\ Timer(c)' = Timer(c) - 1
    <2>1. Timer(c) > 0 /\ Timer(c) \in Int
      BY <1>7, BusyMeansTimer, TimerType DEF TestsInv, Timer, TypeOK
    <2>2. ChannelOf[c] \in Channels
      OBVIOUS
    <2>3. Timer(c)' = Less(Timer(c))
      <3>1. m_channelToQoSRequestInfo[ChannelOf[c]] \in RequestInfo
        BY <2>2 DEF TypeOK
      <3> QED
        BY <2>2, <3>1 DEF Tick, Timer, RequestInfo
    <2> QED
      BY <2>1, <2>3 DEF Less
  <1>8. OneOwner'
    BY <1>4, <1>6 DEF TestsInv, OneOwner
  <1>9. TimerOutlastsTest'
    <2> SUFFICES ASSUME NEW c \in Clients, Scheduled(c)
                 PROVE  /\ \A n \in wire' : n.client = c /\ n.type = "notify" =>
                              Timer(c)' >= ProhibitTime - n.age
                        /\ \A n \in wire' : n.client = c /\ n.type = "ackNotify" =>
                              Timer(c)' >= ProhibitTime - MaxLatency - n.age
                        /\ \A d \in Directions :
                              /\ duplicating'[d][c] > 0 =>
                                    Timer(c)' >= duplicating'[d][c] + GuardTime - MaxLatency
                              /\ measuring'[d][c] > 0 =>
                                    Timer(c)' >= measuring'[d][c] + GuardTime - 2 * MaxLatency
      BY <1>4 DEF TimerOutlastsTest
    <2>1. ASSUME NEW n \in wire', n.client = c
          PROVE  /\ n.type = "notify" => Timer(c)' >= ProhibitTime - n.age
                 /\ n.type = "ackNotify" => Timer(c)' >= ProhibitTime - MaxLatency - n.age
      <3>1. PICK m \in wire : /\ n.type = m.type /\ n.client = m.client
                              /\ n.dir = m.dir /\ n.age = m.age + 1 /\ m.age \in Int
        BY <1>3
      <3>2. m.dir \in Directions
        BY MessageFields DEF TypeOK
      <3>3. CASE n.type \in {"notify", "ackNotify"}
        <4>1. Timer(c) \in Int /\ Timer(c)' = Timer(c) - 1
          BY <1>7, <2>1, <3>1, <3>2, <3>3 DEF Busy, OfTest
        <4>2. /\ m.type = "notify" => Timer(c) >= ProhibitTime - m.age
              /\ m.type = "ackNotify" => Timer(c) >= ProhibitTime - MaxLatency - m.age
          BY <2>1, <3>1 DEF TestsInv, TimerOutlastsTest
        <4> QED
          BY <3>1, <4>1, <4>2
      <3> QED
        BY <3>3
    <2>2. ASSUME NEW d \in Directions
          PROVE  /\ duplicating'[d][c] > 0 => Timer(c)' >= duplicating'[d][c] + GuardTime - MaxLatency
                 /\ measuring'[d][c] > 0 => Timer(c)' >= measuring'[d][c] + GuardTime - 2 * MaxLatency
      <3>1. /\ duplicating[d][c] > 0 => Timer(c) >= duplicating[d][c] + GuardTime - MaxLatency
            /\ measuring[d][c] > 0 => Timer(c) >= measuring[d][c] + GuardTime - 2 * MaxLatency
        BY DEF TestsInv, TimerOutlastsTest
      <3>2. (duplicating[d][c] > 0 \/ measuring[d][c] > 0) =>
               Timer(c) \in Int /\ Timer(c)' = Timer(c) - 1
        BY <1>7 DEF Busy
      <3> QED
        BY <1>5, <3>1, <3>2 DEF Less
    <2> QED
      BY <2>1, <2>2
  <1>10. AnnouncedOnce'
    <2> SUFFICES ASSUME NEW n \in wire', Scheduled(n.client)
                 PROVE  /\ n.type = "notify" =>
                              /\ duplicating'[Uplink][n.client] = 0 /\ measuring'[n.dir][n.client] = 0
                              /\ \A k \in wire' : OfTest(k, n.client, n.dir) => k = n
                        /\ n.type = "ackNotify" /\ n.dir = Uplink =>
                              /\ measuring'[Uplink][n.client] = 0
                              /\ \A k \in wire' : OfTest(k, n.client, Uplink) => k = n
      BY <1>4, MessageFields DEF AnnouncedOnce, TypeOK
    <2>1. PICK m \in wire : /\ n = older(m) /\ n.type = m.type /\ n.client = m.client /\ n.dir = m.dir
      BY <1>3
    <2>2. m.client \in Clients /\ m.dir \in Directions /\ Uplink \in Directions
      BY MessageFields DEF TypeOK, Directions
    <2>3. /\ m.type = "notify" =>
                /\ duplicating[Uplink][m.client] = 0 /\ measuring[m.dir][m.client] = 0
                /\ \A k \in wire : OfTest(k, m.client, m.dir) => k = m
          /\ m.type = "ackNotify" /\ m.dir = Uplink =>
                /\ measuring[Uplink][m.client] = 0
                /\ \A k \in wire : OfTest(k, m.client, Uplink) => k = m
      BY <2>1 DEF TestsInv, AnnouncedOnce
    <2>4. \A d \in Directions :
             /\ duplicating[d][m.client] = 0 => duplicating'[d][m.client] = 0
             /\ measuring[d][m.client] = 0 => measuring'[d][m.client] = 0
      BY <1>5, <2>2 DEF Less
    <2>5. ASSUME NEW k \in wire', NEW d \in Directions, OfTest(k, n.client, d),
                 \A j \in wire : OfTest(j, m.client, d) => j = m
          PROVE  k = n
      BY <1>3, <2>1, <2>5 DEF OfTest
    <2> QED
      BY <2>1, <2>2, <2>3, <2>4, <2>5
  <1> QED
    BY <1>8, <1>9, <1>10 DEF TestsInv

-----------------------------------------------------------------------------
\* StartTest for a client that follows NetworkGym leaves the scheduled ones alone.
LEMMA UnscheduledStart ==
    ASSUME TypeOK, TypeOK', TestsInv, stopped = {}, UNCHANGED <<clientVars, measuring>>,
           NEW m \in Messages, ~ Scheduled(m.client), NEW W \in SUBSET wire, StartTest(m, W),
           \A c \in Clients : Timer(c)' >= Timer(c)
    PROVE  TestsInv' /\ NoTestRestarted'
  <1> DEFINE o == m.client
  <1>1. o \in Clients /\ m.dir \in Directions /\ Downlink \in Directions
    BY MessageFields DEF Directions
  <1>2. \A c \in Clients : Scheduled(c)' <=> Scheduled(c)
    BY DEF clientVars, Scheduled
  <1>3. /\ stopped' \subseteq {o}
        /\ \A c \in Clients, d \in Directions : c # o => duplicating'[d][c] = duplicating[d][c]
    <2>1. CASE m.dir = Downlink
      <3>1. StartQosTesting(o, Downlink)
        BY <2>1 DEF StartTest
      <3>2. CASE duplicating[Downlink][o] > 0
        BY <3>1, <3>2 DEF StartQosTesting
      <3>3. CASE ~ duplicating[Downlink][o] > 0
        <4>1. duplicating' = [duplicating EXCEPT ![Downlink][o] = Duration] /\ UNCHANGED stopped
          BY <3>1, <3>3 DEF StartQosTesting
        <4> QED
          BY <1>1, <4>1 DEF TypeOK
      <3> QED
        BY <3>2, <3>3
    <2>2. CASE m.dir # Downlink
      BY <2>2 DEF StartTest
    <2> QED
      BY <2>1, <2>2
  <1>4. \A n \in wire' : Scheduled(n.client)' => n \in wire
    <2>1. Answer("ackRequest", m).client = o /\ Answer("notify", m).client = o
      BY AnswerType
    <2>2. wire' = W \cup {Answer("ackRequest", m), Answer("notify", m)}
      BY DEF StartTest
    <2> QED
      BY <1>1, <1>2, <2>1, <2>2
  <1>5. TestsInv'
    BY <1>2, <1>3, <1>4, CalmStep
  <1>6. NoTestRestarted'
    BY <1>1, <1>2, <1>3 DEF NoTestRestarted
  <1> QED
    BY <1>5, <1>6

\* The scheduler starts a test on a channel that is free, or whose timer has expired.
LEMMA ChannelStart ==
    ASSUME TypeOK, TypeOK', TestsInv, GuardCoversLatency, stopped = {},
           UNCHANGED <<clientVars, measuring>>,
           NEW m \in Messages, NEW W \in SUBSET wire, StartTest(m, W),
           NEW ch \in Channels, m_channelToQoSRequestInfo[ch].timer <= 0,
           NEW info \in RequestInfo, info.timer = ProhibitTime,
           m_channelToQoSRequestInfo' = [m_channelToQoSRequestInfo EXCEPT ![ch] = info],
           Scheduled(m.client) => ChannelOf[m.client] = ch
    PROVE  TestsInv' /\ NoTestRestarted'
  <1>1. m.client \in Clients /\ \A c \in Clients : ChannelOf[c] \in Channels
    BY MessageFields, QosAssumption
  <1>2. \A c \in Clients : /\ Timer(c)' = IF ChannelOf[c] = ch THEN ProhibitTime ELSE Timer(c)
                           /\ ChannelOf[c] = ch => Timer(c) <= 0
                           /\ Timer(c) \in Int
    <2>1. \A c \in Clients : Timer(c) \in Int
      BY TimerType DEF Timer, TypeOK
    <2> QED
      BY <1>1, <2>1 DEF Timer, TypeOK
  <1>3. CASE Scheduled(m.client)
    <2>1. \A c, b \in Clients : ChannelOf[c] = ChannelOf[b] => Timer(c) = Timer(b)
      BY DEF Timer
    <2>2. TestsInv' /\ UNCHANGED stopped
      BY <1>1, <1>2, <1>3, <2>1, StartStep
    <2> QED
      BY <2>2 DEF NoTestRestarted
  <1>4. CASE ~ Scheduled(m.client)
    <2>1. \A c \in Clients : Timer(c)' >= Timer(c)
      BY <1>2, QosAssumption DEF ProhibitTime
    <2> QED
      BY <1>4, <2>1, UnscheduledStart
  <1> QED
    BY <1>3, <1>4

\* A step of the receiving ends for a client that follows NetworkGym.
LEMMA UnscheduledReceive ==
    ASSUME TypeOK, TypeOK', TestsInv, stopped = {},
           NEW m \in wire, ~ Scheduled(m.client), RecvNotify(m) \/ RecvAckNotify(m)
    PROVE  TestsInv' /\ NoTestRestarted'
  <1> DEFINE o == m.client
  <1>1. o \in Clients /\ m.dir \in Directions /\ Uplink \in Directions /\ Downlink \in Directions
        /\ m \in Messages
    BY MessageFields DEF Directions, TypeOK
  <1>2. \A c \in Clients : Scheduled(c)' <=> Scheduled(c)
    BY DEF clientVars, Scheduled, RecvNotify, RecvAckNotify
  <1>3. \A c \in Clients : Timer(c) \in Int /\ Timer(c)' = Timer(c)
    BY TimerType DEF Timer, TypeOK, RecvNotify, RecvAckNotify
  <1>4. /\ duplicating' \in {duplicating, [duplicating EXCEPT ![Uplink][o] = Duration]}
        /\ measuring' \in {measuring, [measuring EXCEPT ![Downlink][o] = Duration],
                                      [measuring EXCEPT ![Uplink][o] = Duration]}
        /\ stopped' \subseteq {o}
    BY DEF RecvNotify, RecvAckNotify, StartQosTesting, testVars
  <1>5. \A c \in Clients, d \in Directions :
           c # o => duplicating'[d][c] = duplicating[d][c] /\ measuring'[d][c] = measuring[d][c]
    BY <1>1, <1>4 DEF TypeOK
  <1>6. wire' \subseteq wire \cup {Answer("ackNotify", m)}
    BY DEF RecvNotify, RecvAckNotify
  <1>7. \A n \in wire' : Scheduled(n.client)' => n \in wire
    <2>1. Answer("ackNotify", m).client = o
      BY <1>1, AnswerType
    <2> QED
      BY <1>1, <1>2, <1>6, <2>1
  <1>8. TestsInv'
    BY <1>2, <1>3, <1>5, <1>7, CalmStep
  <1>9. NoTestRestarted'
    BY <1>1, <1>2, <1>4 DEF NoTestRestarted
  <1> QED
    BY <1>8, <1>9

-----------------------------------------------------------------------------
\* The messages that a step adds are answers, so they name the channel of their request.
LEMMA AnswersNameChannel ==
    ASSUME TypeOK, RequestsNameChannel, \A c \in Clients : Scheduled(c)' => Scheduled(c),
           NEW m \in Messages, Scheduled(m.client) => m.channel = ChannelOf[m.client],
           \A n \in wire' : n \in wire \/ \E type \in {"ackRequest", "notify", "ackNotify"} :
                                             n = Answer(type, m)
    PROVE  \A n \in wire' : Scheduled(n.client)' => n.channel = ChannelOf[n.client]
  <1> SUFFICES ASSUME NEW n \in wire', Scheduled(n.client)'
               PROVE  n.channel = ChannelOf[n.client]
    OBVIOUS
  <1>1. CASE n \in wire
    BY <1>1, MessageFields DEF TypeOK, RequestsNameChannel
  <1>2. ASSUME NEW type \in {"ackRequest", "notify", "ackNotify"}, n = Answer(type, m)
        PROVE  n.channel = ChannelOf[n.client]
    <2>1. n.client = m.client /\ n.channel = m.channel /\ m.client \in Clients
      BY <1>2, AnswerType, MessageFields
    <2> QED
      BY <2>1
  <1> QED
    BY <1>1, <1>2

\* The requests that wait for a channel go on naming it.
LEMMA ListKept ==
    ASSUME NEW list \in Seq(Messages), NEW ch, ListNamesChannel(list, ch),
           \A c \in Clients : Scheduled(c)' => Scheduled(c)
    PROVE  \A i \in 1 .. Len(list) :
              /\ list[i].channel = ch
              /\ ~ m_qosSteerActionReceived'[list[i].client] => ChannelOf[list[i].client] = ch
  <1> SUFFICES ASSUME NEW i \in 1 .. Len(list)
               PROVE  /\ list[i].channel = ch
                      /\ ~ m_qosSteerActionReceived'[list[i].client] => ChannelOf[list[i].client] = ch
    OBVIOUS
  <1>1. list[i] \in Messages
    OBVIOUS
  <1>2. list[i].client \in Clients
    BY <1>1, MessageFields
  <1> QED
    BY <1>2 DEF ListNamesChannel, Scheduled

\* The list of a channel holds messages.
LEMMA ListType ==
    ASSUME NEW info \in RequestInfo
    PROVE  info.list \in Seq(Messages)
  BY DEF RequestInfo

\* The lists and the timers of the map, after a step that changes one channel's entry.
LEMMA ListStep ==
    ASSUME TypeOK, RequestsNameChannel, EntryMeansTimer,
           \A c \in Clients : Scheduled(c)' => Scheduled(c),
           NEW ch \in Channels, NEW info \in RequestInfo,
           m_channelToQoSRequestInfo' = [m_channelToQoSRequestInfo EXCEPT ![ch] = info],
           ListNamesChannel(info.list, ch),
           IF info.present THEN info.timer >= 0 ELSE ~ info.timer >= 0,
           \A n \in wire' : Scheduled(n.client)' => n.channel = ChannelOf[n.client]
    PROVE  RequestsNameChannel' /\ EntryMeansTimer'
  <1>1. \A c \in Channels : m_channelToQoSRequestInfo'[c] =
           IF c = ch THEN info ELSE m_channelToQoSRequestInfo[c]
    BY DEF TypeOK
  <1>2. EntryMeansTimer'
    BY <1>1 DEF EntryMeansTimer, Running
  <1>3. ASSUME NEW c \in Channels
        PROVE  ListNamesChannel(m_channelToQoSRequestInfo[c].list, c)'
    <2> DEFINE list == m_channelToQoSRequestInfo'[c].list
               old == IF c = ch THEN info.list ELSE m_channelToQoSRequestInfo[c].list
    <2>1. old \in Seq(Messages)
      BY ListType DEF TypeOK
    <2>2. ListNamesChannel(old, c)
      BY DEF RequestsNameChannel
    <2>3. list = old
      BY <1>1
    <2> HIDE DEF old
    <2>4. \A i \in 1 .. Len(old) :
             /\ old[i].channel = c
             /\ ~ m_qosSteerActionReceived'[old[i].client] => ChannelOf[old[i].client] = c
      BY <2>1, <2>2, ListKept
    <2> QED
      BY <2>3, <2>4 DEF ListNamesChannel, Scheduled
  <1> QED
    BY <1>2, <1>3 DEF RequestsNameChannel

\* The same for a step that leaves the map alone.
LEMMA SameListStep ==
    ASSUME TypeOK, RequestsNameChannel, EntryMeansTimer, UNCHANGED m_channelToQoSRequestInfo,
           \A c \in Clients : Scheduled(c)' => Scheduled(c),
           \A n \in wire' : Scheduled(n.client)' => n.channel = ChannelOf[n.client]
    PROVE  RequestsNameChannel' /\ EntryMeansTimer'
  <1>1. EntryMeansTimer'
    BY DEF EntryMeansTimer, Running
  <1>2. ASSUME NEW c \in Channels
        PROVE  ListNamesChannel(m_channelToQoSRequestInfo[c].list, c)'
    <2> DEFINE old == m_channelToQoSRequestInfo[c].list
    <2>1. old \in Seq(Messages)
      BY ListType DEF TypeOK
    <2>2. ListNamesChannel(old, c)
      BY DEF RequestsNameChannel
    <2>3. \A i \in 1 .. Len(old) :
             /\ old[i].channel = c
             /\ ~ m_qosSteerActionReceived'[old[i].client] => ChannelOf[old[i].client] = c
      BY <2>1, <2>2, ListKept
    <2> QED
      BY <2>3 DEF ListNamesChannel, Scheduled
  <1> QED
    BY <1>1, <1>2 DEF RequestsNameChannel

-----------------------------------------------------------------------------
\* The invariant of the scheduler is inductive, and no step restarts a test.
LEMMA SchedulerInductive ==
    ASSUME TypeOK, TypeOK', SchedulerInv, NoTestRestarted, GuardCoversLatency, [Next]_vars
    PROVE  SchedulerInv' /\ NoTestRestarted'
  <1> DEFINE Names(m) == Scheduled(m.client) => m.channel = ChannelOf[m.client]
  <1>a. RequestsNameChannel /\ EntryMeansTimer /\ TestsInv
    BY DEF SchedulerInv
  <1>b. \A m \in wire : m \in Messages /\ m.client \in Clients /\ Names(m)
    BY <1>a, MessageFields DEF TypeOK, RequestsNameChannel
  <1>c. \A c \in Clients : Timer(c) \in Int /\ Timer(c) >= Timer(c)
    <2>1. \A c \in Clients : Timer(c) \in Int
      BY TimerType DEF TypeOK, Timer
    <2> QED
      BY <2>1
  <1>1. ASSUME NEW c \in Clients, NEW dir \in Directions, stopped = {}, RequestTest(c, dir)
        PROVE  SchedulerInv' /\ NoTestRestarted'
    <2> DEFINE ch == IF m_qosSteerActionReceived[c] THEN AnyChannel ELSE ChannelOf[c]
               request == Msg("request", c, dir, ch, requests)
    <2>1. /\ wire' = wire \cup {request} /\ request.type = "request"
          /\ request.client = c /\ request.channel = ch
      BY <1>1 DEF RequestTest, Msg
    <2>2. UNCHANGED <<m_qosSteerActionReceived, duplicating, measuring,
                      m_channelToQoSRequestInfo, stopped>>
      BY <1>1 DEF RequestTest, testVars
    <2>3. \A b \in Clients : /\ Scheduled(b)' <=> Scheduled(b)
                             /\ Timer(b)' = Timer(b)
      BY <2>2 DEF Scheduled, Timer
    <2>4. \A n \in wire' : Scheduled(n.client)' => n.channel = ChannelOf[n.client]
      BY <1>b, <2>1, <2>3 DEF Scheduled
    <2>5. TestsInv'
      BY <1>a, <1>c, <2>1, <2>2, <2>3, CalmStep
    <2>6. RequestsNameChannel' /\ EntryMeansTimer'
      BY <1>a, <2>2, <2>3, <2>4, SameListStep
    <2> QED
      BY <1>1, <2>2, <2>5, <2>6 DEF SchedulerInv, NoTestRestarted
  <1>2. ASSUME NEW c \in Steered, NEW kind \in {"none", "backup", "default"}, stopped = {},
               ReceiveDlSplitWeightAction(c, kind)
        PROVE  SchedulerInv' /\ NoTestRestarted'
    <2>1. UNCHANGED <<wire, duplicating, m_channelToQoSRequestInfo, stopped>>
      BY <1>2 DEF ReceiveDlSplitWeightAction
    <2>2. c \in Clients
      BY QosAssumption
    <2>3. \A b \in Clients : Scheduled(b)' => Scheduled(b)
      BY <1>2, <2>2 DEF ReceiveDlSplitWeightAction, Scheduled, TypeOK
    <2>4. \A b \in Clients, d \in Directions : measuring'[d][b] \in {0, measuring[d][b]}
      BY <1>2, <2>2 DEF ReceiveDlSplitWeightAction, TypeOK, Directions
    <2>5. \A b \in Clients : Timer(b)' = Timer(b)
      BY <2>1 DEF Timer
    <2>6. TestsInv'
      BY <1>a, <1>c, <2>1, <2>3, <2>4, <2>5, CalmStep
    <2>7. RequestsNameChannel' /\ EntryMeansTimer'
      BY <1>a, <1>b, <2>1, <2>3, SameListStep
    <2> QED
      BY <1>2, <2>1, <2>6, <2>7 DEF SchedulerInv, NoTestRestarted
  <1>3. ASSUME stopped = {}, UNCHANGED <<m_qosSteerActionReceived, duplicating, measuring,
                                        m_channelToQoSRequestInfo, stopped>>,
               wire' \subseteq wire
        PROVE  SchedulerInv' /\ NoTestRestarted'
    <2>1. \A b \in Clients : /\ Scheduled(b)' <=> Scheduled(b)
                             /\ Timer(b)' = Timer(b)
      BY <1>3 DEF Scheduled, Timer
    <2>2. TestsInv'
      BY <1>a, <1>c, <1>3, <2>1, CalmStep
    <2>3. RequestsNameChannel' /\ EntryMeansTimer'
      BY <1>a, <1>b, <1>3, <2>1, SameListStep
    <2> QED
      BY <1>3, <2>2, <2>3 DEF SchedulerInv, NoTestRestarted
  <1>4. ASSUME NEW ch \in Channels, stopped = {}, QosTestingTimerExpire(ch)
        PROVE  SchedulerInv' /\ NoTestRestarted'
    <2> DEFINE info == m_channelToQoSRequestInfo[ch]
    <2>1. info \in RequestInfo /\ info.list \in Seq(Messages) /\ info.timer = 0
          /\ ListNamesChannel(info.list, ch)
      BY <1>a, <1>4, ListType DEF TypeOK, QosTestingTimerExpire, RequestsNameChannel
    <2>2. UNCHANGED <<clientVars, measuring>>
      BY <1>4 DEF QosTestingTimerExpire
    <2>3. \A b \in Clients : Scheduled(b)' <=> Scheduled(b)
      BY <2>2 DEF Scheduled, clientVars
    <2>4. CASE info.list = <<>>
      <3>1. /\ UNCHANGED <<wire, duplicating, stopped>>
            /\ m_channelToQoSRequestInfo' = [m_channelToQoSRequestInfo EXCEPT ![ch] = NoEntry]
        BY <1>4, <2>4 DEF QosTestingTimerExpire
      <3>2. /\ NoEntry \in RequestInfo /\ ListNamesChannel(NoEntry.list, ch)
            /\ ~ NoEntry.present /\ NoEntry.timer = -1
        BY QosAssumption DEF NoEntry, RequestInfo, ListNamesChannel, ProhibitTime
      <3>3. RequestsNameChannel' /\ EntryMeansTimer'
        <4>1. ~ NoEntry.timer >= 0
          BY <3>2
        <4> QED
          BY <1>a, <1>b, <2>3, <3>1, <3>2, <4>1, ListStep
      <3>4. ASSUME NEW b \in Clients, Scheduled(b)
            PROVE  Timer(b)' >= Timer(b) \/ \A d \in Directions : ~ Busy(b, d)
        <4>1. CASE ChannelOf[b] = ch
          <5>1. Timer(b) = 0
            BY <2>1, <4>1 DEF Timer
          <5> QED
            BY <1>a, <3>4, <5>1, BusyMeansTimer DEF TestsInv
        <4>2. CASE ChannelOf[b] # ch
          <5>1. Timer(b)' = Timer(b)
            BY <3>1, <4>2, QosAssumption DEF Timer, TypeOK
          <5> QED
            BY <1>c, <5>1
        <4> QED
          BY <4>1, <4>2
      <3>5. TestsInv'
        BY <1>a, <2>2, <2>3, <3>1, <3>4, CalmStep
      <3> QED
        BY <1>4, <3>1, <3>3, <3>5 DEF SchedulerInv, NoTestRestarted
    <2>5. CASE info.list # <<>>
      <3> DEFINE m == Head(info.list)
                 next == [present |-> TRUE, timer |-> ProhibitTime, list |-> Tail(info.list)]
      <3>1. /\ StartTest(m, wire)
            /\ m_channelToQoSRequestInfo' = [m_channelToQoSRequestInfo EXCEPT ![ch] = next]
        BY <1>4, <2>5 DEF QosTestingTimerExpire
      <3>2. m = info.list[1] /\ 1 \in 1 .. Len(info.list) /\ m \in Messages
        BY <2>1, <2>5
      <3>3. m.channel = ch /\ (Scheduled(m.client) => ChannelOf[m.client] = ch)
        BY <2>1, <3>2 DEF ListNamesChannel
      <3>4. next \in RequestInfo /\ ProhibitTime >= 0
        <4>1. Tail(info.list) \in Seq(Messages)
          BY <2>1, <2>5
        <4> QED
          BY <4>1, QosAssumption DEF RequestInfo, ProhibitTime
      <3>5. ListNamesChannel(next.list, ch)
        <4>1. \A i \in 1 .. Len(Tail(info.list)) :
                 Tail(info.list)[i] = info.list[i + 1] /\ i + 1 \in 1 .. Len(info.list)
          BY <2>1, <2>5
        <4> QED
          BY <2>1, <4>1 DEF ListNamesChannel
      <3>6. next.timer = ProhibitTime /\ next.present
        OBVIOUS
      <3>7. \A n \in wire' : n \in wire \/ \E type \in {"ackRequest", "notify", "ackNotify"} :
                                              n = Answer(type, m)
        BY <3>1 DEF StartTest
      <3> HIDE DEF next, m
      <3>8. \A n \in wire' : Scheduled(n.client)' => n.channel = ChannelOf[n.client]
        BY <1>a, <2>3, <3>2, <3>3, <3>7, AnswersNameChannel
      <3>9. RequestsNameChannel' /\ EntryMeansTimer'
        BY <1>a, <2>3, <3>1, <3>4, <3>5, <3>6, <3>8, ListStep
      <3>10. m_channelToQoSRequestInfo[ch].timer <= 0
        BY <2>1
      <3>11. TestsInv' /\ NoTestRestarted'
        BY <1>a, <1>4, <2>2, <3>1, <3>2, <3>3, <3>4, <3>6, <3>10, ChannelStart
      <3> QED
        BY <3>9, <3>11 DEF SchedulerInv
    <2> QED
      BY <2>4, <2>5
  <1>5. ASSUME NEW m \in wire, stopped = {}, VirtualRecv(m)
        PROVE  SchedulerInv' /\ NoTestRestarted'
    <2>1. m \in Messages /\ m.client \in Clients /\ m.channel \in Channels \cup {AnyChannel}
          /\ Names(m) /\ wire \ {m} \in SUBSET wire
      BY <1>b, MessageFields
    <2>2. UNCHANGED <<clientVars, measuring>>
      BY <1>5 DEF VirtualRecv
    <2>3. \A b \in Clients : Scheduled(b)' <=> Scheduled(b)
      BY <2>2 DEF Scheduled, clientVars
    <2>4. AnyChannel \notin Channels /\ \A b \in Clients : ChannelOf[b] \in Channels
      BY QosAssumption DEF AnyChannel
    <2>5. (\A n \in wire' : n \in wire \/ \E type \in {"ackRequest", "notify", "ackNotify"} :
                                             n = Answer(type, m))
             => \A n \in wire' : Scheduled(n.client)' => n.channel = ChannelOf[n.client]
      BY <1>a, <2>1, <2>3, AnswersNameChannel
    <2>6. CASE m.channel = AnyChannel
      <3>1. StartTest(m, wire \ {m}) /\ UNCHANGED m_channelToQoSRequestInfo
        BY <1>5, <2>6 DEF VirtualRecv
      <3>2. ~ Scheduled(m.client)
        BY <2>1, <2>4, <2>6
      <3>3. \A b \in Clients : Timer(b)' >= Timer(b)
        BY <1>c, <3>1 DEF Timer
      <3>4. TestsInv' /\ NoTestRestarted'
        BY <1>a, <1>5, <2>1, <2>2, <3>1, <3>2, <3>3, UnscheduledStart
      <3>5. \A n \in wire' : Scheduled(n.client)' => n.channel = ChannelOf[n.client]
        BY <2>5, <3>1 DEF StartTest
      <3>6. RequestsNameChannel' /\ EntryMeansTimer'
        BY <1>a, <2>3, <3>1, <3>5, SameListStep
      <3> QED
        BY <3>4, <3>6 DEF SchedulerInv
    <2>7. CASE m.channel # AnyChannel /\ ~ m_channelToQoSRequestInfo[m.channel].present
      <3> DEFINE ch == m.channel
                 new == [present |-> TRUE, timer |-> ProhibitTime, list |-> <<>>]
      <3>1. /\ StartTest(m, wire \ {m}) /\ ch \in Channels
            /\ m_channelToQoSRequestInfo' = [m_channelToQoSRequestInfo EXCEPT ![ch] = new]
        BY <1>5, <2>1, <2>7 DEF VirtualRecv
      <3>2. /\ new \in RequestInfo /\ new.timer = ProhibitTime /\ new.present /\ ProhibitTime >= 0
            /\ ListNamesChannel(new.list, ch)
        BY QosAssumption DEF RequestInfo, ListNamesChannel, ProhibitTime
      <3>3. Scheduled(m.client) => ChannelOf[m.client] = ch
        BY <2>1
      <3>4. \A n \in wire' : Scheduled(n.client)' => n.channel = ChannelOf[n.client]
        BY <2>5, <3>1 DEF StartTest
      <3> HIDE DEF new
      <3>5. RequestsNameChannel' /\ EntryMeansTimer'
        BY <1>a, <2>3, <3>1, <3>2, <3>4, ListStep
      <3>6. m_channelToQoSRequestInfo[ch].timer <= 0
        <4>1. m_channelToQoSRequestInfo[ch] \in RequestInfo
          BY <3>1 DEF TypeOK
        <4>2. m_channelToQoSRequestInfo[ch].timer \in Int
          BY <4>1, QosAssumption DEF RequestInfo, ProhibitTime
        <4> QED
          BY <1>a, <2>7, <3>1, <4>2 DEF EntryMeansTimer, Running
      <3>7. TestsInv' /\ NoTestRestarted'
        BY <1>a, <1>5, <2>1, <2>2, <3>1, <3>2, <3>3, <3>6, ChannelStart
      <3> QED
        BY <3>5, <3>7 DEF SchedulerInv
    <2>8. CASE m.channel # AnyChannel /\ m_channelToQoSRequestInfo[m.channel].present
      <3> DEFINE ch == m.channel
                 info == m_channelToQoSRequestInfo[ch]
                 longer == [info EXCEPT !.list = Append(@, m)]
      <3>1. ch \in Channels /\ Running(ch)
        BY <1>a, <2>1, <2>8 DEF EntryMeansTimer
      <3>2. /\ m_channelToQoSRequestInfo' = [m_channelToQoSRequestInfo EXCEPT ![ch] = longer]
            /\ wire' = (wire \ {m}) \cup {Answer("ackRequest", m)}
            /\ UNCHANGED <<stopped, duplicating>>
        BY <1>5, <2>8, <3>1 DEF VirtualRecv
      <3>3. info \in RequestInfo /\ info.list \in Seq(Messages)
        BY <3>1, ListType DEF TypeOK
      <3>4. Append(info.list, m) \in Seq(Messages)
        BY <2>1, <3>3
      <3>5. /\ longer \in RequestInfo /\ longer.timer = info.timer
            /\ longer.present = info.present /\ longer.list = Append(info.list, m)
        BY <3>3, <3>4 DEF RequestInfo
      <3>6. ListNamesChannel(info.list, ch)
        BY <1>a, <3>1 DEF RequestsNameChannel
      <3> HIDE DEF longer
      <3>7. ListNamesChannel(longer.list, ch)
        <4>1. \A i \in 1 .. Len(Append(info.list, m)) :
                 Append(info.list, m)[i] = m \/
                 (i \in 1 .. Len(info.list) /\ Append(info.list, m)[i] = info.list[i])
          BY <2>1, <3>3
        <4> QED
          BY <2>1, <3>5, <3>6, <4>1 DEF ListNamesChannel
      <3>8. \A n \in wire' : Scheduled(n.client)' => n.channel = ChannelOf[n.client]
        BY <2>5, <3>2
      <3>9. RequestsNameChannel' /\ EntryMeansTimer'
        BY <1>a, <2>3, <2>8, <3>1, <3>2, <3>5, <3>7, <3>8, ListStep DEF Running
      <3>10. \A b \in Clients : Timer(b)' = Timer(b)
        BY <2>4, <3>1, <3>2, <3>5 DEF Timer, TypeOK
      <3>11. Answer("ackRequest", m).type = "ackRequest"
        BY <2>1, AnswerType
      <3>12. TestsInv'
        BY <1>a, <1>c, <2>2, <2>3, <3>2, <3>10, <3>11, CalmStep
      <3> QED
        BY <1>5, <3>2, <3>9, <3>12 DEF SchedulerInv, NoTestRestarted
    <2> QED
      BY <2>6, <2>7, <2>8
  <1>6. ASSUME NEW m \in wire, stopped = {}, RecvNotify(m) \/ RecvAckNotify(m)
        PROVE  SchedulerInv' /\ NoTestRestarted'
    <2>1. m \in Messages /\ m.client \in Clients /\ Names(m)
      BY <1>b
    <2>2. \A b \in Clients : Scheduled(b)' <=> Scheduled(b)
      BY <1>6 DEF clientVars, Scheduled, RecvNotify, RecvAckNotify
    <2>3. UNCHANGED m_channelToQoSRequestInfo /\ wire' \subseteq wire \cup {Answer("ackNotify", m)}
      BY <1>6 DEF RecvNotify, RecvAckNotify
    <2>4. \A n \in wire' : Scheduled(n.client)' => n.channel = ChannelOf[n.client]
      BY <1>a, <2>1, <2>2, <2>3, AnswersNameChannel
    <2>5. RequestsNameChannel' /\ EntryMeansTimer'
      BY <1>a, <2>2, <2>3, <2>4, SameListStep
    <2>6. TestsInv' /\ NoTestRestarted'
      <3>1. CASE ~ Scheduled(m.client)
        BY <1>a, <1>6, <3>1, UnscheduledReceive
      <3>2. CASE Scheduled(m.client)
        <4>1. TestsInv' /\ UNCHANGED stopped
          BY <1>a, <1>6, <3>2, NotifyStep, AckNotifyStep
        <4> QED
          BY <1>6, <4>1 DEF NoTestRestarted
      <3> QED
        BY <3>1, <3>2
    <2> QED
      BY <2>5, <2>6 DEF SchedulerInv
  <1>7. CASE stopped = {} /\ Tick
    <2>1. TestsInv'
      BY <1>a, <1>7, TickStep
    <2>2. UNCHANGED <<m_qosSteerActionReceived, stopped>>
      BY <1>7 DEF Tick
    <2>3. \A ch \in Channels :
             /\ m_channelToQoSRequestInfo[ch] \in RequestInfo
             /\ m_channelToQoSRequestInfo'[ch] =
                   [m_channelToQoSRequestInfo[ch] EXCEPT !.timer = Less(@)]
             /\ m_channelToQoSRequestInfo[ch].timer # 0
      BY <1>7 DEF Tick, TypeOK
    <2>4. ASSUME NEW ch \in Channels
          PROVE  /\ m_channelToQoSRequestInfo'[ch].list = m_channelToQoSRequestInfo[ch].list
                 /\ m_channelToQoSRequestInfo'[ch].present = m_channelToQoSRequestInfo[ch].present
                 /\ m_channelToQoSRequestInfo'[ch].timer >= 0
                       <=> m_channelToQoSRequestInfo[ch].timer >= 0
      <3> DEFINE info == m_channelToQoSRequestInfo[ch]
      <3>1. info \in RequestInfo /\ info.timer # 0
        BY <2>3
      <3>2. [info EXCEPT !.timer = Less(@)].timer = Less(info.timer)
            /\ [info EXCEPT !.timer = Less(@)].list = info.list
            /\ [info EXCEPT !.timer = Less(@)].present = info.present
            /\ info.timer \in -1 .. ProhibitTime
        BY <3>1 DEF RequestInfo
      <3>3. info.timer \in Int
        BY <3>2, QosAssumption DEF ProhibitTime
      <3>4. Less(info.timer) >= 0 <=> info.timer >= 0
        BY <3>3 DEF Less
      <3> QED
        BY <2>3, <3>2, <3>4
    <2>5. EntryMeansTimer'
      BY <1>a, <2>4 DEF EntryMeansTimer, Running
    <2>6. ASSUME NEW n \in wire', Scheduled(n.client)' PROVE n.channel = ChannelOf[n.client]
      <3>1. PICK m \in wire : n = [m EXCEPT !.age = @ + 1]
        BY <1>7 DEF Tick
      <3>2. n.client = m.client /\ n.channel = m.channel
        BY <1>b, <3>1 DEF Messages
      <3> QED
        BY <1>b, <2>2, <2>6, <3>2 DEF Scheduled
    <2>7. RequestsNameChannel'
      BY <1>a, <2>2, <2>4, <2>6 DEF RequestsNameChannel, ListNamesChannel, Scheduled
    <2> QED
      BY <1>7, <2>1, <2>2, <2>5, <2>7 DEF SchedulerInv, NoTestRestarted
  <1>8. CASE UNCHANGED vars
    BY <1>8 DEF vars, clientVars, testVars, SchedulerInv, TestsInv, NoTestRestarted,
                RequestsNameChannel, EntryMeansTimer, TimerOutlastsTest, OneOwner, AnnouncedOnce,
                ListNamesChannel, Scheduled, Running, Timer, Busy, OfTest
  <1>9. ASSUME NEW e \in m_txedCtrQueue, RetxCtrlMsgExpires(e), stopped = {}
        PROVE  SchedulerInv' /\ NoTestRestarted'
    BY <1>3, <1>9 DEF RetxCtrlMsgExpires, testVars
  <1>10. ASSUME NEW m \in wire, RecvAckRequest(m) \/ Lose(m), stopped = {}
         PROVE  SchedulerInv' /\ NoTestRestarted'
    BY <1>3, <1>10 DEF RecvAckRequest, Lose, testVars, clientVars
  <1> QED
    BY <1>1, <1>2, <1>4, <1>5, <1>6, <1>7, <1>8, <1>9, <1>10 DEF Next, Deliver

\* At first no test is announced or under way, and no channel has an entry.
LEMMA SchedulerInit == Init => SchedulerInv /\ NoTestRestarted
  <1> SUFFICES ASSUME Init PROVE SchedulerInv /\ NoTestRestarted
    OBVIOUS
  <1>1. \A ch \in Channels : m_channelToQoSRequestInfo[ch] = NoEntry
    BY DEF Init
  <1>2. RequestsNameChannel
    BY <1>1 DEF Init, RequestsNameChannel, ListNamesChannel, NoEntry
  <1>3. EntryMeansTimer
    BY <1>1 DEF EntryMeansTimer, Running, NoEntry
  <1>4. \A c \in Clients, d \in Directions : duplicating[d][c] = 0 /\ measuring[d][c] = 0
    BY DEF Init
  <1>5. TimerOutlastsTest
    BY <1>4 DEF Init, TimerOutlastsTest
  <1>6. OneOwner
    BY <1>4 DEF Init, OneOwner, Busy
  <1>7. AnnouncedOnce
    BY DEF Init, AnnouncedOnce
  <1> QED
    BY <1>2, <1>3, <1>5, <1>6, <1>7 DEF SchedulerInv, TestsInv, Init, NoTestRestarted

\* The scheduler never starts a test or a measurement of a scheduled client while the
\* previous one is running: the fatal errors of StartQosTesting, of the ACK of a
\* notification and of an entry without a timer are out of reach.
THEOREM NoRestart == GuardCoversLatency => (Spec => []NoTestRestarted)
  <1> SUFFICES ASSUME GuardCoversLatency PROVE Spec => []NoTestRestarted
    OBVIOUS
  <1>1. SchedulerInv /\ NoTestRestarted /\ TypeOK /\ TypeOK' /\ [Next]_vars
           => (SchedulerInv /\ NoTestRestarted)'
    BY SchedulerInductive
  <1> QED
    BY <1>1, SchedulerInit, TypeCorrect, PTL DEF Spec

\* The inductive invariant holds at all times.
LEMMA SchedulerCorrect == GuardCoversLatency => (Spec => []SchedulerInv)
  <1> SUFFICES ASSUME GuardCoversLatency PROVE Spec => []SchedulerInv
    OBVIOUS
  <1>1. SchedulerInv /\ NoTestRestarted /\ TypeOK /\ TypeOK' /\ [Next]_vars
           => (SchedulerInv /\ NoTestRestarted)'
    BY SchedulerInductive
  <1> QED
    BY <1>1, SchedulerInit, TypeCorrect, PTL DEF Spec

\* At most one test, of all clients and both directions, runs on a channel at either
\* end, for any number of clients and any loss of messages.
THEOREM OneTestAtATime == GuardCoversLatency => (Spec => []OneTestPerChannel)
  <1>1. SchedulerInv => OneTestPerChannel
    <2> SUFFICES ASSUME SchedulerInv, NEW ch \in Channels
                 PROVE  Cardinality(RunningTests(ch)) <= 1
      BY DEF OneTestPerChannel
    <2>1. \A t, u \in RunningTests(ch) : t = u
      <3> SUFFICES ASSUME NEW t \in RunningTests(ch), NEW u \in RunningTests(ch)
                   PROVE  t = u
        OBVIOUS
      <3>1. /\ t \in Clients \X Directions /\ u \in Clients \X Directions
            /\ Scheduled(t[1]) /\ Scheduled(u[1]) /\ ChannelOf[t[1]] = ChannelOf[u[1]]
            /\ Busy(t[1], t[2]) /\ Busy(u[1], u[2])
        BY DEF RunningTests, Busy
      <3>2. t[1] = u[1] /\ t[2] = u[2]
        BY <3>1 DEF SchedulerInv, TestsInv, OneOwner
      <3> QED
        BY <3>1, <3>2
    <2>2. CASE RunningTests(ch) = {}
      BY <2>2, FS_EmptySet
    <2>3. CASE RunningTests(ch) # {}
      <3>1. PICK t \in RunningTests(ch) : TRUE
        BY <2>3
      <3>2. RunningTests(ch) = {t}
        BY <2>1, <3>1
      <3>3. Cardinality({t}) = 1
        BY FS_Singleton, Zenon
      <3> QED
        BY <3>2, <3>3
    <2> QED
      BY <2>2, <2>3
  <1> QED
    BY <1>1, SchedulerCorrect, PTL

=============================================================================
