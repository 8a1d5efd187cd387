----------------------------- MODULE QosTesting -----------------------------
(***************************************************************************)
(* QoS tests of the backup link: the clients' requests                     *)
(* (contrib/gma/model/gma-virtual-interface.cc, Transmit and Receive), the *)
(* server's scheduler that runs one test per Wi-Fi channel at a time       *)
(* (gma-protocol.cc, VirtualRecv and QosTestingTimerExpire), the start     *)
(* notification and the test itself in either direction.                   *)
(*                                                                         *)
(* During a downlink test the server duplicates packets over the tested    *)
(* link and the client measures; uplink the other way round.  Messages may *)
(* be lost; those that are not arrive within MaxLatency ticks.  The        *)
(* retransmission timer, whose length depends on the measured round trip   *)
(* time, may fire at any time.  Tests and measurements that reach the end  *)
(* of their time in a tick are over before anything else happens in it.    *)
(***************************************************************************)
EXTENDS Integers, Sequences, FiniteSets

CONSTANTS
    Clients,
    Steered,       \* the clients that NetworkGym may send actions to
    Channels,
    ChannelOf,     \* the access point (its channel) of each client's tested link
    Duration,      \* ticks of a test (QosTestDurationUnit100ms)
    GuardTime,     \* m_QosTestingGuardTime, 100 ms
    MaxLatency,    \* ticks a message takes at most
    MaxRequests,   \* bound: requests, all clients together
    MaxActions     \* bound: actions from NetworkGym

\* UINT8_MAX: the request of a client that follows NetworkGym's actions.
AnyChannel == 255

ASSUME QosAssumption ==
    /\ Steered \subseteq Clients
    /\ Channels \subseteq 0 .. 254
    /\ ChannelOf \in [Clients -> Channels]
    /\ Duration \in Nat \ {0} /\ GuardTime \in Nat /\ MaxLatency \in Nat
    /\ MaxRequests \in Nat /\ MaxActions \in Nat

Downlink == 0
Uplink == 1
Directions == {Downlink, Uplink}

VARIABLES
    m_qosClientTestingActive, m_qosTestingAllowed, m_qosSteerActionReceived,  \* per client
    sessionEnds,    \* per client, when its QosTestingSessionEnd events are due
    duplicating,    \* per direction and client, the ticks left of StartQosTesting's test
    measuring,      \* per direction and client, the ticks left of QosMeasurementStart's
    m_channelToQoSRequestInfo,  \* per channel, whether it has an entry, the ticks left of its
                    \* prohibit timer (-1 when it is not running), the waiting requests
    m_txedCtrQueue, \* the requests and notifications that are not acknowledged
    wire,           \* the messages in flight and their age
    requests,       \* the requests so far
    actions         \* the actions so far

\* What the specification remembers: the clients one of whose notifications was
\* lost, and those for which a test was to start while another one was running.
VARIABLES notifyLost, stopped

clientVars == <<m_qosClientTestingActive, m_qosTestingAllowed, m_qosSteerActionReceived, sessionEnds>>
testVars == <<duplicating, measuring>>
vars == <<clientVars, testVars, m_channelToQoSRequestInfo, m_txedCtrQueue, wire, requests,
          actions, notifyLost, stopped>>

\* A channel without an entry in the map.
NoEntry == [present |-> FALSE, timer |-> -1, list |-> <<>>]

\* Every client has received the empty action that allows tests.
Init ==
    /\ m_qosClientTestingActive = [c \in Clients |-> FALSE]
    /\ m_qosTestingAllowed = [c \in Clients |-> TRUE]
    /\ m_qosSteerActionReceived = [c \in Clients |-> FALSE]
    /\ sessionEnds = [c \in Clients |-> {}]
    /\ duplicating = [d \in Directions |-> [c \in Clients |-> 0]]
    /\ measuring = [d \in Directions |-> [c \in Clients |-> 0]]
    /\ m_channelToQoSRequestInfo = [ch \in Channels |-> NoEntry]
    /\ m_txedCtrQueue = {}
    /\ wire = {}
    /\ requests = 0
    /\ actions = 0
    /\ notifyLost = {}
    /\ stopped = {}

-----------------------------------------------------------------------------
\* A message: `id` stands for the csns of a request and of its notification.
Msg(type, c, dir, ch, id) ==
    [type |-> type, client |-> c, dir |-> dir, channel |-> ch, id |-> id, age |-> 0]

Answer(type, m) == [m EXCEPT !.type = type, !.age = 0]

\* The entry of m_txedCtrQueue for a message.
Entry(m) == [type |-> m.type, client |-> m.client, dir |-> m.dir, id |-> m.id]

-----------------------------------------------------------------------------
(***************************************************************************)
(* The clients.                                                            *)
(***************************************************************************)

\* Transmit (uplink) and Receive (downlink): QoSTestingRequestCheck holds, no valid
\* result is left, and no session is active.  A client that follows NetworkGym asks
\* once per action and by-passes the scheduler.
RequestTest(c, dir) ==
    LET ch == IF m_qosSteerActionReceived[c] THEN AnyChannel ELSE ChannelOf[c]
        request == Msg("request", c, dir, ch, requests)
    IN  /\ ~ m_qosClientTestingActive[c]
        /\ m_qosTestingAllowed[c]
        /\ requests < MaxRequests
        /\ requests' = requests + 1
        /\ m_qosClientTestingActive' = [m_qosClientTestingActive EXCEPT ![c] = TRUE]
        /\ m_qosTestingAllowed' = [m_qosTestingAllowed EXCEPT ![c] = @ /\ ~ m_qosSteerActionReceived[c]]
        /\ m_txedCtrQueue' = m_txedCtrQueue \cup {Entry(request)}
        /\ wire' = wire \cup {request}
        /\ UNCHANGED <<m_qosSteerActionReceived, sessionEnds, testVars, m_channelToQoSRequestInfo,
                       actions, notifyLost, stopped>>

\* ReceiveDlSplitWeightAction in QoS mode: an empty action allows the client's own
\* tests; an action for the backup link allows one test, unless the last one is too
\* recent; one for the default link allows none.  The last two quit the measurement.
ReceiveDlSplitWeightAction(c, kind) ==
    /\ actions < MaxActions
    /\ actions' = actions + 1
    /\ m_qosTestingAllowed' \in
          IF kind = "none" THEN {[m_qosTestingAllowed EXCEPT ![c] = TRUE]}
          ELSE IF kind = "backup" THEN {m_qosTestingAllowed, [m_qosTestingAllowed EXCEPT ![c] = TRUE]}
          ELSE {[m_qosTestingAllowed EXCEPT ![c] = FALSE]}
    /\ m_qosSteerActionReceived' = [m_qosSteerActionReceived EXCEPT ![c] = @ \/ kind # "none"]
    /\ measuring' = IF kind = "none" THEN measuring
                    ELSE [measuring EXCEPT ![Downlink][c] = 0]
    /\ UNCHANGED <<m_qosClientTestingActive, sessionEnds, duplicating, m_channelToQoSRequestInfo,
                   m_txedCtrQueue, wire, requests, notifyLost, stopped>>

\* StartQosTesting: a test that is running is fatal.
StartQosTesting(c, dir) ==
    IF duplicating[dir][c] > 0
    THEN stopped' = stopped \cup {c} /\ UNCHANGED duplicating
    ELSE duplicating' = [duplicating EXCEPT ![dir][c] = Duration] /\ UNCHANGED stopped

\* RecvCtrlMsg for a start notification.  Uplink the client starts the test, downlink
\* the measurement; it does not acknowledge when it is still measuring.
RecvNotify(m) ==
    LET c == m.client
    IN  /\ m.type = "notify"
        /\ m_qosClientTestingActive' = [m_qosClientTestingActive EXCEPT ![c] = TRUE]
        /\ sessionEnds' = [sessionEnds EXCEPT ![c] = @ \cup {Duration}]
        /\ \/ /\ m.dir = Uplink
              /\ StartQosTesting(c, Uplink)
              /\ wire' = (wire \ {m}) \cup {Answer("ackNotify", m)}
              /\ UNCHANGED measuring
           \/ /\ m.dir = Downlink /\ measuring[Downlink][c] = 0
              /\ measuring' = [measuring EXCEPT ![Downlink][c] = Duration]
              /\ wire' = (wire \ {m}) \cup {Answer("ackNotify", m)}
              /\ UNCHANGED <<duplicating, stopped>>
           \/ /\ m.dir = Downlink /\ measuring[Downlink][c] > 0
              /\ wire' = wire \ {m}
              /\ UNCHANGED <<testVars, stopped>>
        /\ UNCHANGED <<m_qosTestingAllowed, m_qosSteerActionReceived, m_channelToQoSRequestInfo,
                       m_txedCtrQueue, requests, actions, notifyLost>>

\* RecvCtrlMsg for the acknowledgement of a request, which only settles it.
RecvAckRequest(m) ==
    /\ m.type = "ackRequest"
    /\ wire' = wire \ {m}
    /\ m_txedCtrQueue' = m_txedCtrQueue \ {Entry([m EXCEPT !.type = "request"])}
    /\ UNCHANGED <<clientVars, testVars, m_channelToQoSRequestInfo, requests, actions,
                   notifyLost, stopped>>

\* Mutant of RetxCtrlMsgExpires: a request that fails does not end the session.
ExpiresWithoutEnd(e) ==
    /\ m_txedCtrQueue' = m_txedCtrQueue \ {e}
    /\ UNCHANGED <<clientVars, testVars, m_channelToQoSRequestInfo, wire, requests, actions,
                   notifyLost, stopped>>

\* RetxCtrlMsgExpires: "for qos testing msg, no retransmission. Let it fail."
RetxCtrlMsgExpires(e) ==
    /\ m_txedCtrQueue' = m_txedCtrQueue \ {e}
    /\ m_qosClientTestingActive' =
          IF e.type = "request" THEN [m_qosClientTestingActive EXCEPT ![e.client] = FALSE]
          ELSE m_qosClientTestingActive
    /\ UNCHANGED <<m_qosTestingAllowed, m_qosSteerActionReceived, sessionEnds, testVars,
                   m_channelToQoSRequestInfo, wire, requests, actions, notifyLost, stopped>>

-----------------------------------------------------------------------------
(***************************************************************************)
(* The server.                                                             *)
(***************************************************************************)

\* The server's interface of the client receives a request that may start: it
\* acknowledges it, notifies the client, and starts a downlink test.
StartTest(request, messages) ==
    LET notify == Answer("notify", request)
    IN  /\ wire' = messages \cup {Answer("ackRequest", request), notify}
        /\ m_txedCtrQueue' = m_txedCtrQueue \cup {Entry(notify)}
        /\ IF request.dir = Downlink THEN StartQosTesting(request.client, Downlink)
           ELSE UNCHANGED <<duplicating, stopped>>

\* Mutant: the guard time is left out.
ProhibitTimeWithoutGuard == Duration

\* How long a test keeps its channel.
ProhibitTime == Duration + GuardTime

Running(ch) == m_channelToQoSRequestInfo[ch].timer >= 0

\* Mutant of VirtualRecv: a request is served although the channel is busy.
RecvAlwaysServes(m) ==
    /\ m.type = "request"
    /\ StartTest(m, wire \ {m})
    /\ m_channelToQoSRequestInfo' =
          IF m.channel = AnyChannel THEN m_channelToQoSRequestInfo
          ELSE [m_channelToQoSRequestInfo EXCEPT ![m.channel] = [present |-> TRUE, timer |-> ProhibitTime, list |-> <<>>]]
    /\ UNCHANGED <<clientVars, measuring, requests, actions, notifyLost>>

\* VirtualRecv for a request: it waits while the timer of its channel is running.  An
\* entry without a running timer is fatal.
VirtualRecv(m) ==
    /\ m.type = "request"
    /\ \/ /\ m.channel = AnyChannel
          /\ StartTest(m, wire \ {m})
          /\ UNCHANGED m_channelToQoSRequestInfo
       \/ /\ m.channel # AnyChannel
          /\ ~ m_channelToQoSRequestInfo[m.channel].present
          /\ m_channelToQoSRequestInfo' =
                [m_channelToQoSRequestInfo EXCEPT
                    ![m.channel] = [present |-> TRUE, timer |-> ProhibitTime, list |-> <<>>]]
          /\ StartTest(m, wire \ {m})
       \/ /\ m.channel # AnyChannel
          /\ m_channelToQoSRequestInfo[m.channel].present
          /\ IF Running(m.channel)
             THEN /\ m_channelToQoSRequestInfo' =
                        [m_channelToQoSRequestInfo EXCEPT ![m.channel].list = Append(@, m)]
                  /\ wire' = (wire \ {m}) \cup {Answer("ackRequest", m)}
                  /\ UNCHANGED stopped
             ELSE /\ stopped' = stopped \cup {m.client}
                  /\ UNCHANGED <<m_channelToQoSRequestInfo, wire>>
          /\ UNCHANGED <<m_txedCtrQueue, duplicating>>
    /\ UNCHANGED <<clientVars, measuring, requests, actions, notifyLost>>

\* Mutant of QosTestingTimerExpire: the timer is not started again.
ExpireWithoutRestart(ch) ==
    LET info == m_channelToQoSRequestInfo[ch]
    IN  /\ info.timer = 0
        /\ \/ /\ info.list = <<>>
              /\ m_channelToQoSRequestInfo' = [m_channelToQoSRequestInfo EXCEPT ![ch] = NoEntry]
              /\ UNCHANGED <<wire, m_txedCtrQueue, duplicating, stopped>>
           \/ /\ info.list # <<>>
              /\ StartTest(Head(info.list), wire)
              /\ m_channelToQoSRequestInfo' =
                    [m_channelToQoSRequestInfo EXCEPT
                        ![ch] = [present |-> TRUE, timer |-> -1, list |-> Tail(info.list)]]
        /\ UNCHANGED <<clientVars, measuring, requests, actions, notifyLost>>

\* QosTestingTimerExpire: the next request that waits is received as if it had just
\* arrived; without one the entry is erased.
QosTestingTimerExpire(ch) ==
    LET info == m_channelToQoSRequestInfo[ch]
    IN  /\ info.timer = 0
        /\ \/ /\ info.list = <<>>
              /\ m_channelToQoSRequestInfo' = [m_channelToQoSRequestInfo EXCEPT ![ch] = NoEntry]
              /\ UNCHANGED <<wire, m_txedCtrQueue, duplicating, stopped>>
           \/ /\ info.list # <<>>
              /\ StartTest(Head(info.list), wire)
              /\ m_channelToQoSRequestInfo' =
                    [m_channelToQoSRequestInfo EXCEPT
                        ![ch] = [present |-> TRUE, timer |-> ProhibitTime, list |-> Tail(info.list)]]
        /\ UNCHANGED <<clientVars, measuring, requests, actions, notifyLost>>

\* RecvCtrlMsg for the acknowledgement of a notification: uplink the server starts
\* to measure ("error when running measurement" if it is measuring already).
RecvAckNotify(m) ==
    LET notify == Entry([m EXCEPT !.type = "notify"])
    IN  /\ m.type = "ackNotify"
        /\ wire' = wire \ {m}
        /\ m_txedCtrQueue' = m_txedCtrQueue \ {notify}
        /\ IF notify \notin m_txedCtrQueue \/ m.dir = Downlink
           THEN UNCHANGED <<measuring, stopped>>
           ELSE IF measuring[Uplink][m.client] > 0
           THEN stopped' = stopped \cup {m.client} /\ UNCHANGED measuring
           ELSE measuring' = [measuring EXCEPT ![Uplink][m.client] = Duration] /\ UNCHANGED stopped
        /\ UNCHANGED <<clientVars, duplicating, m_channelToQoSRequestInfo, requests, actions, notifyLost>>

-----------------------------------------------------------------------------
(***************************************************************************)
(* Time and the network.                                                   *)
(***************************************************************************)

Lose(m) ==
    /\ wire' = wire \ {m}
    /\ notifyLost' = IF m.type = "notify" THEN notifyLost \cup {m.client} ELSE notifyLost
    /\ UNCHANGED <<clientVars, testVars, m_channelToQoSRequestInfo, m_txedCtrQueue, requests,
                   actions, stopped>>

\* Mutant: a timer that is not running counts on.
LessThanZero(n) == n - 1

Less(n) == IF n > 0 THEN n - 1 ELSE n

\* A tick: no timer of a channel is due and no message is overdue.
\* QosTestingSessionEnd, StopQosTesting and QosMeasurementStop happen when due.
Tick ==
    /\ \A ch \in Channels : m_channelToQoSRequestInfo[ch].timer # 0
    /\ \A m \in wire : m.age < MaxLatency
    /\ wire' = {[m EXCEPT !.age = @ + 1] : m \in wire}
    /\ m_channelToQoSRequestInfo' =
          [ch \in Channels |-> [m_channelToQoSRequestInfo[ch] EXCEPT !.timer = Less(@)]]
    /\ duplicating' = [d \in Directions |-> [c \in Clients |-> Less(duplicating[d][c])]]
    /\ measuring' = [d \in Directions |-> [c \in Clients |-> Less(measuring[d][c])]]
    /\ sessionEnds' = [c \in Clients |-> {n - 1 : n \in sessionEnds[c] \ {1}}]
    /\ m_qosClientTestingActive' =
          [c \in Clients |-> m_qosClientTestingActive[c] /\ 1 \notin sessionEnds[c]]
    /\ UNCHANGED <<m_qosTestingAllowed, m_qosSteerActionReceived, m_txedCtrQueue, requests,
                   actions, notifyLost, stopped>>

Deliver(m) == VirtualRecv(m) \/ RecvAckRequest(m) \/ RecvNotify(m) \/ RecvAckNotify(m)

\* A fatal error ends the simulation.
Next ==
    /\ stopped = {}
    /\ \/ \E c \in Clients, dir \in Directions : RequestTest(c, dir)
       \/ \E c \in Steered, kind \in {"none", "backup", "default"} :
             ReceiveDlSplitWeightAction(c, kind)
       \/ \E e \in m_txedCtrQueue : RetxCtrlMsgExpires(e)
       \/ \E ch \in Channels : QosTestingTimerExpire(ch)
       \/ \E m \in wire : Deliver(m) \/ Lose(m)
       \/ Tick

Spec == Init /\ [][Next]_vars

\* Time goes on, the timers fire and the messages arrive or are lost.
FairSpec ==
    /\ Spec
    /\ WF_vars(stopped = {} /\ Tick)
    /\ WF_vars(stopped = {} /\ \E ch \in Channels : QosTestingTimerExpire(ch))
    /\ WF_vars(stopped = {} /\ \E m \in wire : Deliver(m) \/ Lose(m))
    /\ WF_vars(stopped = {} /\ \E e \in m_txedCtrQueue : RetxCtrlMsgExpires(e))

-----------------------------------------------------------------------------
\* The messages, and what the map holds for a channel.
Messages ==
    [type : {"request", "ackRequest", "notify", "ackNotify"}, client : Clients, dir : Directions,
     channel : Channels \cup {AnyChannel}, id : Nat, age : 0 .. MaxLatency]
RequestInfo == [present : BOOLEAN, timer : -1 .. ProhibitTime, list : Seq(Messages)]

\* Type invariant of the QoS tests.
TypeOK ==
    /\ m_qosClientTestingActive \in [Clients -> BOOLEAN]
    /\ m_qosTestingAllowed \in [Clients -> BOOLEAN]
    /\ m_qosSteerActionReceived \in [Clients -> BOOLEAN]
    /\ sessionEnds \in [Clients -> SUBSET (1 .. Duration)]
    /\ duplicating \in [Directions -> [Clients -> 0 .. Duration]]
    /\ measuring \in [Directions -> [Clients -> 0 .. Duration]]
    /\ m_channelToQoSRequestInfo \in [Channels -> RequestInfo]
    /\ wire \subseteq Messages
    /\ requests \in Nat
    /\ stopped \subseteq Clients

\* A client whose tests the scheduler orders.
Scheduled(c) == ~ m_qosSteerActionReceived[c]

\* The tests that are running on a channel, at either end.
RunningTests(ch) ==
    {t \in Clients \X Directions :
        /\ ChannelOf[t[1]] = ch /\ Scheduled(t[1])
        /\ duplicating[t[2]][t[1]] > 0 \/ measuring[t[2]][t[1]] > 0}

\* At most one test runs on a channel, of all clients and both directions, and the
\* packets of one do not disturb the measurement of the next: the test of a client
\* that was notified late still ends within the guard time.  This also is "we only
\* support qos testing for one session at a time for client, i.e., one cid and one
\* direction".
OneTestPerChannel == \A ch \in Channels : Cardinality(RunningTests(ch)) <= 1

\* No test is started, and no measurement, while the previous one of the same client
\* is running (StartQosTesting and the ACK of a notification stop the program then),
\* also when the client gave a request up that the server has queued.
NoTestRestarted == \A c \in stopped : ~ Scheduled(c)

\* Every channel is given back: the waiting requests are served one after the other
\* and the entry is erased.
ChannelsAreFreed == \A ch \in Channels : []<>(stopped # {} \/ m_channelToQoSRequestInfo[ch] = NoEntry)

\* A client's session ends, by QosTestingSessionEnd or because its request failed,
\* unless a notification was lost: "will schedule end qos testing after receives
\* Notification or request msg retx timeout".
SessionEndsUnlessNotifyLost ==
    \A c \in Clients :
        []<>(stopped # {} \/ c \in notifyLost \/ ~ m_qosClientTestingActive[c])

=============================================================================
