# Verification of the GMA endpoints and the NetworkGym exchange

NetworkGym simulates networks in which a client reaches a server over several
links at once (Wi-Fi, LTE, 5G).  The repository is a fork of ns-3 (`src/src/`,
`src/contrib/nr`, `src/contrib/ns3-rmcat` are third-party code); its own logic is
the Generic Multi-Access (GMA) protocol in `src/contrib/gma/model/` and the
exchange with a reinforcement-learning agent in `src/contrib/networkgym/model/`.
This project models both in TLA+, checks the models with TLC and proves the
central invariants with TLAPS.

`PROJECT.json` lists every component, run, mutant, hazard and theorem, and maps
every definition that models code to its lines.


## 1. The system

### 1.1 How the parts work together

Two endpoints, client and server, each own one *virtual interface* per session.
For every direction of the data one endpoint transmits and the other receives.

1. The **transmitter** takes a packet, chooses a link (`Transmit`), stamps it
   with a flow sequence number (SN) and a link sequence number (LSN), and sends
   it, possibly after an emulated delay that makes fast links as slow as the
   slowest (`SendByCid`).
2. The **receiver** puts packets back in order (`Receive`, `InOrderDelivery`) and
   measures delay and loss per link (`MeasurementManager`).
3. At the end of a measurement interval the receiver computes a new split
   (`GmaRxControl`) and sends it to the transmitter in a **TSU** control message.
   The transmitter adopts the split (`GmaTxControl::RcvCtrlMsg`), adjusts its
   emulated delays, and answers with a **TSA**, which starts the next
   measurement cycle.
4. **Probes** and their ACKs test the links.  A message that is not acknowledged
   is retransmitted; after `MAX_RETX_ATTEMPT` attempts the link is declared down.
   Low Wi-Fi power and the link bit map of the peer's messages declare a link
   down too.  `LinkState` keeps the three causes apart and elects the default
   link.
5. QoS flows are *steered* over one link; a **QoS test** duplicates them over
   another link for a while to find out whether that link would do.

6. A client picks its Wi-Fi **access point** by power (`PhyAccessControl`) and
   tells the server with its probes.
7. All endpoints report measurements to the **NetworkGym** exchange, which sends
   one report per step to an agent and hands its action back to the server.

Everything runs in the event loop of ns-3: one handler runs to its end before
the next one starts, so a handler is one action of a model.  What interleaves is
the order of the handlers: messages, timers, traces and packets.

### 1.2 Components, state and operations

| Component | State | Operations | Hard behaviour | What makes it correct |
|---|---|---|---|---|
| `LinkState` | three maps of causes, configured cids, default cid, skip map | CtrlMsgDown/Up, LowRssiDown/HighRssiUp, LinkBitMapDown/Up, UpdateLinkQueueingDelay | the causes come and go in any order | the default link is the best one that is up |
| `GmaTxControl` | slots of a burst, duplicates, burst size, index | RcvCtrlMsg, GetNextCidFromTsu, Start/StopQosTesting | six hand-written tables, tests that end between TSUs | each link gets its share, evenly spread; steering moves only when told to |
| virtual interface: control channel | unanswered messages with their csns and timers, largest csns seen | PeriodicProbeMsg, SendTsu, RetxCtrlMsgExpires, RecvCtrlMsg | loss, reordering, retransmission under new csns, wrap of a 16-bit csn | every message settles; the peer follows the last answered TSU |
| virtual interface: delay emulation | emulated delay and skip time per link | TSU branch of RecvCtrlMsg, Transmit, SendByCid | delays add up over TSUs, drains overlap | offsets fit a byte, some link is not skipped, packets keep their order |
| virtual interface: reordering | queue per link, expected SN, last SN and LSN per link, two timers | Receive, InOrderDelivery, three release loops, StopReordering | loss against delay, timers against arrivals, end markers, wrap of SN and LSN | in order, at most once, never held for ever |
| `GmaRxControl` | last split, per-link estimates | LinkDownTsu, delay/loss/QoS/RL algorithms | link failures between decisions | the shares add up to the burst |
| `MeasurementManager` | cycle state, interval bounds, per-link statistics | cycle start by TSA, interval start check, interval end | sequence numbers wrap, TSAs get lost | a cycle always starts again |
| `PhyAccessControl` | current and best AP, probe timer | ScanRssi, ProbeAcked, TestProbeTimeout, SendPacket | a scan changes the best AP while a probe is out | the address in use belongs to the AP that answered |
| `GmaProtocol` | QoS test per channel, timer, pending requests | VirtualRecv, QosTestingTimerExpire | concurrent requests, lost notifications | one test per channel, every request served |
| `GmaDataProcessor` | measured rates of the clients, sums per slice | AppendMeasurement, CalculateQosMarkingAction | clients report in any order | priorities follow the last instant |
| NetworkGym exchange | measurement batch, socket, step counter | AppendMeasurement, ExchangeMeasurementAndAction, GetAction | late, missing or several answers | an action belongs to the measurement it answers; nothing measured is lost |

The components that are not modelled (packet formats, queue disciplines, rate
managers, MAC schedulers, traffic sources, mobility, the TCP patches, scenario
drivers and upstream ns-3) are in `PROJECT.json` with the reason.

### 1.3 Where it is hard to test

The full list, with lines, is `hazards` in `PROJECT.json`.  The worst:

- a retransmission gets a *new* csn, so "larger csn" does not mean "newer
  decision" (`gma-virtual-interface.cc:2487`);
- the measurement cycle waits for a TSA that may never come (`:2469`);
- a link is drained while the next TSU already changes the delays (`:2800`), and
  the drain is counted in whole milliseconds while packets are not
  (`link-state.cc:443`);
- a gap in the SNs is judged from one link's numbers while other links still
  carry the packet (`:1671`);
- one value of a number space is used as a mark (`:1861`, `link-state.cc:267`);
- three independent causes hold a link down (`link-state.cc:312`);
- packets sent under the old delays arrive after the delays changed, and would be
  measured and corrected a second time (`measurement-manager.cc:485`);
- the timeout of a test of an access point does not know which test it belongs to
  (`phy-access-control.cc:198`);
- requests of several clients race for one Wi-Fi channel, and a client may have
  given its request up by the time it is served (`gma-protocol.cc:302`);
- measurements of one instant are merged in the order in which they happen to
  come (`data-processor.cc:195`).


## 2. Modules

| Module | Models | Proofs |
|---|---|---|
| `LinkState` | `link-state.cc` (causes, election), `AddPhyLink` | `LinkStateProofs` |
| `GmaTxControl` | `gma-tx-control.cc` | `GmaTxControlProofs` |
| `EmulatedDelay` | the delays a TSU leads to, `RecvCtrlMsg`; extended by the next and by `MeasurementCycle` | `DelayEmulationProofs` |
| `DelayEmulation` | TSU branch of `RecvCtrlMsg`, `Transmit`, skip map of `link-state.cc` | `DelayEmulationProofs` |
| `CtrlChannel` | `SendCtrlMsg`, `RetxCtrlMsgExpires`, `RecvCtrlMsg`, `PeriodicProbeMsg`, `SendTsu`, `LinkDownTsu`; composes `LinkState` by INSTANCE | `CtrlChannelProofs` |
| `GmaReorder` | `Receive`, `InOrderDelivery`, `ReleaseMinSnPacket`, `ReleaseInOrderPackets`, `ReleaseAllPackets`, `StopReordering`, SNs of `Transmit` | `GmaReorderProofs` |
| `PhyAccess` | `phy-access-control.cc`, test probes and their answers, `AddPhyLink` and the probe branch of `gma-protocol.cc` at the server | `PhyAccessProofs` |
| `QosTesting` | the scheduler of `gma-protocol.cc`, types 8 and 9 of the control messages, Start/StopQosTesting, start and end of `qos-measurement-manager.cc` | `QosTestingProofs` |
| `NetworkGym` | `data-processor.cc`, `southbound-interface.cc`, `gma-data-processor.cc`, what `CollectMeasureResults` and the base station report | `NetworkGymProofs` |
| `MeasurementCycle` | cycles and intervals of `measurement-manager.cc`, closed with `EmulatedDelay` into one loop | `DelayEmulationProofs` |

Each `MC...` module gives the constants of one module their values.  Definitions
called "Mutant of ..." are plausible wrong versions of a definition; nothing in a
specification uses them.  They show that a property notices the error.

### 2.1 LinkState

The three maps of the code, from a cid to the time of the event, are the sets of
their keys: only membership is ever used.  `m_cidList` is a vector whose order
does not matter here.  A trigger is one action that changes its map and then
elects the default link (`SetLinkDown`, `SetLinkUp`), as in the code.
`SearchOkCid` keeps the start value `UINT8_MAX` of both search loops.  The attribute
`PreferLargeCidValue` is a variable that never changes, so that one run covers its
default, TRUE, and FALSE.  A peer's bit map speaks of the Wi-Fi link, which the node
may not have configured; the other causes name configured links.

### 2.2 GmaTxControl

A TSU has a burst `L` and shares `K`.  `steering` says how the peer's controller
is configured: `L = 1` steers, any other `L` splits, and the code stops the
program if a steering TSU follows a splitting one.  The six tables are copied entry
for entry.  Burst 64 is one of the sizes a receiver may choose
(`gma-rx-control.cc:34`); only the debug assertion at `gma-tx-control.cc:175` leaves it
out, and the models are of builds without assertions.  The two loops of the code that fill a vector are recursive functions
over their rounds (`LaidOut`, `Filtered`).  `stopEvents` are the pending `StopQosTesting` events.  `share` and
`picks` are history: what the TSU asked for and what was picked since.

### 2.3 EmulatedDelay and DelayEmulation

`EmulatedDelay` computes the new delays and their offsets from a TSU; `DelayEmulation`
is what the transmitter does with them.
The skip map keeps `Now().GetMilliSeconds()`, which drops the fraction, plus the drain
(`link-state.cc:443`), and compares it with whole milliseconds again (`:493`), while
`SendByCid` delays a packet from the precise present (`gma-virtual-interface.cc:3359`).
So the clock has `TicksPerMs` ticks per millisecond: `tick` is the present one,
`m_skipCidMap` says in which millisecond from now the skipping ends, and `leaving` at
which instant (millisecond and tick) the last packet given to a link leaves the emulated
delay.  `Transmit` has the three cases of the code: no TSU or no link up, all links that
are up are skipped (`StopLinkSkipping`), and the search over the links of the TSU with
its fallback `GetDeliveryLinkCid`.  Which link of the search comes first depends on the
position in the burst, which `GmaTxControl` models, so any of them may be chosen.
`LinkChanges` moves the default link as `LinkState` does: with large cids preferred, the
default, a default link that fails is kept.
`synced` and `tsuTick` are history: no link has changed and every TSU came when the
previous drain was over and left one link undrained; and the tick at which the last TSU
came.

### 2.4 CtrlChannel

One endpoint receives data and sends TSUs; its peer transmits data and answers.
An entry of `m_txedCtrQueue` holds all csns of one message; the code keeps the
same relation in two maps.  A message is in `wire` or `acks` until it is
received: it may be delivered at any time, in any order, or never.  The network
may also drop any copy when it is sent.  The handlers call the actions of
`LinkState` through `LS == INSTANCE LinkState`, and `NotifyLinkDown` is the tail
that several handlers share: ask `LinkDownTsu`, then `SendTsu`.  The values of a
split do not matter here: a split is the set of links with a share.
`lastTsu` (the last TSU sent, whether it was answered and whether the retransmission
of an older TSU has overtaken it) and `tsuGivenUp` are history.  A *scenario* bounds
the probes, decisions, changes of the Wi-Fi power and messages in flight, sets
`PreferLargeCidValue`, and is chosen in `Init`.

### 2.5 GmaReorder

A packet has an `id` (its place in the flow), an SN and an LSN.  A link is a FIFO
that may lose packets; `DelayEmulation` is about how far the delay emulation keeps
that true.  `LinkSeq` is the order in which the maps of the code hold the links.
The release loops work on a record of the receiver's state and are bounded by the
number of queued packets, so they are recursive functions over their rounds.
`r.expired` is how
often a release loop finds a head that has waited too long: the time of a packet
in its queue and `m_reorderingTimeout`, which other code changes, are otherwise
free.  A *scenario* fixes the mode of the peer and what may go wrong, and is
chosen in `Init`, so that one run covers all modes.


### 2.6 PhyAccess

The client scans the measured powers before each probe.  With one radio it
changes the access point at once and is deaf for a while; with two it tests the
better access point with a probe, whose answer makes the change and whose timeout
forgets it.  `timeouts` counts the scheduled `TestProbeTimeout` events: the code
cancels none of them, so a late one may end a later test.  `net` holds the
packets in flight, received in any order or lost; `delayed` those that the
emulated delay of the server holds back.  `server` is the server's copy of the
address, set by every probe it receives (`AddPhyLink`).  Csns are drawn from those
not in flight, which stands for a counter that does not wrap within the life of a
packet.  What else `AddPhyLink` does for a single radio (a link down event and its
TSU) is the subject of `LinkState` and `CtrlChannel`.

### 2.7 QosTesting

`RequestTest` is the beginning of a session at a client, `ReceiveDlSplitWeightAction`
the same by an action of the agent, which does not ask the scheduler.
`m_channelToQoSRequestInfo` is the map of the scheduler: for each channel whether
it has an entry, the time left on its timer, and the queue of requests.  Time is
discrete: `Tick` lowers all timers, and a message is delivered or lost before it
is older than `MaxLatency`.  QoS messages are not retransmitted: an entry of
`m_txedCtrQueue` may expire at any time, and a request that expires ends its
session.  `duplicating` and `measuring` hold the time
left of a test at the transmitter and at the receiver.  `notifyLost` and `stopped`
are history: clients whose notification was lost, and clients whose
`StartQosTesting` found the test already running, which stops the program.
`MIN_QOS_TESTING_INTERVAL` is left out, so that requests may come more often than
in the code.

### 2.8 NetworkGym

`now` is an instant of measurement, `toReport` the sources that have not reported
yet, so they report in any order.  A row of a measurement has a name, ids and
values; `AddRow` is the merge of the code with its sorted insertion, `NetworkStats`
the merge of the whole batch; the loops over rows, measurements and entries are
recursive functions.  `phase` says whether the exchange measures, waits
for an action or was stopped by a timeout.  The agent is external: it answers a report, may repeat
an answer and may be silent.  Rates are whole numbers: the code adds doubles.
Only the priorities of the downlink are modelled.

### 2.9 MeasurementCycle

`rx` is the `MeasurementManager`: whether a measurement is on, the least delay per
link (`m_lastMinOwd`), the minima collected for the next update, the values of the last
report (`m_previousOwdValue`), the number of intervals.  A TSU is applied with the
operators of `EmulatedDelay`, the same that `DelayEmulation` uses.  Names that both
modules would have begin with `Cycle` here (`CycleInit`, `CycleTypeOK`), so that one
module can prove theorems about both.  A packet is *new* if it was
sent since the sender's last change and *old* otherwise; the delay of a received
packet is that of its link at the time it was sent.  Two facts about time are
kept: packets from before the last change but one are gone, and an old packet
cannot arrive after a later one with at least its delay.  `Bounds` gives each
behaviour one kind of trouble (a repeated TSU, a TSU of a failed link, a link
without a sample).  `tidy` and `overtaken` are history.


## 3. Runs

Passing runs:

| Run | Properties | Bounds and why they are enough |
|---|---|---|
| `link_state` | `TypeOK`, `NoUpLinkOutranksDefault`, `DefaultMovesToUpLink` | three links and both preferences, the whole state space: with three, an election has a choice and a link has all three causes; the theorems lift it to any number |
| `tx_control` | `TypeOK`, `EveryWindowHonoursShares`, `BurstIsSpreadEvenly`, `SteeringIsSticky` | three links, all six tables (bursts of 4 to 128), every index of a burst; shares from a set with 0, odd values and whole bursts; two tests scheduled at a time |
| `delay_emulation` | `TypeOK`, `TsaOffsetInRange`, `SomeLinkNotSkipped`, `SyncedKeepsOrder` | two links, two ticks per millisecond, so that a TSU or a packet comes between two milliseconds; at most 2 ms change per TSU, reports up to 3 ms so that the limit is exceeded, delays up to 3 ms so that several TSUs add up; large cids preferred, as is the default; the theorems lift it to all values |
| `ctrl_channel` | `TypeOK`, `StoppedMeasurementAwaitsTsa`, `AnsweredTsuIsAdopted`, `EveryMessageSettles` | two links, one retransmission, started at csn 65534 so that it wraps; four scenarios: a round of probes and a decision with one message in flight, whose give-ups send further TSUs; two decisions with two messages in flight, which pass one another; a decision and a change of the Wi-Fi power with two messages in flight, with large and with small cids preferred |
| `reorder` | `TypeOK`, `ForwardedInOrder`, `OnlyLostPacketsAreSkipped`, `QueuedPacketsHaveTimer`, `NoPacketTwice`, `QueuesDrain` | six scenarios with 3 to 5 packets over two or three links, SNs of 6 bits and LSNs of 3; one crosses the wrap of the LSN, one ends at the largest SN |
| `phy_access` | `TypeOK`, `PendingTestTimesOut`, `SingleRadioStaysOnGoodAp`, `ClientSettles`, `ServerFollowsClient` | three access points, so that the best one changes while another is tested; all maps of three powers (below `RoamingLowRssi`, within the threshold of that, larger) and one later report; two packets in flight; one or two radios, with and without emulated delay |
| `qos_testing` | `TypeOK`, `OneTestPerChannel`, `NoTestRestarted`, `ChannelsAreFreed`, `SessionEndsUnlessNotifyLost` | two clients of one access point, so that they compete, one of them steered by the agent; two requests and one action; a latency below the guard time |
| `network_gym` | `TypeOK`, `LockStep`, `ReportIsAggregate`, `PriorityForLongestPrefix`, `SessionEnds` | three clients, two in one slice, so that sums and the prefix of a sorted list have a choice; rates 0, 1, 3; three steps (first, middle, last), one instant before the start, one repeated answer |
| `measurement_cycle` | `CycleTypeOK`, `NoStaleSample`, `EqualisedUnlessOvertaken` | two links, equal and unequal delays, three intervals per cycle, one kind of trouble per behaviour; a change of up to 3 ms exceeds the difference of 2, so that a report applied twice shows |

Each of these properties has a mutant that violates it.  What the less obvious
ones say:

- `StoppedMeasurementAwaitsTsa`: whenever the measurement is stopped, some TSU is
  still unanswered, so a TSA can start it again, unless a TSU was given up.
- `SyncedKeepsOrder`: a packet sent now leaves no earlier than the older packets of its
  link, but for the fraction of a millisecond at which the last TSU came.
- `AnsweredTsuIsAdopted`: once the last TSU is answered the peer follows it, with any
  number of unanswered TSUs, unless an older TSU was retransmitted after it.
- `PendingTestTimesOut`: a test of an access point always has a timeout ahead.
- `ClientSettles`, `ServerFollowsClient`: once the powers rest, the client ends on
  an access point that no other one beats, although late timeouts end later
  tests, and the server ends with the client's address, although old probes may
  move it back for a while.
- `ChannelsAreFreed`: a channel is free again and again, however requests queue.
- `NoTestRestarted`: no client that goes through the scheduler starts a test that
  is already running.
- `LockStep`: an action is only applied to the report it answers, and there is one
  exchange per step.
- `NoStaleSample`: no packet sent before a change of the delays counts in the
  measurement that the change's TSA started.
- `EqualisedUnlessOvertaken`: in the end all links have the same total delay.

Runs that refute what a comment of the code says:

| Run | Property | What it shows |
|---|---|---|
| `link_state_failover` | `FailoverToBestUpLink` | with large cids preferred, the default (`link-state.cc:40`), the default link fails while another link is up: the search for the largest cid starts at 255 (`:267`), finds nothing, and the failed link stays the default although the comment at line 261 says that another one is needed |
| `network_gym_dropped` | `AppendedMeasurementsAreSent` | the rows of the later measurements are merged inside a loop over the rows of the first one; if the first has no subscribed row, everything measured at that instant is dropped |
| `measurement_cycle_overtaken` | `EventuallyEqualised` | a report is overtaken by a TSU of a failed link, which has a larger csn; the transmitter ignores the report but answers it with zero offsets; the receiver stored the reported delays in `m_previousOwdValue` when it sent them (`measurement-manager.cc:842`), finds no change later and never reports again, so the links keep different delays although the comment at line 213 says they are equalized |

Deadlock is not checked in the runs of `CtrlChannel`, `GmaReorder`, `QosTesting`,
`NetworkGym` and `MeasurementCycle`: when the bounds are used up and all messages
are settled, or the session is over, nothing is left to do.

### 3.1 Fairness

- `CtrlChannel`: weak fairness of `RetxCtrlMsgExpires`.  Every unanswered message
  has a scheduled ns-3 event, and the event loop runs every event that is not
  cancelled.  Nothing is assumed of the network: all messages may be lost.
- `GmaReorder`: weak fairness of `TimerExpires`.  The timer is an ns-3 event; that
  it finds an expired head in the end assumes that `m_reorderingTimeout` is not
  raised for ever, and its value is limited by the code.
- `PhyAccess`: probes are periodic, so `SendProbe` is strongly fair (it waits for
  room in `net`, a bound of the model).  Packets are delivered or lost.  Of
  infinitely many probes some arrive, and of infinitely many tests some are
  answered in time: a link that loses everything cannot be followed.  Timers and
  down times are ns-3 events.
- `QosTesting`: time passes, timers and retransmissions run, a message is
  delivered or lost.  Any message may be lost.
- `NetworkGym`: scheduled simulator events run, and `zmq_poll` returns because it
  has a timeout.  Nothing is assumed of the agent.
- `MeasurementCycle`: data and control packets keep coming on every link, timers
  fire, TSUs and TSAs that are not lost arrive, and a TSU whose copies are all
  lost is sent again before it is given up.  What happens when it is given up is
  the subject of `CtrlChannel`.

### 3.2 What the properties do not promise

- In steer mode `ForwardedInOrder` is claimed only when nothing is lost and the
  peer waits for the packets of a move before it moves again: `StopReordering`
  releases everything on an end marker, by design.
- `AnsweredTsuIsAdopted` has one exception, which the code does not exclude: an older
  TSU is retransmitted after the last one was sent.  The retransmission has the larger
  csn (`gma-virtual-interface.cc:2487`), so the peer takes it for the newer of the two
  and follows the older split although the last TSU is answered.  Without the
  exception TLC finds such a behaviour: a decision for link 0, the Wi-Fi power falls
  and `LinkDownTsu` sends a TSU for link 2, the first TSU is retransmitted, and the
  peer receives the second TSU and then the retransmission.
- `StoppedMeasurementAwaitsTsa` excludes TSUs that were given up: after that the
  measurement stays stopped until another TSU is sent (`:2469`).
- `SyncedKeepsOrder` is not exact order.  A packet is sent at 0.9 ms with a delay of 5 ms
  and a TSU at the same instant lowers the delay to 4 ms: the link is skipped for 1 ms,
  but counted from 0 ms, so a packet sent at 1.0 ms leaves at 5.0 ms, before the first
  one at 5.9 ms.  The property bounds the difference by the fraction of the
  millisecond at which the TSU came; a TSU that comes on a whole millisecond keeps the
  exact order.
- It is claimed while TSUs come after the previous drain.  A TSU during a drain erases
  the skip entry (`link-state.cc:461`), and a TSU that lowers the delay of all links with
  data drains nothing (`gma-virtual-interface.cc:2800`); both let a packet leave before
  an older one.
- `SteeringIsSticky` speaks of TSUs.  Between two TSUs the end of a QoS test
  (`StopQosTesting`, `gma-tx-control.cc:341`) may take a link off the duplicate list that
  the TSU had put there.
- `reorder` stops before the SN wraps: `MAX_GMA_SN` is the mark for "none found
  yet", so a queued packet with that SN is passed over and forwarded late (`:1861`).
- With duplication a packet may be forwarded twice: a copy that was queued before
  its original was delivered goes through `MeasureAndForward` although the comment
  says "discard duplicated packets." (`:1787`).
- `OneTestPerChannel` assumes that messages are faster than the guard time.
- `NoTestRestarted` and `OneTestPerChannel` speak of clients that go through the
  scheduler.  A client steered by the agent may, after a lost answer and a new
  action, start a test that is running, which stops the program
  (`gma-tx-control.cc:335`).
- `SessionEndsUnlessNotifyLost`: if the notification is lost, nothing schedules the
  end of the session, and the client counts itself in a test for ever
  (`gma-virtual-interface.cc:985`, `:1445`).
- `EqualisedUnlessOvertaken` is for differences within `MaxDelayChangePerTSU`.

### 3.3 Other observations

- A TSU keeps cid 0 in its stored header, so giving it up takes link 0 down
  whatever links it was sent over (`gma-virtual-interface.cc:2454`).
- `m_maxLinkMapUpdateSn` is assigned from older messages too, after which an older
  link bit replaces the newest (`:2590`).
- When every link of the TSU is skipped, `Transmit` falls back to
  `GetDeliveryLinkCid`, which does not look at the skip map, even when a link
  outside the TSU is up and not skipped (`:1140`).
- A fresh link starts with `m_gmaRxLastSn = MAX_GMA_SN`, which is also a real SN.
- The answer of a test probe is to go to the tested address (`:2625`), but
  `SendByCid` may only schedule it; then it is sent to the restored address.  The
  client still settles.
- The measurement cycle repairs itself from several troubles at the next update
  after 12 s: a report adopted twice (once per csn), an answer with zero offsets,
  a link without a sample.  The comment at `measurement-manager.cc:869` is not
  literally true for the second.
- The assertion at `measurement-manager.cc:472` is inverted; the models are of
  builds without assertions.  Line 482 compares SNs with `<` although they wrap.
  Negative offsets are not applied at the receiver (line 521).
- Every probe resets the marking of a link to 1 at the server
  (`gma-virtual-interface.cc:436`), between the actions that set it.
- The downlink marking that a client reports is its own and always 1 (`:869`), as
  only the server registers for actions (`:56`), so every user counts as
  prioritised and the branch that increases their number
  (`gma-data-processor.cc:215`) has no effect.
- After the session ends, `m_dlQosMeasure` keeps growing.


## 4. Proofs

TLAPS proves the following for every value of the constants that satisfies the
assumptions of the module.

**LinkStateProofs** (assumptions `CidAssumption`, `AttributeAssumption`: cids are
less than 255, the configured default link is one of them).

- `TypeCorrect`: `Spec => []TypeOK`.  Inductive as it stands, once
  `SearchOkCid` is known to return a link or 255.
- `DefaultHasPriority`: `Spec => []NoUpLinkOutranksDefault`, for any number of
  links and either preference.  Together with `TypeOK` it is inductive: a step
  that brings a link up goes through `SetLinkUp`, a step that moves the default
  link elects the best of `UpLinks`, and every other step only shrinks `UpLinks`.
- `ElectionIsSound`: `Spec => DefaultMovesToUpLink`.
- `DefaultNeverMovesDown`: `Spec => [][(m_preferLargeCidValue /\ ~ m_fixDefaultLink') =>
  m_defaultLinkCid' >= m_defaultLinkCid]_vars`.  With the default of the attribute the
  default link only moves to larger cids, by `SetLinkUp`: a failure never finds a
  replacement (`LargeStep`), which is why the run `link_state_failover` refutes the
  failover for any node with two links.

**DelayEmulationProofs** (assumptions `LinksAssumption`, `ChangeAssumption`,
`DelayAssumption`: a finite set of links that is not empty, a positive limit on the change
per TSU, natural delays, either preference of cids, any number of ticks per millisecond).

- `TypeCorrect`: delays never become negative, because the subtracted minimum is
  one of the raised delays (`LeastElement`).
- `SlowestUndelayed`, `OffsetsFitTsa`, `NotAllSkipped`.  The range of the offsets
  is not inductive alone: that an offset is at least `-MaxDelayChangePerTSU` needs
  a link whose delay was 0 before the TSU, which is `SomeLinkUndelayed`.  The
  inductive invariant `Inv` is the conjunction.
- `SyncedTsusKeepOrder`: `Spec => []SyncedKeepsOrder`, the order of packets under
  delay emulation up to the fraction of a millisecond that the skip map drops, for
  any resolution of the clock.  The property speaks of the links that may be used now,
  which says nothing of a link that is skipped; the inductive `DrainInv` speaks of all
  links of the TSU: the last packet of a link leaves not later than in the millisecond
  `m_emulateDelay + m_skipCidMap`, at the tick of the last TSU while the link is
  skipped and at most at the present tick, if that is later, when it is not
  (`LastTick`).  It also says that all links are up and that some link of the TSU is not skipped, so
  that `Transmit` never needs its fallback.

The module also has the theorems on the loop of section 2.9: the lemmas on the extremes
of the delays and on `NewDelay` serve both.  They have the assumption `CycleAssumption`,
which the theorems above do not use: delays are natural numbers, and neither `NoOwd` nor
`Never`, the empty vector, can be taken for a measured value.

- `CycleTypeCorrect`: `CycleSpec => []CycleTypeOK`.  The types are not inductive
  alone.  `TypeInv` adds that an interval or the timer of one runs only
  while the measurement is on, that the index is 0 before the first interval and that a
  current sample is a sample (`RxPhase`); that every csn in use was given out and a TSA
  answers a TSU not newer than the newest adopted (`WireOK`); and `SomeLinkUndelayed`
  of the emulation.  `Forget`, which renumbers the csns to keep the runs finite, keeps
  their order (`RankOrder`).
- `SamplesAreFresh`: `OneTsuIsEnough => (CycleSpec => []NoStaleSample)`.
  `OneTsuIsEnough` says that the propagation delays differ by at most
  `MaxDelayChangePerTSU`, 127 ms in the code; the constants of the run satisfy it.  The
  invariant `TidyInv`, checked by TLC before it was proved, says that while no TSU was
  repeated, sent for a failed link or answered out of turn (`tidy`), exactly one TSU
  waits for its TSA when the measurement is off and none when it is on (`TidyWire`), and
  that the loop is in one of five phases, which follow each other:
  - `Unreported`: nothing is emulated and nothing was reported;
  - `AwaitsAdoption`: the receiver has reported how much faster each link is than the
    slowest, and the transmitter does not know it yet;
  - `AwaitsTsa`: the transmitter delays the fast links and the receiver does not know it;
  - `AwaitsStart`: the receiver has the offsets and waits for the first packet after them;
  - `Levelled`: every link is as slow as the slowest, and so is every packet still to come.

  An interval runs only in the first and the last: old packets of the first have the
  delay of the links; those of the last are as slow as new ones, or cannot come any more
  after the packet with the largest delay that started the interval.

**PhyAccessProofs** (assumption `PhyAssumption`: access points, powers and bounds of
any size, the first access point one of them).

- `TypeCorrect`: packets in flight stay packets and the number of timeouts never
  becomes negative, because a timeout only fires when one is scheduled.
- `TestsAreSound`: `Spec => []PendingTestTimesOut`, together with `BestIsForTest`
  (another access point is preferred only during a test).  Each is inductive given
  the types: a test starts together with its timeout, and a timeout or an answer
  ends the test.
- `SingleRadioStays`: `Spec => SingleRadioStaysOnGoodAp`.  Two actions change the
  access point, `SendProbe` and `ProbeAcked`.  The second is harmless because a
  single radio never has a test pending, which is the strengthening
  `NoTestOfSingleRadio`.

**GmaTxControlProofs** (assumptions `CidListAssumption`, `ShareAssumption`,
`BurstAssumption`: different cids below 255, shares of a byte, the burst sizes the
code has a table for, 4 to 128).

- `TypeCorrect`: as many slots as the burst has, and every read of `m_cidVector` in
  range.
- `SharesAreHonoured`: `Spec => []EveryWindowHonoursShares`.  The property speaks of
  the last picks only, so it needs to know which slots these were: the inductive
  `Inv` says that the picks are the slots before the next one, counted round the end
  of the burst (`PicksAreLastSlots`), and that the slots are the shares of the TSU,
  laid out and bit-reversed (`BurstIsLaidOut`).  A full window is then a rotation of
  the burst, and the burst a permutation of the layout, because each of the six
  tables is its own inverse (`TablesArePermutations`); neither changes a count.
- `BurstIsSpread`: `Spec => []BurstIsSpreadEvenly`.  The slots of a link are next to
  each other in the layout (`InorderIsContiguous`).  A part of the burst reads every
  q-th of them, q being the number of parts (`TablesAreStrided`, `PartIsStrided`), and
  an interval of K numbers holds K/q numbers of such a progression, rounded
  (`ProgressionCount`).
- `SteeringKeepsPrimary`: `Spec => SteeringIsSticky`.  It needs that a steering
  controller never leaves more than one slot (`SteeringHasNoBurst`).

What a loop computes is proved by the lemma `Rounds`: a set of rounds that has the
first one, and with every round the next, has them all, as its complement would have
a least element (`LeastNumber`).

**CtrlChannelProofs** (assumption `ChannelAssumption`: any finite set of cids below
255 that has link 0, any first csn, any limit of retransmissions and any scenarios,
with either preference of cids; link 0 because `WIFI_CID` is 0,
`link-state.h:14`).

- `TypeCorrect`: types, across the wrap of the csn.
- `RegistryIsRefined`: `Spec => [][LS!Next]_linkVars`.  Whatever a handler does to the
  link registry is one operation of `LinkState`, or nothing.  The theorems of
  `LinkStateProofs` carry over: `ChannelKeepsPriority` is that of the composed system,
  with large or small cids preferred.
- `MeasurementRestarts`: `(Spec /\ []CsnsAreRecent) => []StoppedMeasurementAwaitsTsa`.
  The measurement is started again by a TSA with a csn newer than `m_maxTsaSn`, and
  the answer to a TSU takes it out of the queue, so the property is not inductive:
  what must hold is that while the measurement is stopped some queued TSU has only
  csns newer than that (`WaitingTsuIsNew`), that an ACK never takes a TSU's place
  (`TsuAnswersAreTsas`: whatever is in flight under a csn of a TSU is a copy of it or
  its TSA), and that nothing is queued before the first probes and the largest csns
  seen have been given out (`StartedMeansSent`).
- `AnsweredMeansAdopted`: `(Spec /\ []CsnsAreRecent) => []AnsweredTsuIsAdopted`, with any
  number of unanswered TSUs.  The inductive `AdoptInv` follows the last TSU, until an
  older one is retransmitted, through the queue (`LastTsuInQueue`: what shares a csn
  with it is the last TSU itself), the network (`LastTsuInFlight`: the TSUs in flight are copies of the
  last one or older) and the peer (`LastTsuAtPeer`: it answers the last TSU only after
  adopting it, and no older one overtakes it).
- `CsnsAreRecent` says that every csn in use is younger than half the csn space, which
  is when the comparison of the code (`gma-virtual-interface.cc:3181`) orders them
  (`CsnDiffIsAge`).  It leaves out one thing: more than 32767 control messages, and not
  one TSU among them, after which the next TSU looks old to the peer and its TSA to the
  receiver (`:2647`, `:2964`).  In the instances of the runs it always holds.

**GmaReorderProofs** (assumption `ReorderAssumption`: any list of links with ascending
cids below 255, any number spaces, any set of scenarios).

- `TypeCorrect`: every release loop turns a state of the receiver into one, after any
  number of rounds.
- `QueuedHaveTimer`: `Spec => []QueuedPacketsHaveTimer`.  The inductive `TimerInv` says
  that without the timer, and without reordering, nothing is queued; each loop keeps the
  second half in every round (`OrderlyIsClosed`).
- `ForwardedOnce`: `Spec => []NoPacketTwice`, in every scenario but duplication.  What is
  queued or forwarded is there once and has *arrived* (`OnceInv`), and what has arrived is
  not in flight any more (`WireInv`: a packet is in flight on one link, in the order sent).
- `OnlyLostSkipped`: `Spec => [](Unwrapped => OnlyLostPacketsAreSkipped)`.  A gap in the
  SNs is judged from the LSNs, so the proof has to know which packets the LSNs stand for:
  `NumberedInv` says that there are counts `k[cid][n]`, how many of the packets below `n`
  were sent over a link, that every LSN in flight or queued is such a count modulo
  `MAX_GMA_LSN + 1`, and that the last LSN of a link is that of its last arrival.  Then a
  gap that the code takes for a loss is one: every packet in it was sent and is neither in
  flight nor queued (`GapMeansSent`).  `PatientInv` says that a packet in flight is never
  before the expected SN.
- `ForwardsInOrder`: `Spec => [](Unwrapped => ForwardedInOrder)`, in both modes.  In split
  mode, with any fault, `SplitInv`: what was forwarded is in order and before the expected
  SN, what is queued is sorted and not before it, and before the TSU that starts the split
  all packets are on the default link.  In steer mode without losses and hasty moves,
  `SteerInv`: the receiver has forwarded everything before the expected SN, everything sent
  after it is queued or in flight (`Complete`), and a move is in one of three phases:
  nothing of the new link has come, or the end marker has, or packets of the new link wait
  for the last ones of the old link (`Phase`).

`Unwrapped` says that the numbers of the flow stay below half the number space.  The code
needs it in two places: `SnDiff` orders two SNs only within half the space, and
`MAX_GMA_SN` is at the same time an SN and the mark of an empty search (`:1861`), with
which the property is false (3.2).  Any real `MAX_GMA_SN` leaves room for flows of
millions of packets; four of the six scenarios of the run satisfy it, the other two
lie near the largest SN.

**QosTestingProofs** (assumption `QosAssumption`; the two theorems on tests also have the
hypothesis `GuardCoversLatency`: the guard time covers the latency of a notification
and of its answer).

- `TypeCorrect`: timers never exceed the prohibit time and ages the latency.
- `OneTestAtATime`, `NoRestart`: both from the inductive `SchedulerInv`: a channel with
  an entry has a timer (`EntryMeansTimer`), the timer outlasts every test on the channel
  and every message that may still start one (`TimerOutlastsTest`), only one client
  owns the channel (`OneOwner`), the requests of a client name its channel
  (`RequestsNameChannel`), and a test is announced once, before anything else of it
  (`AnnouncedOnce`).  Without the hypothesis the timer may expire while the last test
  still runs.

**NetworkGymProofs** (assumption `GymAssumption`).

- `InLockStep`: `Spec => []LockStep`, for any clients, slices and number of steps.  The
  inductive `StepInv` relates the counter of the exchange to the reports sent in each
  phase: one behind while it waits (`WaitIsOneBehind`), level while it runs
  (`RunIsLevel`).
- `TypeCorrect`, `ReportsAggregate` and `PrefixHasPriority`, for any clients, slices,
  rates, subscription, number of steps and order of the sources, from `InvariantsHold`:
  `StepInv` with `DataInv`, whose parts say
  - that the rows of a batch have keys of their own, because a source reports once per
    instant, and belong to sources that have reported (`BatchInv`);
  - that the rates saved for the priorities are entries without a rate, from before the
    start, and then exactly one entry of each client that has reported (`MeasureInv`);
  - that the sums of the slices are those of these entries (`MoreInv`);
  - that a report is a batch like that and neither it nor the rates change until it is
    answered (`ReportInv`).

  The loops over rows, measurements and entries are recursive functions of the model;
  `LoopExists` gives such a function its values and `Rounds` is the induction over its
  rounds.  With them: the kept rows are some of the rows (`KeptIsPart`), a sorted
  insertion keeps the order of the ids and adds one cell (`InsertSortedInserts`), every
  row of a good batch ends up in the report once (`NetworkStatsAggregates`), entries
  without a rate do not matter to a sum (`SumSame`).  `ReportIsAggregate` has the
  hypothesis that the first measurement has a subscribed row, without which it is false
  (3.2).

### 4.1 Only model-checked

Every invariant and action property of the passing runs is stated by a theorem above,
some with a hypothesis.  What remains:

- Liveness, which the prover does not handle: `EveryMessageSettles`, `QueuesDrain`,
  `ClientSettles`, `ServerFollowsClient`, `ChannelsAreFreed`,
  `SessionEndsUnlessNotifyLost`, `SessionEnds`, `EqualisedUnlessOvertaken`.
- `GmaReorder` where the numbers wrap: the theorems on order and on skipped packets have
  the hypothesis `Unwrapped`.  A run checks one scenario that goes up to the largest SN.
- `NoStaleSample` without `OneTsuIsEnough`.  It is not true for all constants: with
  three links whose delays differ by more than `MaxDelayChangePerTSU` a TSU does not
  equalise them, and an old packet can come late enough to be counted.


## 5. Not modelled

The repository has close to a million lines, nearly all of them upstream ns-3,
`contrib/nr`, generated tables and a vendored JSON library; the map covers a small
share of them by design.  Of the repository's own logic the following is left out.

- Numeric algorithms over real numbers (delay and loss estimates, RL rewards,
  schedulers, rate managers, mobility).  A decision of `GmaRxControl` is any split.
- The values of measurement reports: no protocol state depends on them.  Which
  reports exist and how they are merged is `NetworkGym`.
- Byte layouts of headers; the widths of their numbers are modelled.
- In `CtrlChannel`: the TSUs of the opposite direction, reverse TSUs and QoS
  violation messages.  Both directions use the same code with separate state,
  except for the shared csn counter.
- In `GmaReorder`: packets of QoS flows, which are never reordered.
- In `QosTesting`: clients that roam between channels, the monitoring after
  `QosMeasurementStop` and the decision from the measured loss,
  `DiscardBackupLinkPackets`, `m_cidToLastTestFailTime`.
- In `NetworkGym`: averages per slice, actions with unknown keys, registration of
  callbacks, uplink priorities.
- In `MeasurementCycle`: rates, averages and losses, which only feed the split, and
  the wrap of the SN.


## 6. Plan

1. Done: all modules of section 2, and the proofs of section 4.
2. An abstract specification of the control channel (a register that the receiver
   writes and the peer reads) that `CtrlChannel` implements as long as no TSU is
   overtaken; `AdoptInv` is most of its refinement proof.
3. `GmaRxControl`: the shares of each algorithm add up to the burst, including
   `LinkDownTsu`; reverse TSUs (`gma-virtual-interface.cc:2277`) and QoS violation
   messages.
