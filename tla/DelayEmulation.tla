--------------------------- MODULE DelayEmulation ---------------------------
(***************************************************************************)
(* The transmitter's delay emulation in split mode: the TSU branch of      *)
(* GmaVirtualInterface::RecvCtrlMsg, the link choice of Transmit, and the  *)
(* skip map of LinkState.                                                  *)
(*                                                                         *)
(* A TSU reports how much earlier than the slowest link each link          *)
(* delivers; the transmitter delays the faster links by that much, and     *)
(* when it lowers the delay of a link it stops sending over it (skips it)  *)
(* for the difference, so that a new packet does not leave before an older *)
(* one.  The TSA that answers carries the change of each link's delay.     *)
(*                                                                         *)
(* The skip map keeps the milliseconds of Now().GetMilliSeconds(), which   *)
(* drops the fraction, while a packet leaves at a precise instant.  So the *)
(* clock has ticks, a fraction of a millisecond each; an instant is a      *)
(* number of milliseconds from the present one and a tick of it.           *)
(***************************************************************************)
EXTENDS EmulatedDelay

CONSTANTS
    OwdValues,             \* the one way delays a TSU may report
    PreferLargeCidValue,   \* attribute of LinkState, TRUE unless it is set
    TicksPerMs,            \* what the clock of the simulator resolves
    MaxEmulatedDelay       \* bound: the largest m_emulateDelay

ASSUME DelayAssumption ==
    /\ OwdValues \subseteq Nat
    /\ NoOwd \notin OwdValues
    /\ PreferLargeCidValue \in BOOLEAN
    /\ TicksPerMs \in Nat \ {0}
    /\ MaxEmulatedDelay \in Nat

VARIABLES
    tick,              \* of the present millisecond
    m_skipCidMap,      \* per link, in which millisecond from now its skipping ends
    kLinks,            \* the links with a share of the last TSU, {} before the first
    up,                \* the links that are up (IsLinkUp)
    m_defaultLinkCid,
    tsa,               \* the offsets and the delay of the last TSA
    leaving            \* per link, when its last packet leaves the emulated delay

\* What the specification remembers: whether no link has changed and every TSU was
\* what the code calls synced, and the tick at which the last TSU came.
VARIABLES synced, tsuTick

vars == <<m_emulateDelay, tick, m_skipCidMap, kLinks, up, m_defaultLinkCid, tsa, leaving,
          synced, tsuTick>>

Largest(S) == CHOOSE n \in S : \A m \in S : n >= m

\* Instants.
At(ms, t) == [ms |-> ms, tick |-> t]
Later(a, b) == a.ms > b.ms \/ (a.ms = b.ms /\ a.tick > b.tick)

\* When a packet that is sent over the link now leaves the emulated delay.
LeavesNow(link) == At(m_emulateDelay[link], tick)

\* The link that the registry prefers among some.
Preferred(S) == IF PreferLargeCidValue THEN Largest(S) ELSE Smallest(S)

Init ==
    /\ m_emulateDelay = NoDelay
    /\ tick = 0
    /\ m_skipCidMap = NoDelay
    /\ kLinks = {}
    /\ up = Links
    /\ m_defaultLinkCid = Preferred(Links)
    /\ tsa = [offset |-> NoDelay, delay |-> 0]
    /\ leaving = [link \in Links |-> At(0, 0)]
    /\ synced = TRUE
    /\ tsuTick = 0

-----------------------------------------------------------------------------
(***************************************************************************)
(* A new TSU.                                                              *)
(***************************************************************************)

\* findLink: a link with data to send keeps or raises its delay.
FindLink(owds, k) == \E link \in k : DelayOffset(owds)[link] >= 0

\* queueingDelayVector: the time each link is to be drained.
DrainTime(owds, k) ==
    [link \in Links |->
        IF link \in k /\ DelayOffset(owds)[link] < 0 THEN - DelayOffset(owds)[link] ELSE 0]

\* Mutant: the entry of a link that is not to be drained stays.
UpdateWithoutErase(drain) ==
    m_skipCidMap' = [link \in Links |-> IF drain[link] > 0 THEN drain[link] ELSE m_skipCidMap[link]]

\* UpdateLinkQueueingDelay overwrites or erases the entry of every link.  An entry is
\* the present millisecond, without its fraction, plus the drain.
UpdateLinkQueueingDelay(drain) == m_skipCidMap' = drain

\* A synced TSU comes when the previous drain is over and leaves one link with data
\* undrained ("we receive a not synced tsu, may due to link down or link up").
SyncedTsu(owds, k) ==
    /\ \A link \in Links : ~ Later(leaving[link], LeavesNow(link))
    /\ FindLink(owds, k)

\* A TSU with a sequence number larger than all before.
RcvTsu(owds, k) ==
    /\ synced' = (synced /\ SyncedTsu(owds, k))
    /\ tsuTick' = tick
    /\ \A link \in Links : NewDelay(owds)[link] <= MaxEmulatedDelay
    /\ m_emulateDelay' = NewDelay(owds)
    /\ kLinks' = k
    /\ IF FindLink(owds, k)
       THEN /\ UpdateLinkQueueingDelay(DrainTime(owds, k))
            /\ tsa' = [offset |-> DelayOffset(owds),
                       delay |-> Largest({DrainTime(owds, k)[link] : link \in Links})]
       ELSE /\ UNCHANGED m_skipCidMap
            /\ tsa' = [offset |-> DelayOffset(owds), delay |-> 0]
    /\ UNCHANGED <<tick, up, m_defaultLinkCid, leaving>>

\* A TSU that is not newer is answered with zero offsets and changes nothing.
RcvStaleTsu ==
    /\ tsa' = [offset |-> NoDelay, delay |-> 0]
    /\ UNCHANGED <<m_emulateDelay, tick, m_skipCidMap, kLinks, up, m_defaultLinkCid, leaving,
                   synced, tsuTick>>

-----------------------------------------------------------------------------
(***************************************************************************)
(* Transmission of a packet.                                               *)
(***************************************************************************)
\* Mutant: the skipping ends a millisecond early.
EarlyLowQueueingDelay(link) == m_skipCidMap[link] <= 1

\* "map already expired": as soon as the millisecond of the entry begins.
IsLinkLowQueueingDelay(link) == m_skipCidMap[link] = 0

\* Case 2 of Transmit: links are up, all of them skipped.
AllUpLinksSkipped == up # {} /\ \A link \in up : ~ IsLinkLowQueueingDelay(link)

\* The links of the TSU that the search over one burst can stop at.
TsuCids ==
    {link \in kLinks \cap up : AllUpLinksSkipped \/ IsLinkLowQueueingDelay(link)}

\* GetDeliveryLinkCid: a link of the TSU that is up, skipped or not; the default
\* link in the place of one that is down.
FallbackCids ==
    (kLinks \cap up) \cup (IF kLinks \subseteq up THEN {} ELSE {m_defaultLinkCid})

\* The links Transmit may choose now.
TransmitCids ==
    IF kLinks = {} \/ up = {} THEN {m_defaultLinkCid}
    ELSE IF TsuCids # {} THEN TsuCids
    ELSE FallbackCids

\* Transmit, and SendByCid with the delay of the chosen link.
Transmit(link) ==
    /\ link \in TransmitCids
    /\ leaving' = [leaving EXCEPT ![link] = IF Later(@, LeavesNow(link)) THEN @
                                                                        ELSE LeavesNow(link)]
    /\ m_skipCidMap' = IF kLinks # {} /\ AllUpLinksSkipped THEN NoDelay  \* StopLinkSkipping
                                                           ELSE m_skipCidMap
    /\ UNCHANGED <<m_emulateDelay, tick, kLinks, up, m_defaultLinkCid, tsa, synced, tsuTick>>

\* A link goes down or comes up.  SetLinkDown finds another default link only if
\* small cids are preferred (see LinkState); SetLinkUp moves it to a preferred link.
LinkChanges(link) ==
    /\ synced' = FALSE
    /\ IF link \in up
       THEN /\ up' = up \ {link}
            /\ m_defaultLinkCid' =
                  IF link = m_defaultLinkCid /\ up' # {} /\ ~ PreferLargeCidValue
                  THEN Smallest(up') ELSE m_defaultLinkCid
       ELSE /\ up' = up \cup {link}
            /\ m_defaultLinkCid' = Preferred({link, m_defaultLinkCid})
    /\ UNCHANGED <<m_emulateDelay, tick, m_skipCidMap, kLinks, tsa, leaving, tsuTick>>

\* One millisecond ends: the timers and the instants that are left count down.
CountDown(timer) ==
    [link \in Links |-> IF timer[link] = 0 THEN 0 ELSE timer[link] - 1]

ComesNearer(instant) ==
    IF instant.ms = 0 THEN At(0, 0) ELSE At(instant.ms - 1, instant.tick)

Tick ==
    /\ IF tick + 1 < TicksPerMs
       THEN /\ tick' = tick + 1
            /\ UNCHANGED <<m_skipCidMap, leaving>>
       ELSE /\ tick' = 0
            /\ m_skipCidMap' = CountDown(m_skipCidMap)
            /\ leaving' = [link \in Links |-> ComesNearer(leaving[link])]
    /\ UNCHANGED <<m_emulateDelay, kLinks, up, m_defaultLinkCid, tsa, synced, tsuTick>>

Next ==
    \/ \E owds \in [Links -> OwdValues \cup {NoOwd}], k \in (SUBSET Links) \ {{}} :
          RcvTsu(owds, k)
    \/ RcvStaleTsu
    \/ \E link \in Links : Transmit(link) \/ LinkChanges(link)
    \/ Tick

Spec == Init /\ [][Next]_vars

-----------------------------------------------------------------------------
Ticks == 0 .. (TicksPerMs - 1)
Instants == [ms : Nat, tick : Ticks]

\* Type invariant of the transmitter's delay state.
TypeOK ==
    /\ m_emulateDelay \in [Links -> Nat]
    /\ tick \in Ticks
    /\ m_skipCidMap \in [Links -> Nat]
    /\ kLinks \subseteq Links
    /\ up \subseteq Links
    /\ m_defaultLinkCid \in Links
    /\ tsa \in [offset : [Links -> Int], delay : Nat]
    /\ leaving \in [Links -> Instants]
    /\ synced \in BOOLEAN
    /\ tsuTick \in Ticks

\* The offsets and the delay fit the fields of the TSA, so the checks "the delay
\* offset should be in the range of -127 ~ 128" never stop the program.
TsaOffsetInRange ==
    /\ \A link \in Links : /\ tsa.offset[link] >= - MaxDelayChangePerTSU
                           /\ tsa.offset[link] <= MaxDelayChangePerTSU + 1
    /\ tsa.delay <= MaxDelayChangePerTSU

\* UpdateLinkQueueingDelay never stops the program with "cannot have all link be
\* skipped!!!!": one link is not skipped.
SomeLinkNotSkipped == \E link \in Links : m_skipCidMap[link] = 0

\* A packet sent now leaves the emulated delay no earlier than the packets that were
\* sent over the same link before; had it been sent at the tick of the last TSU, if
\* that tick is later.
KeepsOrder(link) ==
    ~ Later(leaving[link], At(m_emulateDelay[link], Largest({tick, tsuTick})))

\* As long as the TSUs are synced and no link changes, skipping a link for as long
\* as its delay shrank (RecvCtrlMsg, UpdateLinkQueueingDelay) keeps its packets in
\* order ("to prevent out of order pkt"), up to the fraction of a millisecond at which
\* the last TSU came: the skip map drops that fraction and the link is used so much
\* too early.
SyncedKeepsOrder == synced => \A link \in TransmitCids : KeepsOrder(link)

=============================================================================
