-------------------------- MODULE MeasurementCycle --------------------------
(***************************************************************************)
(* The measurement cycle of the receiver (MeasurementManager) and the      *)
(* delay emulation of its transmitter, closed into the loop that is to     *)
(* equalize the delays of the links: split mode with sender side           *)
(* adjustment.                                                             *)
(*                                                                         *)
(* The receiver keeps the least one way delay of each link.  When a cycle  *)
(* ends and the 12 seconds of OWD_OFFSET_UPDATE_INTERVAL are over, it      *)
(* compares the delays with those of its last report; if they changed it   *)
(* stops measuring and sends a TSU with, per link, how much faster than    *)
(* the slowest the link is.  The transmitter delays the fast links         *)
(* (EmulatedDelay) and answers with a TSA that carries the change and the  *)
(* SN after which it holds; the TSA starts the next cycle.                 *)
(*                                                                         *)
(* A TSU goes over several links and is repeated under a new csn when no   *)
(* TSA comes.  The first copy is adopted; any other is answered with an    *)
(* offset of zero.  What of time matters is kept: a packet sent before the *)
(* last change cannot arrive after one sent later with at least its delay  *)
(* (queueing adds as much to what is measured as to the time of arrival).  *)
(***************************************************************************)
EXTENDS EmulatedDelay, FiniteSetsExt

CONSTANTS
    BaseDelays,            \* the propagation delays the links may have together
    Never,                 \* the empty m_previousOwdValue
    MaxMeasureInterval,    \* m_maxMeasureInterval, 10 in the code
    Bounds                 \* bounds a behaviour may have: [retx, other, unsampled],
                           \* repeated TSUs, TSUs of failed links, and updates of the
                           \* minima in which a link lacks a current sample

\* NoOwd also stands for the UINT32_MAX of the receiver.
ASSUME CycleAssumption ==
    /\ BaseDelays \subseteq [Links -> Nat]
    /\ NoOwd \notin Nat
    /\ Never \notin [Links -> Nat \cup {NoOwd}]
    /\ MaxMeasureInterval \in Nat \ {0}
    /\ Bounds \subseteq [retx : Nat, other : Nat, unsampled : Nat]

VARIABLES
    base,            \* per link, its propagation delay
    before,          \* m_emulateDelay before the last TSU the transmitter adopted
    passed,          \* the largest delay of a received packet that was sent since then
    rx,              \* the receiver's MeasurementManager
    net,             \* the TSUs and TSAs, queued and in flight
    bound,           \* what is left of the bounds
    tidy,            \* no TSU was repeated, sent for a failed link or answered out of turn
    overtaken        \* a newer TSU was adopted before a report

cycleVars == <<base, m_emulateDelay, before, passed, rx, net, bound, tidy, overtaken>>

NoneMeasured == [link \in Links |-> NoOwd]

CycleInit ==
    /\ base \in BaseDelays
    /\ m_emulateDelay = NoDelay
    /\ before = NoDelay
    /\ passed = Max({base[link] : link \in Links})
    /\ rx = [on |-> TRUE,             \* m_measurementOn
             started |-> FALSE,       \* m_measureIntervalStarted
             index |-> 0,             \* m_measureIntervalIndex
             startNew |-> FALSE,      \* m_measureStartSn is of the current emulation
             lastNew |-> FALSE,       \* m_lastIntervalStartSn is
             delayed |-> FALSE,       \* m_delayMeasurement > 0
             event |-> FALSE,         \* m_delayMeasurementEvent is running
             cur |-> NoneMeasured,    \* m_currentMinOwd
             last |-> NoneMeasured,   \* m_lastMinOwd
             prev |-> Never,          \* m_previousOwdValue
             adj |-> NoDelay,         \* m_senderOwdAdjustment
             due |-> TRUE,            \* the next end of a cycle updates the minima
             current |-> {}]          \* the links with a sample of the current emulation
    /\ net = [queue |-> {},           \* m_txedCtrQueue, its TSUs: [csns, owds]
              nextCsn |-> 1,          \* m_mxCtrSeqNumber
              maxTsu |-> 0,           \* m_maxTsuSeqNum of the transmitter
              maxTsa |-> 0,           \* m_maxTsaSn of the receiver
              tsus |-> {}, tsas |-> {},
              adopted |-> {}]         \* the csns the transmitter adopted
    /\ bound \in Bounds
    /\ tidy = TRUE
    /\ overtaken = FALSE

-----------------------------------------------------------------------------
(***************************************************************************)
(* The receiver: one call each, as functions of the MeasurementManager.    *)
(***************************************************************************)
\* The links whose minimum is moved by the offset of the TSA.
Raised(r) == {link \in Links : r.adj[link] > 0 /\ r.last[link] # NoOwd}

Moved(r, minima) ==
    [link \in Links |-> IF link \in Raised(r) THEN r.last[link] + r.adj[link] ELSE minima[link]]

\* The offset of the TSA is added to what was measured and reported before it, and the
\* samples of the raised links are dropped.
MeasureIntervalStart(r) ==
    [r EXCEPT !.last = Moved(r, @),
              !.prev = IF @ = Never THEN Never ELSE Moved(r, @),
              !.cur = [link \in Links |-> IF link \in Raised(r) THEN NoOwd ELSE @[link]],
              !.current = @ \ Raised(r),
              !.adj = [link \in Links |-> IF link \in Raised(r) THEN 0 ELSE @[link]],
              !.index = @ + 1,
              !.started = TRUE]

\* Mutant: the SN of the TSA is not looked at.
StartCheckAnySn(r, new) ==
    LET s == [r EXCEPT !.lastNew = new]
    IN IF r.started \/ r.event THEN s
       ELSE IF r.delayed THEN [s EXCEPT !.event = TRUE, !.delayed = FALSE]
       ELSE MeasureIntervalStart(s)

\* MeasureIntervalStartCheck of an in-order packet.
MeasureIntervalStartCheck(r, new) ==
    LET after == new \/ ~ r.startNew
        s == [r EXCEPT !.lastNew = new]
    IN IF ~ after \/ r.started \/ r.event THEN s
       ELSE IF r.delayed THEN [s EXCEPT !.event = TRUE, !.delayed = FALSE]
       ELSE MeasureIntervalStart(s)

\* The one way delay of a packet sent with the current emulation or the one before.
Owd(link, new) == base[link] + (IF new THEN m_emulateDelay ELSE before)[link]

\* UpdateLastPacketOwd.
Sample(r, link, new) ==
    LET owd == Owd(link, new)
    IN [r EXCEPT !.cur[link] = IF @ = NoOwd THEN owd ELSE Min({@, owd}),
                 !.current = IF new THEN @ \cup {link} ELSE @]

\* UpdateMinOwdCheck.
UpdateMinOwdCheck(r) ==
    IF r.due
    THEN [r EXCEPT !.last = r.cur, !.cur = NoneMeasured, !.current = {}, !.due = FALSE]
    ELSE r

\* Mutant of Reports: only the delays of the first update are reported.
FirstReportOnly(r) ==
    /\ r.prev = Never
    /\ \E link \in Links : r.last[link] # NoOwd /\ r.last[link] > 0

\* m_minOwdLongTerm is filled: the first report, or a minimum that changed.
Reports(r) ==
    /\ r.last # r.prev
    /\ \E link \in Links : r.last[link] # NoOwd /\ r.last[link] > 0

\* The vector of a TSU without measurements has UINT8_MAX for every link.
OwdVector(r) ==
    LET known == {link \in Links : r.last[link] # NoOwd}
        owdMax == Max({r.last[link] : link \in known})
    IN [link \in Links |-> IF link \in known THEN owdMax - r.last[link] ELSE NoOwd]

\* What is reported is remembered and measured anew.
Report(r) == [r EXCEPT !.prev = r.last, !.cur = NoneMeasured, !.current = {}]

MeasureCycleStart(r) ==
    [r EXCEPT !.index = 0, !.startNew = r.lastNew, !.on = TRUE, !.started = FALSE,
              !.delayed = FALSE]

MeasureCycleStartByTsa(r, tsa) ==
    [r EXCEPT !.index = 0, !.startNew = tsa.new, !.on = TRUE, !.started = FALSE,
              !.delayed = tsa.delayed, !.adj = tsa.offset]

-----------------------------------------------------------------------------
(***************************************************************************)
(* The wire.                                                               *)
(***************************************************************************)
Queued(n, csn) == \E item \in n.queue : csn \in item.csns

\* The csn counts on for ever.  Here a message that nobody would act on is dropped and
\* the csns that are left are numbered again, in their order.
Forget(n) ==
    LET tsus == {m \in n.tsus : m.csn > n.maxTsu \/ Queued(n, m.csn)}
        tsas == {m \in n.tsas : Queued(n, m.csn)}
        csns == {n.maxTsu, n.maxTsa} \cup {m.csn : m \in tsus}
                \cup UNION {item.csns : item \in n.queue}
        Rank(csn) == Cardinality({c \in csns : c < csn})
    IN [queue |-> {[item EXCEPT !.csns = {Rank(csn) : csn \in @}] : item \in n.queue},
        nextCsn |-> Cardinality(csns),
        maxTsu |-> Rank(n.maxTsu),
        maxTsa |-> Rank(n.maxTsa),
        tsus |-> {[m EXCEPT !.csn = Rank(@)] : m \in tsus},
        tsas |-> {[m EXCEPT !.csn = Rank(@)] : m \in tsas},
        adopted |-> {Rank(csn) : csn \in n.adopted \cap csns}]

\* SendCtrlMsg: a TSU goes over the links with a share under the same csn; left, how
\* many of these copies are on their way.  All links are taken: a copy too many that
\* arrives after the TSA has no effect.
Copies(n, owds) == {[csn |-> n.nextCsn, owds |-> owds, left |-> Cardinality(Links)]}

\* One copy of m less.
OneLess(tsus, m) ==
    (tsus \ {m}) \cup (IF m.left = 1 THEN {} ELSE {[m EXCEPT !.left = @ - 1]})

\* A new TSU.
SendTsu(n, owds) ==
    [n EXCEPT !.queue = @ \cup {[csns |-> {n.nextCsn}, owds |-> owds]},
              !.tsus = @ \cup Copies(n, owds),
              !.nextCsn = @ + 1]

\* RetxCtrlMsgExpires before the last attempt: again, under a new csn.
RetxCtrlMsgExpires(item) ==
    /\ bound.retx > 0
    /\ net' = [net EXCEPT !.queue = (@ \ {item})
                                     \cup {[item EXCEPT !.csns = @ \cup {net.nextCsn}]},
                          !.tsus = @ \cup Copies(net, item.owds),
                          !.nextCsn = @ + 1]
    /\ bound' = [bound EXCEPT !.retx = @ - 1]
    /\ tidy' = FALSE
    /\ UNCHANGED <<base, m_emulateDelay, before, passed, rx, overtaken>>

\* A link fails: LinkDownTsu, a TSU without measurements, whatever the cycle does.
LinkDownTsu ==
    /\ bound.other > 0
    /\ net' = SendTsu(net, NoneMeasured)
    /\ bound' = [bound EXCEPT !.other = @ - 1]
    /\ tidy' = FALSE
    /\ UNCHANGED <<base, m_emulateDelay, before, passed, rx, overtaken>>

\* A message is lost while its repetition is still to come.
Lose ==
    /\ bound.retx > 0
    /\ \/ \E m \in net.tsus : net' = Forget([net EXCEPT !.tsus = OneLess(@, m)])
       \/ \E m \in net.tsas : net' = [net EXCEPT !.tsas = @ \ {m}]
    /\ UNCHANGED <<base, m_emulateDelay, before, passed, rx, bound, tidy, overtaken>>

-----------------------------------------------------------------------------
(***************************************************************************)
(* The transmitter.                                                        *)
(***************************************************************************)
\* What the receiver knows is of the emulation before, from now on.
Aged(r) == [r EXCEPT !.startNew = FALSE, !.lastNew = FALSE, !.current = {}]

\* A TSU newer than all before: the delays change and the TSA says by how much.
\* The measurement is to wait when a link with data is drained.
Adopt(m, delayed) ==
    LET offset == DelayOffset(m.owds)
    IN /\ delayed => \E link \in Links : offset[link] < 0
       /\ m_emulateDelay' = NewDelay(m.owds)
       /\ before' = m_emulateDelay
       /\ passed' = -1
       /\ rx' = Aged(rx)
       /\ overtaken' = (overtaken \/ \E item \in net.queue :
                              /\ item.owds # NoneMeasured
                              /\ item.csns \cap net.adopted = {}
                              /\ \A csn \in item.csns : csn < m.csn)
       /\ net' = [net EXCEPT !.maxTsu = m.csn, !.adopted = @ \cup {m.csn},
                             !.tsus = OneLess(@, m),
                             !.tsas = {[t EXCEPT !.new = FALSE] : t \in @}
                                      \cup {[csn |-> m.csn, offset |-> offset,
                                             delayed |-> delayed, new |-> TRUE, first |-> TRUE]}]

\* The TSU branch of RecvCtrlMsg.
RecvTsu(m, delayed) ==
    /\ m \in net.tsus
    /\ \/ m.csn > net.maxTsu /\ Adopt(m, delayed)
       \/ /\ m.csn <= net.maxTsu /\ ~ delayed
          /\ net' = Forget([net EXCEPT !.tsus = OneLess(@, m),
                                       !.tsas = @ \cup {[csn |-> m.csn, offset |-> NoDelay,
                                                         delayed |-> FALSE, new |-> TRUE, first |-> FALSE]}])
          /\ UNCHANGED <<m_emulateDelay, before, passed, rx, overtaken>>
    /\ UNCHANGED <<base, bound, tidy>>

\* The packets from before the last change have all arrived.
Drain ==
    /\ before' = m_emulateDelay
    /\ passed' = Max({Owd(link, TRUE) : link \in Links})
    /\ UNCHANGED <<base, m_emulateDelay, rx, net, bound, tidy, overtaken>>

-----------------------------------------------------------------------------
(***************************************************************************)
(* Handlers of the receiver.                                               *)
(***************************************************************************)
\* A packet over the link can arrive; a later one has not passed it.
Arrives(link, new) ==
    /\ new \/ Owd(link, FALSE) > passed
    /\ passed' = IF new THEN Max({passed, Owd(link, TRUE)}) ELSE passed

\* Mutant: one interval more.
OneIntervalMore(r, converged) ==
    (r.index >= 2 /\ converged) \/ r.index > MaxMeasureInterval

\* endMeasurement: the delays converged after at least two intervals, or enough of them.
EndMeasurement(r, converged) ==
    (r.index >= 2 /\ converged) \/ r.index >= MaxMeasureInterval

\* The end of a cycle: m_measurementOn is reset, a report or a new decision of the
\* receive-side control sends a TSU, otherwise the next cycle starts.
EndCycle(r, update) ==
    LET m == [UpdateMinOwdCheck(r) EXCEPT !.on = FALSE, !.started = FALSE]
        short == r.due /\ r.current # Links
    IN /\ short => bound.unsampled > 0
       /\ bound' = IF short THEN [bound EXCEPT !.unsampled = @ - 1] ELSE bound
       /\ tidy' = (tidy /\ ~ short)
       /\ \/ Reports(m) /\ rx' = Report(m) /\ net' = SendTsu(net, OwdVector(m))
          \/ ~ Reports(m) /\ update /\ rx' = m /\ net' = SendTsu(net, NoneMeasured)
          \/ ~ Reports(m) /\ ~ update /\ rx' = MeasureCycleStart(m) /\ UNCHANGED net

\* MeasureIntervalEndCheck and MeasureIntervalEnd: over, the interval lasted long
\* enough; converged, the delays of its links did.
MeasureIntervalEndCheck(r, over, converged, update) ==
    IF ~ r.started \/ ~ over THEN rx' = r /\ UNCHANGED <<net, bound, tidy>>
    ELSE IF EndMeasurement(r, converged) THEN EndCycle(r, update)
    ELSE rx' = MeasureIntervalStart(r) /\ UNCHANGED <<net, bound, tidy>>

\* A data packet while the measurement is on.
Receive(link, new, inOrder, over, converged, update) ==
    /\ rx.on
    /\ Arrives(link, new)
    /\ LET r == IF inOrder THEN MeasureIntervalStartCheck(rx, new) ELSE rx
       IN MeasureIntervalEndCheck(Sample(r, link, new), over, converged, update)
    /\ UNCHANGED <<base, m_emulateDelay, before, overtaken>>

\* UpdateOwdFromProbe and UpdateOwdFromAck, on or off.
ReceiveCtrl(link, new) ==
    /\ Arrives(link, new)
    /\ rx' = Sample(rx, link, new)
    /\ UNCHANGED <<base, m_emulateDelay, before, net, bound, tidy, overtaken>>

\* m_delayMeasurementEvent.
DelayedStart ==
    /\ rx.event
    /\ rx' = MeasureIntervalStart([rx EXCEPT !.event = FALSE])
    /\ UNCHANGED <<base, m_emulateDelay, before, passed, net, bound, tidy, overtaken>>

\* OWD_OFFSET_UPDATE_INTERVAL is over.
UpdateIsDue ==
    /\ rx' = [rx EXCEPT !.due = TRUE]
    /\ UNCHANGED <<base, m_emulateDelay, before, passed, net, bound, tidy, overtaken>>

\* The TSA branch of RecvCtrlMsg: the answer to any transmission of a queued TSU
\* settles it, and starts a cycle when it is the newest.
RecvTsa(t) ==
    /\ t \in net.tsas
    /\ LET settled == {item \in net.queue : t.csn \in item.csns}
           n == [net EXCEPT !.tsas = @ \ {t}, !.queue = @ \ settled]
       IN IF settled # {} /\ t.csn > net.maxTsa
          THEN /\ rx' = MeasureCycleStartByTsa(rx, t)
               /\ net' = Forget([n EXCEPT !.maxTsa = t.csn])
               /\ tidy' = (tidy /\ t.first)
          ELSE /\ net' = Forget(n)
               /\ UNCHANGED <<rx, tidy>>
    /\ UNCHANGED <<base, m_emulateDelay, before, passed, bound, overtaken>>

CycleNext ==
    \/ \E link \in Links, new, inOrder, over, converged, update \in BOOLEAN :
          Receive(link, new, inOrder, over, converged, update)
    \/ \E link \in Links, new \in BOOLEAN : ReceiveCtrl(link, new)
    \/ DelayedStart
    \/ UpdateIsDue
    \/ \E m \in net.tsus, delayed \in BOOLEAN : RecvTsu(m, delayed)
    \/ \E t \in net.tsas : RecvTsa(t)
    \/ \E item \in net.queue : RetxCtrlMsgExpires(item)
    \/ LinkDownTsu
    \/ Lose
    \/ Drain

CycleSpec == CycleInit /\ [][CycleNext]_cycleVars

\* Data and control packets keep coming over every link, timers fire, and a message
\* that is not lost arrives.
Fairness ==
    /\ WF_cycleVars(\E link \in Links : Receive(link, TRUE, TRUE, TRUE, TRUE, FALSE))
    /\ \A link \in Links : WF_cycleVars(ReceiveCtrl(link, TRUE))
    /\ WF_cycleVars(DelayedStart)
    /\ WF_cycleVars(UpdateIsDue)
    /\ WF_cycleVars(\E m \in net.tsus, delayed \in BOOLEAN : RecvTsu(m, delayed))
    /\ WF_cycleVars(\E t \in net.tsas : RecvTsa(t))
    /\ WF_cycleVars(\E item \in net.queue : net.tsus = {} /\ net.tsas = {} /\ RetxCtrlMsgExpires(item))
    /\ WF_cycleVars(Drain)

FairSpec == CycleSpec /\ Fairness

-----------------------------------------------------------------------------
\* Type invariant of the loop.
CycleTypeOK ==
    LET Minima == [Links -> Nat \cup {NoOwd}]
    IN /\ base \in [Links -> Nat]
       /\ m_emulateDelay \in [Links -> Nat]
       /\ before \in [Links -> Nat]
       /\ passed \in Nat \cup {-1}
       /\ rx \in [on : BOOLEAN, started : BOOLEAN, index : 0 .. MaxMeasureInterval,
                  startNew : BOOLEAN, lastNew : BOOLEAN,
                  delayed : BOOLEAN, event : BOOLEAN,
                  cur : Minima, last : Minima, prev : Minima \cup {Never},
                  adj : [Links -> Int], due : BOOLEAN, current : SUBSET Links]
       /\ \A item \in net.queue : item.csns \subseteq Nat /\ item.owds \in Minima
       /\ \A m \in net.tsus : m.csn < net.nextCsn /\ m.left \in 1 .. Cardinality(Links)
       /\ \A t \in net.tsas : t.csn <= net.maxTsu /\ t.offset \in [Links -> Int]
       /\ {net.maxTsa, net.maxTsu} \subseteq 0 .. net.nextCsn - 1
       /\ bound \in [retx : Nat, other : Nat, unsampled : Nat]
       /\ {tidy, overtaken} \subseteq BOOLEAN

\* While an interval runs, no sample from before the transmitter's last change makes
\* the minimum of a link smaller than its delay now, so the next report is true
\* ("we assume the sender owd adjustment takes effects afer receives the packet after
\* receives tsa", MeasureIntervalStartCheck and MeasureIntervalStart).
NoStaleSample ==
    tidy /\ rx.started =>
        \A link \in Links : rx.cur[link] # NoOwd => rx.cur[link] >= Owd(link, TRUE)

Equalised ==
    \A a, b \in Links : base[a] + m_emulateDelay[a] = base[b] + m_emulateDelay[b]

\* The loop of reports, emulated delays and TSAs ends with all links equally slow and
\* stays there ("Equalize the propagation delay of all links", attribute
\* EnableSenderSideOwdAdjustment), unless a newer TSU was adopted before a report:
\* repeated and doubly adopted TSUs, answers with zero offsets and links without a
\* sample are made good by the next update.
EqualisedUnlessOvertaken == <>[]Equalised \/ <>overtaken

\* The same without the exception.
EventuallyEqualised == <>[]Equalised

=============================================================================
