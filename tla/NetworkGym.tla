------------------------------ MODULE NetworkGym ------------------------------
(***************************************************************************)
(* The exchange with the NetworkGym agent                                  *)
(* (contrib/networkgym/model/data-processor.cc, southbound-interface.cc    *)
(* and contrib/gma/model/gma-data-processor.cc): the measurements of one   *)
(* instant are batched, aggregated and sent; the simulator then blocks for *)
(* the agent's action, adds the flow priorities it computes itself and     *)
(* applies both.                                                           *)
(*                                                                         *)
(* The agent is external.  It answers a report once and may repeat its     *)
(* last answer at any moment, also while the simulator is running; the     *)
(* socket keeps what it sends in order.  Sources report at common          *)
(* instants: every client once per instant, in any order, the base station *)
(* before, between or after them, or not at all.  The next event of an     *)
(* instant is the exchange, one nanosecond later.                          *)
(***************************************************************************)
EXTENDS Integers, Sequences, SequencesExt, FiniteSets

CONSTANTS
    Clients,      \* client ids, the numbers m_idList holds
    Slice,        \* Slice[c]: the slice and cell that client c belongs to
    Rates,        \* the rates a client may have received during an interval
    Subscribed,   \* m_subscribedMeasurement
    TotalSteps,   \* m_totalSteps
    MaxEarly,     \* bound: instants before the measurement is started
    MaxRepeats    \* bound: answers the agent sends a second time

ASSUME GymAssumption ==
    /\ Clients \subseteq Nat \ {0} /\ IsFiniteSet(Clients) /\ Clients # {}
    /\ DOMAIN Slice = Clients
    /\ Rates \subseteq Nat /\ 0 \in Rates
    /\ TotalSteps \in Nat \ {0} /\ MaxEarly \in Nat /\ MaxRepeats \in Nat

Enb == 0                     \* the base station, a source beside the clients
Sources == Clients \cup {Enb}
NETWORK_CELL == 1            \* GetCellId of NETWORK_CID, for every client

VARIABLES
    m_measurementStarted, m_waitCounter,
    m_measurementBatch,      \* a sequence of measurements, each a sequence of rows
    m_moreMeasurement,       \* per slice, the sum of the rates of its clients so far
    exchange,                \* the exchange event is scheduled
    m_dlQosMeasure,          \* what the clients saved for the flow priorities
    m_qosMarking,            \* per client, the server's marking of its flow
    report,                  \* the batch of the report that the agent has to answer
    m_measurementSentTsMs,
    sent,                    \* how many reports were sent
    phase,                   \* "run", "wait" for an action, or "fatal"
    now, toReport            \* the instant, and the sources that have not reported

\* The agent and the socket.
VARIABLES inbox, answered, repeats

\* The time stamp of the last action that was applied, for the properties.
VARIABLE applied

agent == <<inbox, answered, repeats>>
stats == <<m_measurementBatch, m_moreMeasurement, m_dlQosMeasure>>
vars == <<m_measurementStarted, m_waitCounter, stats, exchange, m_qosMarking, report,
          m_measurementSentTsMs, sent, phase, now, toReport, agent, applied>>

\* A row of a report: one metric, with the ids it is known of and their values.
Row(name, id, value) == [name |-> name, ids |-> <<id>>, values |-> <<value>>]

\* AddPhyLink marks every link when flow prioritization is enabled.
Init ==
    /\ m_measurementStarted = FALSE /\ m_waitCounter = 0
    /\ m_measurementBatch = <<>> /\ m_moreMeasurement = <<>> /\ m_dlQosMeasure = <<>>
    /\ exchange = FALSE
    /\ m_qosMarking = [c \in Clients |-> 1]
    /\ report = <<>> /\ m_measurementSentTsMs = 0 /\ sent = 0
    /\ phase = "run" /\ now = 0 /\ toReport = {}
    /\ inbox = <<>> /\ answered = 0 /\ repeats = 0 /\ applied = 0

---------------------------------------------------------------------------
(* Collecting measurements.                                                *)

NextInstant == now' = now + 1 /\ toReport' = Sources

\* The start lies between two instants.
StartMeasurement ==
    /\ phase = "run" /\ ~m_measurementStarted /\ sent = 0
    /\ toReport \cap Clients = {}
    /\ m_measurementStarted' = TRUE
    /\ NextInstant
    /\ UNCHANGED <<m_waitCounter, stats, exchange, m_qosMarking, report,
                   m_measurementSentTsMs, sent, phase, agent, applied>>

\* The rows of a measurement whose metric is subscribed.
SubscribedRows(rows) ==
    LET kept[n \in 0..Len(rows)] ==
            IF n = 0 THEN <<>>
            ELSE IF rows[n].name \in Subscribed THEN Append(kept[n - 1], rows[n])
            ELSE kept[n - 1]
    IN  kept[Len(rows)]

\* AppendMeasurement of several measurements in a row: only the rows of subscribed
\* metrics are kept; a measurement without any is appended empty.
AppendMeasurement(measurements) ==
    LET kept == [i \in DOMAIN measurements |-> SubscribedRows(measurements[i])]
    IN  /\ m_measurementBatch' = IF m_measurementStarted THEN m_measurementBatch \o kept
                                 ELSE m_measurementBatch
        /\ exchange' = (exchange \/ m_measurementStarted)

\* AppendSliceMeasurement of the network metric: the rate is added to the sum of
\* the slice, a slice that is not there yet is added at the end.
AppendSliceMeasurement(slice, rate) ==
    LET known == {i \in DOMAIN m_moreMeasurement : m_moreMeasurement[i].slice = slice}
    IN  m_moreMeasurement' =
            IF ~m_measurementStarted \/ "slice_rate" \notin Subscribed THEN m_moreMeasurement
            ELSE IF known = {} THEN Append(m_moreMeasurement, [slice |-> slice, sum |-> rate])
            ELSE [i \in DOMAIN m_moreMeasurement |->
                    IF i \in known THEN [m_moreMeasurement[i] EXCEPT !.sum = @ + rate]
                    ELSE m_moreMeasurement[i]]

\* The marking a client reports is the one of its own end of the link.  Only the
\* server's end has a callback for the priorities, so it stays what AddPhyLink set.
ClientMarking == 1

\* CollectMeasureResults of client c.  No traffic runs before the measurement is
\* started: the rate is 0 until then.  The rates for the priorities are saved even so.
CollectMeasureResults(c, rate) ==
    /\ phase = "run" /\ c \in toReport
    /\ m_measurementStarted \/ rate = 0
    /\ toReport' = toReport \ {c}
    /\ m_dlQosMeasure' = Append(m_dlQosMeasure,
                                [client |-> c, rate |-> rate, mark |-> ClientMarking])
    /\ AppendMeasurement(<< <<Row("rate", c, rate), Row("owd", c, rate)>>,
                            <<Row("cell_id", c, 0)>> >>)
    /\ AppendSliceMeasurement(Slice[c], rate)
    /\ UNCHANGED <<m_measurementStarted, m_waitCounter, m_qosMarking, report,
                   m_measurementSentTsMs, sent, phase, now, agent, applied>>

\* LteEnbMeasurementCallback.
EnbMeasurement ==
    /\ phase = "run" /\ Enb \in toReport
    /\ toReport' = toReport \ {Enb}
    /\ AppendMeasurement(<< <<Row("rb_usage", NETWORK_CELL, 0)>> >>)
    /\ UNCHANGED <<m_measurementStarted, m_waitCounter, m_moreMeasurement, m_dlQosMeasure,
                   m_qosMarking, report, m_measurementSentTsMs, sent, phase, now, agent, applied>>

\* The next instant, when all clients have reported at this one.  The model ends with
\* the session: reports are ignored from then on.
Tick ==
    /\ phase = "run" /\ toReport \cap Clients = {} /\ ~exchange
    /\ m_measurementStarted \/ (sent = 0 /\ now < MaxEarly)
    /\ NextInstant
    /\ UNCHANGED <<m_measurementStarted, m_waitCounter, stats, exchange, m_qosMarking, report,
                   m_measurementSentTsMs, sent, phase, agent, applied>>

---------------------------------------------------------------------------
(* The exchange.                                                           *)

\* Mutant: the new id goes to the end.
InsertLast(row, new) ==
    [row EXCEPT !.ids = Append(@, new.ids[1]), !.values = Append(@, new.values[1])]

\* The id and the value of a row are put before the first greater id.
InsertSorted(row, new) ==
    LET at == CHOOSE i \in 1..(Len(row.ids) + 1) :
                  /\ i = Len(row.ids) + 1 \/ row.ids[i] > new.ids[1]
                  /\ \A j \in 1..(i - 1) : row.ids[j] <= new.ids[1]
    IN  [row EXCEPT !.ids = InsertAt(@, at, new.ids[1]), !.values = InsertAt(@, at, new.values[1])]

\* One row of a later measurement.  The comparison runs over the rows collected so
\* far: when there are none, the new row is not looked at.
AddRow(rows, new) ==
    LET same == {i \in DOMAIN rows : rows[i].name = new.name}
    IN  IF rows = <<>> THEN rows
        ELSE IF same = {} THEN Append(rows, new)
        ELSE LET i == CHOOSE i \in same : \A j \in same : i <= j
             IN  [rows EXCEPT ![i] = InsertSorted(@, new)]

\* AddMoreMeasurement: the slice metric is one more measurement of the batch.
AddMoreMeasurement(batch) ==
    Append(batch, IF m_moreMeasurement = <<>> THEN <<>>
                  ELSE <<Row("slice_rate", NETWORK_CELL, m_moreMeasurement)>>)

\* All rows of a later measurement.
AddMeasurement(rows, measurement) ==
    LET added[n \in 0..Len(measurement)] ==
            IF n = 0 THEN rows ELSE AddRow(added[n - 1], measurement[n])
    IN  added[Len(measurement)]

\* What is sent for a batch: the first measurement, with the others added.
NetworkStats(batch) ==
    LET merged[n \in 0..(Len(batch) - 1)] ==
            IF n = 0 THEN batch[1] ELSE AddMeasurement(merged[n - 1], batch[n + 1])
    IN  merged[Len(batch) - 1]

\* Mutants: the count of the steps is off by one, either way.
EndsOneStepEarly == m_waitCounter + 2 >= TotalSteps
EndsOneStepLate == m_waitCounter >= TotalSteps

\* The first step, the reset, needs no action: there is one report more than actions.
IsLastStep == m_waitCounter + 1 >= TotalSteps

\* ExchangeMeasurementAndAction up to the wait for the action.  The last step of the
\* session needs none.
ExchangeMeasurement ==
    /\ phase = "run" /\ exchange /\ toReport \cap Clients = {}
    /\ exchange' = FALSE
    /\ report' = AddMoreMeasurement(m_measurementBatch)
    /\ m_measurementSentTsMs' = now /\ sent' = sent + 1
    /\ m_measurementBatch' = <<>> /\ m_moreMeasurement' = <<>>
    /\ toReport' = {}
    /\ IF IsLastStep
       THEN m_measurementStarted' = FALSE /\ phase' = phase
       ELSE m_measurementStarted' = m_measurementStarted /\ phase' = "wait"
    /\ UNCHANGED <<m_waitCounter, m_dlQosMeasure, m_qosMarking, now, agent, applied>>

\* The agent answers the report, and may send its last answer again.
Answer ==
    /\ phase = "wait" /\ answered # m_measurementSentTsMs
    /\ inbox' = Append(inbox, [ts |-> m_measurementSentTsMs])
    /\ answered' = m_measurementSentTsMs
    /\ UNCHANGED <<m_measurementStarted, m_waitCounter, stats, exchange, m_qosMarking, report,
                   m_measurementSentTsMs, sent, phase, now, toReport, repeats, applied>>

AnswerAgain ==
    /\ answered > 0 /\ repeats < MaxRepeats /\ phase # "fatal"
    /\ inbox' = Append(inbox, [ts |-> answered]) /\ repeats' = repeats + 1
    /\ UNCHANGED <<m_measurementStarted, m_waitCounter, stats, exchange, m_qosMarking, report,
                   m_measurementSentTsMs, sent, phase, now, toReport, answered, applied>>

\* The entries of a slice, and the sum of the rates of some entries.
EntriesOf(measure, slice) == {i \in DOMAIN measure : Slice[measure[i].client] = slice}

SumOfRates(measure, entries) ==
    LET sum[n \in 0..Len(measure)] ==
            IF n = 0 THEN 0
            ELSE IF n \in entries THEN sum[n - 1] + measure[n].rate
            ELSE sum[n - 1]
    IN  sum[Len(measure)]

\* CalcQosMarkingActionPerSlice, for the entries of a slice.  Below 70 % of the rate the
\* first client that is not marked is marked.  Above 90 % clients are unmarked from the
\* last one on, until the marked rate is at most 90 %, or at most 70 % of what it was.
\* The loop goes on to entry i when it has unmarked all later ones.
CalcQosMarkingActionPerSlice(list) ==
    LET Rate(entries) == SumOfRates(m_dlQosMeasure, entries)
        marked == {i \in list : m_dlQosMeasure[i].mark > 0}
        unmarked == list \ marked
        qos == Rate(marked)
        nqos == Rate(unmarked)
        raised == IF 10 * qos < 7 * (qos + nqos) /\ unmarked # {}
                  THEN {CHOOSE i \in unmarked : \A j \in unmarked : i <= j}
                  ELSE {}
        Above(rate) == 10 * rate > 9 * (rate + nqos) /\ 10 * rate > 7 * qos
        lowered == {i \in list : Above(Rate({j \in marked : j <= i}))}
    IN  [i \in list |-> CASE i \in lowered -> 0
                         [] i \in raised -> 1
                         [] OTHER -> m_dlQosMeasure[i].mark]

\* CalcQosMarkingAction: per slice and cell.  Of several entries of a client the last
\* one gives its marking.
CalcQosMarkingAction ==
    [c \in Clients |->
        LET list == EntriesOf(m_dlQosMeasure, Slice[c])
            own == {i \in list : m_dlQosMeasure[i].client = c}
        IN  CalcQosMarkingActionPerSlice(list)[CHOOSE i \in own : \A j \in own : i >= j]]

\* Mutant: any action is taken for the current one.
AnyAction(action) == TRUE

\* The time stamps of the action and of the measurement are compared.
IsCurrent(action) == action.ts = m_measurementSentTsMs

\* Mutant: the rates saved for the priorities are not cleared.
GetActionKeepsMeasure ==
    /\ phase = "wait" /\ inbox # <<>>
    /\ inbox' = <<>> /\ report' = <<>>
    /\ m_waitCounter' = m_waitCounter + 1
    /\ IF IsCurrent(Last(inbox))
       THEN phase' = "run" /\ applied' = Last(inbox).ts /\ m_qosMarking' = CalcQosMarkingAction
       ELSE phase' = "fatal" /\ UNCHANGED <<applied, m_qosMarking>>
    /\ UNCHANGED <<m_measurementStarted, stats, exchange,
                   m_measurementSentTsMs, sent, now, toReport, answered, repeats>>

\* GetAction, which keeps the last message of the socket, GetNoneAiAction, and the
\* callbacks.  An action for another measurement stops the program.
GetAction ==
    /\ phase = "wait" /\ inbox # <<>>
    /\ inbox' = <<>> /\ report' = <<>>
    /\ m_waitCounter' = m_waitCounter + 1
    /\ m_dlQosMeasure' = <<>>
    /\ IF IsCurrent(Last(inbox))
       THEN /\ phase' = "run"
            /\ applied' = Last(inbox).ts
            /\ m_qosMarking' = CalcQosMarkingAction
       ELSE /\ phase' = "fatal"
            /\ UNCHANGED <<applied, m_qosMarking>>
    /\ UNCHANGED <<m_measurementStarted, m_measurementBatch, m_moreMeasurement, exchange,
                   m_measurementSentTsMs, sent, now, toReport, answered, repeats>>

ActionTimeout ==
    /\ phase = "wait" /\ inbox = <<>>
    /\ phase' = "fatal"
    /\ UNCHANGED <<m_measurementStarted, m_waitCounter, stats, exchange, m_qosMarking, report,
                   m_measurementSentTsMs, sent, now, toReport, agent, applied>>

\* A probe of client c arrives at the server: AddPhyLink marks the link again.
AddPhyLink(c) ==
    /\ phase = "run"
    /\ m_qosMarking' = [m_qosMarking EXCEPT ![c] = 1]
    /\ UNCHANGED <<m_measurementStarted, m_waitCounter, stats, exchange, report,
                   m_measurementSentTsMs, sent, phase, now, toReport, agent, applied>>

Report == EnbMeasurement \/ \E c \in Clients, rate \in Rates : CollectMeasureResults(c, rate)

Next ==
    \/ StartMeasurement
    \/ Report
    \/ Tick
    \/ ExchangeMeasurement
    \/ Answer
    \/ AnswerAgain
    \/ GetAction
    \/ ActionTimeout
    \/ \E c \in Clients : AddPhyLink(c)

Spec == Init /\ [][Next]_vars

\* The simulator runs its events, and a wait for an action ends: zmq_poll has a timeout.
Fairness ==
    /\ WF_vars(StartMeasurement)
    /\ \A c \in Clients : WF_vars(\E rate \in Rates : CollectMeasureResults(c, rate))
    /\ WF_vars(Tick) /\ WF_vars(ExchangeMeasurement)
    /\ WF_vars(GetAction \/ ActionTimeout)

FairSpec == Spec /\ Fairness

---------------------------------------------------------------------------
(* Properties.                                                             *)

Names == {"rate", "owd", "cell_id", "rb_usage", "slice_rate"}
Entries == [client : Clients, rate : Rates, mark : {0, 1}]

\* Types of all variables; the ids and the values of a row go together.
TypeOK ==
    /\ m_measurementStarted \in BOOLEAN /\ exchange \in BOOLEAN
    /\ m_waitCounter \in 0..TotalSteps /\ sent \in 0..TotalSteps
    /\ \A m \in ToSet(m_measurementBatch) \cup ToSet(report) : \A row \in ToSet(m) :
           row.name \in Names /\ Len(row.ids) = Len(row.values)
    /\ \A e \in ToSet(m_moreMeasurement) : e.sum \in Nat
    /\ ToSet(m_dlQosMeasure) \subseteq Entries
    /\ m_qosMarking \in [Clients -> {0, 1}]
    /\ phase \in {"run", "wait", "fatal"}
    /\ toReport \subseteq Sources
    /\ \A a \in ToSet(inbox) : a.ts \in 1..now
    /\ {m_measurementSentTsMs, answered, applied} \subseteq 0..now /\ repeats \in 0..MaxRepeats

\* The id and the value of each entry of a sequence of rows.
Cells(rows) ==
    UNION {{<<row.name, row.ids[i], row.values[i]>> : i \in DOMAIN row.ids} : row \in ToSet(rows)}

\* Every row of the batch is in the report, once, under its metric and in the order
\* of the ids.
IsAggregateOf(rows, batch) ==
    /\ Cells(rows) = UNION {Cells(batch[i]) : i \in DOMAIN batch}
    /\ \A i, j \in DOMAIN rows : i # j => rows[i].name # rows[j].name
    /\ \A row \in ToSet(rows) : \A i, j \in DOMAIN row.ids : i < j => row.ids[i] < row.ids[j]

\* The sums of the slices are those of the rates the clients reported.
HasSliceSums(rows) ==
    \A row \in ToSet(rows) : row.name = "slice_rate" =>
        {<<e.slice, e.sum>> : e \in ToSet(row.values[1])} =
        {<<s, SumOfRates(m_dlQosMeasure, EntriesOf(m_dlQosMeasure, s))>> :
             s \in {Slice[c] : c \in Clients}}

\* The aggregation of ExchangeMeasurementAndAction against its reference, for all
\* orders of the sources, when the first measurement has a subscribed row.
ReportIsAggregate ==
    report # <<>> /\ Head(report) # <<>> =>
        LET rows == NetworkStats(report) IN IsAggregateOf(rows, report) /\ HasSliceSums(rows)

\* "the measurements appended from multiple sources at the same time will be
\* aggregated and sent" (data-processor.h:40): no condition on the first one.
AppendedMeasurementsAreSent == report # <<>> => IsAggregateOf(NetworkStats(report), report)

\* Simulator and agent go in lock step: the simulator only runs on with the action
\* for the last report, and the session ends with one report more than actions.
LockStep ==
    /\ phase = "run" /\ m_measurementStarted /\ sent > 0 =>
           applied = m_measurementSentTsMs /\ m_waitCounter = sent
    /\ ~m_measurementStarted /\ sent > 0 => sent = TotalSteps /\ m_waitCounter = TotalSteps - 1

\* What the clients reported at the last instant, in the order of their reports.
LatestReports == (Len(m_dlQosMeasure) - Cardinality(Clients) + 1)..Len(m_dlQosMeasure)

\* CalcQosMarkingAction: in every slice the clients that get priority are the longest
\* prefix, in the order of their reports at the last instant, with at most 70 % of
\* the rate of the slice; rates saved before do not matter.
PriorityForLongestPrefix ==
    [][applied' # applied =>
        \A s \in {Slice[c] : c \in Clients} :
            LET list == LatestReports \cap EntriesOf(m_dlQosMeasure, s)
                Rate(entries) == SumOfRates(m_dlQosMeasure, entries)
            IN  \A i \in list :
                    (m_qosMarking'[m_dlQosMeasure[i].client] = 1) <=>
                        (10 * Rate({j \in list : j <= i}) <= 7 * Rate(list))]_vars

\* A session ends: all its reports are sent, unless the program stops because the
\* agent is silent or repeats an old answer.
SessionEnds == <>(sent = TotalSteps \/ phase = "fatal")
===============================================================================
