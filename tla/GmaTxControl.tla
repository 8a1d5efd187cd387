---------------------------- MODULE GmaTxControl ----------------------------
(***************************************************************************)
(* The transmitter's traffic splitter (contrib/gma/model/                  *)
(* gma-tx-control.cc).  A TSU message carries a burst size L and, for      *)
(* every link, its share K of the burst.  In split mode (L > 1) the shares *)
(* are laid out link by link and read in bit-reversed order, so that the   *)
(* packets of a link are spread over the burst.  In steer mode (L = 1)     *)
(* there is one primary link; every other link the TSU names carries       *)
(* duplicates.                                                             *)
(***************************************************************************)
EXTENDS Integers, Sequences, SequencesExt

CONSTANTS
    CidList,      \* the configured cids, in the order both endpoints know them
    ShareValues,  \* bound: the shares K a link may be given
    Bursts,       \* the values of L of a controller that splits
    MaxTests      \* bound: QoS tests whose StopQosTesting event is still scheduled

ASSUME CidListAssumption ==
    /\ CidList \in Seq(0 .. 254)
    /\ CidList # << >>
    /\ \A i, j \in DOMAIN CidList : CidList[i] = CidList[j] => i = j
ASSUME ShareAssumption == ShareValues \subseteq 0 .. 255
\* The debug assertion of RcvCtrlMsg leaves 64 out, the attribute of the
\* controller and the table of RcvCtrlMsg do not.
ASSUME BurstAssumption ==
    Bursts \subseteq {4, 8, 16, 32, 64, 128}

VARIABLES
    m_cidVector,       \* one slot per packet of a burst (steer: the primary link)
    m_cidDupVector,    \* the links that carry duplicates
    m_paramL,          \* L of the last TSU, 0 before the first
    m_splittingIndex,  \* the next slot, counted from 0
    stopEvents,        \* the cids of the scheduled StopQosTesting events, in order
    steering           \* whether the peer's controller is configured to steer or to split

txVars == <<m_cidVector, m_cidDupVector, m_paramL, m_splittingIndex, stopEvents, steering>>

TxInit ==
    /\ m_cidVector = << >>
    /\ m_cidDupVector = << >>
    /\ m_paramL = 0
    /\ m_splittingIndex = 0
    /\ stopEvents = << >>
    /\ steering \in BOOLEAN

Cids == {CidList[i] : i \in DOMAIN CidList}

-----------------------------------------------------------------------------
(***************************************************************************)
(* The tables REVERSE_BITS_INDEXn, counted from 0 as in the code.          *)
(***************************************************************************)
REVERSE_BITS_INDEX4 == <<0, 2, 1, 3>>

\* Mutant: a mistyped entry.
MistypedIndex8 == <<0, 4, 2, 4, 1, 5, 3, 7>>

REVERSE_BITS_INDEX8 == <<0, 4, 2, 6, 1, 5, 3, 7>>

REVERSE_BITS_INDEX16 == <<0, 8, 4, 12, 2, 10, 6, 14, 1, 9, 5, 13, 3, 11, 7, 15>>

REVERSE_BITS_INDEX32 ==
    <<0, 16,  8, 24,  4, 20, 12, 28,  2, 18, 10, 26,  6, 22, 14, 30,
      1, 17, 9, 25,  5, 21, 13, 29,  3, 19, 11, 27,  7, 23, 15, 31>>

REVERSE_BITS_INDEX64 ==
    <<0, 32, 16, 48,  8, 40, 24, 56,  4, 36, 20, 52, 12, 44, 28, 60,
      2, 34, 18, 50, 10, 42, 26, 58,  6, 38, 22, 54, 14, 46, 30, 62,
      1, 33, 17, 49,  9, 41, 25, 57,  5, 37, 21, 53, 13, 45, 29, 61,
      3, 35, 19, 51, 11, 43, 27, 59,  7, 39, 23, 55, 15, 47, 31, 63>>

REVERSE_BITS_INDEX128 ==
    <<0, 64, 32, 96, 16, 80, 48, 112, 8, 72, 40, 104, 24, 88, 56, 120,
      4, 68, 36, 100, 20, 84, 52, 116, 12, 76, 44, 108, 28, 92, 60, 124,
      2, 66, 34, 98, 18, 82, 50, 114, 10, 74, 42, 106, 26, 90, 58, 122,
      6, 70, 38, 102, 22, 86, 54, 118, 14, 78, 46, 110, 30, 94, 62, 126,
      1, 65, 33, 97, 17, 81, 49, 113, 9, 73, 41, 105, 25, 89, 57, 121,
      5, 69, 37, 101, 21, 85, 53, 117, 13, 77, 45, 109, 29, 93, 61, 125,
      3, 67, 35, 99, 19, 83, 51, 115, 11, 75, 43, 107, 27, 91, 59, 123,
      7, 71, 39, 103, 23, 87, 55, 119, 15, 79, 47, 111, 31, 95, 63, 127>>

ReverseBitsIndex(L) ==
    CASE L = 4   -> REVERSE_BITS_INDEX4
      [] L = 8   -> REVERSE_BITS_INDEX8
      [] L = 16  -> REVERSE_BITS_INDEX16
      [] L = 32  -> REVERSE_BITS_INDEX32
      [] L = 64  -> REVERSE_BITS_INDEX64
      [] L = 128 -> REVERSE_BITS_INDEX128

-----------------------------------------------------------------------------
\* The loop over the links that fills inorderCidVector: K[link] copies of every cid.
LaidOut(K) ==
    LET upTo[link \in 0 .. Len(CidList)] ==
            IF link = 0 THEN << >>
            ELSE upTo[link - 1] \o [n \in 1 .. K[link] |-> CidList[link]]
    IN  upTo

InorderCidVector(K) == LaidOut(K)[Len(CidList)]

\* Mutant: the shares are sent link by link.
UnshuffledCidVector(L, inorder) == inorder

\* Split mode reads the shares in bit-reversed order.
ReversedCidVector(L, inorder) ==
    [n \in 1 .. L |-> inorder[ReverseBitsIndex(L)[n] + 1]]

\* Mutant: the first link of every TSU becomes the primary one.
FirstNamed(inorder) == inorder[1]

\* Steer mode keeps the primary link when the TSU still names it, otherwise the
\* first link of the TSU becomes the primary one.
SteerPrimary(inorder) ==
    IF m_cidVector # << >> /\ Contains(inorder, m_cidVector[1])
    THEN m_cidVector[1]
    ELSE inorder[1]

\* The loops that copy a vector without one cid: the duplicates of a TSU, and the
\* erase of StopQosTesting.
Filtered(cids, cid) ==
    LET upTo[n \in 0 .. Len(cids)] ==
            IF n = 0 THEN << >>
            ELSE IF cids[n] = cid THEN upTo[n - 1]
            ELSE Append(upTo[n - 1], cids[n])
    IN  upTo

Without(cids, cid) == Filtered(cids, cid)[Len(cids)]

\* RcvCtrlMsg for a TSU.  A split TSU leaves the duplicates alone.  The code stops
\* the program when the shares do not add up to the burst, and when a steering TSU
\* follows a splitting one; no controller does that.
RcvCtrlMsg(L, K) ==
    LET inorder == InorderCidVector(K)
    IN  /\ steering = (L = 1)
        /\ L # 1 => Len(inorder) = L
        /\ m_paramL' = L
        /\ m_splittingIndex' = 0
        /\ UNCHANGED <<stopEvents, steering>>
        /\ IF L = 1
           THEN /\ m_cidVector' = <<SteerPrimary(inorder)>>
                /\ m_cidDupVector' = Without(inorder, SteerPrimary(inorder))
           ELSE /\ m_cidVector' = ReversedCidVector(L, inorder)
                /\ UNCHANGED m_cidDupVector

\* Mutant: the index wraps one slot late.
LateWrap == IF m_splittingIndex + 1 > m_paramL THEN 0 ELSE m_splittingIndex + 1

\* The index after one pick.
NextIndex == IF m_splittingIndex + 1 >= m_paramL THEN 0 ELSE m_splittingIndex + 1

\* The cid the next pick returns (m_cidVector.at(m_splittingIndex)).
CurrentSlot == m_cidVector[m_splittingIndex + 1]

\* GetNextCidFromTsu and the index arithmetic of RxSideAlgorithm.
AdvanceIndex ==
    /\ m_cidVector # << >>
    /\ m_splittingIndex' = NextIndex
    /\ UNCHANGED <<m_cidVector, m_cidDupVector, m_paramL, stopEvents, steering>>

\* StartQosTesting: with a duplicate list that is not empty the code stops the
\* program.  All tests last equally long, so their ends are scheduled in order.
\* Only a steering controller tests ("this algorithm is for steering mode only").
StartQosTesting(cid) ==
    /\ steering
    /\ m_cidDupVector = << >>
    /\ Len(stopEvents) < MaxTests
    /\ m_cidDupVector' = <<cid>>
    /\ stopEvents' = Append(stopEvents, cid)
    /\ UNCHANGED <<m_cidVector, m_paramL, m_splittingIndex, steering>>

\* StopQosTesting, from its event: the cid leaves the duplicate list, whether
\* the test or a TSU put it there.
StopQosTesting ==
    /\ stopEvents # << >>
    /\ m_cidDupVector' = Without(m_cidDupVector, Head(stopEvents))
    /\ stopEvents' = Tail(stopEvents)
    /\ UNCHANGED <<m_cidVector, m_paramL, m_splittingIndex, steering>>

AddUpTo(K, L) == FoldFunction(+, 0, K) = L

\* The share vectors a controller can send with burst size L: in split mode they
\* add up to L, in steer mode every link named has share 1.
Shares(L) ==
    IF L = 1
    THEN {K \in [DOMAIN CidList -> {0, 1}] : \E i \in DOMAIN CidList : K[i] = 1}
    ELSE {K \in [DOMAIN CidList -> ShareValues] : AddUpTo(K, L)}

-----------------------------------------------------------------------------
\* What the TSU asked for and the last picks since then, oldest first: kept by
\* the specification only, to state what a burst must look like.
VARIABLES share, picks

vars == <<txVars, share, picks>>

Init == TxInit /\ share = << >> /\ picks = << >>

RcvTsu(L, K) ==
    /\ RcvCtrlMsg(L, K)
    /\ share' = K
    /\ picks' = << >>

GetNextCidFromTsu ==
    /\ AdvanceIndex
    /\ picks' = LET kept == IF Len(picks) = m_paramL THEN Tail(picks) ELSE picks
                IN  Append(kept, CurrentSlot)
    /\ UNCHANGED share

Next ==
    \/ \E L \in Bursts \cup {1} : \E K \in Shares(L) : RcvTsu(L, K)
    \/ GetNextCidFromTsu
    \/ \E cid \in Cids : StartQosTesting(cid) /\ UNCHANGED <<share, picks>>
    \/ StopQosTesting /\ UNCHANGED <<share, picks>>

Spec == Init /\ [][Next]_vars

-----------------------------------------------------------------------------
\* Type invariant; the last conjunct is what keeps every m_cidVector.at() in range.
TypeOK ==
    /\ m_cidVector \in Seq(Cids)
    /\ m_cidDupVector \in Seq(Cids)
    /\ m_paramL \in {0, 1} \cup Bursts
    /\ m_splittingIndex \in Nat
    /\ stopEvents \in Seq(Cids)
    /\ Len(m_cidVector) = m_paramL
    /\ m_splittingIndex = 0 \/ m_splittingIndex < Len(m_cidVector)

\* How many of the slots of s are of one link.
Count(s, cid) == Cardinality({n \in DOMAIN s : s[n] = cid})

\* In split mode any m_paramL consecutive picks of GetNextCidFromTsu, wherever the
\* window starts in the burst, give every link exactly the share K of the TSU.
EveryWindowHonoursShares ==
    (m_paramL > 1 /\ Len(picks) = m_paramL)
        => \A i \in DOMAIN CidList : Count(picks, CidList[i]) = share[i]

\* The point of the tables REVERSE_BITS_INDEXn: a burst cut into equal parts of a
\* power of two gives each part the share of every link, rounded down or up.
BurstIsSpreadEvenly ==
    (m_paramL > 1 /\ m_splittingIndex = 0) =>
        \A size \in {2, 4, 8, 16, 32, 64} : size <= m_paramL =>
            \A part \in 0 .. (m_paramL \div size - 1) :
                \A i \in DOMAIN CidList :
                    LET slots == SubSeq(m_cidVector, part * size + 1, part * size + size)
                        scaled == Count(slots, CidList[i]) * m_paramL
                    IN  /\ scaled > share[i] * size - m_paramL
                        /\ scaled < share[i] * size + m_paramL

\* Steer mode, RcvCtrlMsg: the primary link moves only when the new TSU no longer
\* names it, and whatever the TSU names carries every packet exactly once, as the
\* primary link or as a duplicate.
SteeringIsSticky ==
    [][\A K \in Shares(1) : RcvTsu(1, K) =>
         LET named == {CidList[i] : i \in {j \in DOMAIN CidList : K[j] = 1}}
         IN  /\ \A old \in ToSet(m_cidVector) \cap named : m_cidVector' = <<old>>
             /\ ToSet(m_cidVector' \o m_cidDupVector') = named
             /\ Len(m_cidDupVector') + 1 = Cardinality(named)]_vars

=============================================================================
