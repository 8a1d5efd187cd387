------------------------ MODULE DelayEmulationProofs ------------------------
(***************************************************************************)
(* Theorems about DelayEmulation, for every set of links, every limit on   *)
(* the change per TSU and every set of reported delays, and about the loop *)
(* that the emulation closes with the receiver's measurement cycle         *)
(* (MeasurementCycle), for all propagation delays and every bound.         *)
(***************************************************************************)
EXTENDS DelayEmulation, MeasurementCycle, FiniteSetTheorems, WellFoundedInduction, TLAPS

-----------------------------------------------------------------------------
(***************************************************************************)
(* Finite sets of integers have a least and a greatest element.            *)
(***************************************************************************)
\* Among the sets "elements of S below m", one for each m in S, a minimal one for
\* strict inclusion is empty: its m is the least element of S.
LEMMA LeastElement ==
    ASSUME NEW S, IsFiniteSet(S), S \subseteq Int, S # {}
    PROVE  \E m \in S : \A n \in S : m <= n
<1> DEFINE Below(m) == {n \in S : n < m}
<1> DEFINE T == {Below(m) : m \in S}
<1>1. IsWellFoundedOn(StrictSubsetOrdering(S), SUBSET S)
  BY FS_StrictSubsetOrderingWellFounded, FS_FiniteSubsetsOfFinite
<1>2. T \subseteq SUBSET S /\ T # {}
  OBVIOUS
<1>3. \E x \in T : \A y \in T : ~ (<<y, x>> \in StrictSubsetOrdering(S))
  <2> HIDE DEF T
  <2>1. QED
    BY <1>1, <1>2, WFMin
<1>4. PICK m \in S : \A k \in S : ~ (<<Below(k), Below(m)>> \in StrictSubsetOrdering(S))
  BY <1>3
<1>5. ASSUME NEW n \in S, n < m
      PROVE  FALSE
  <2>1. Below(n) \subseteq Below(m)
    <3> SUFFICES ASSUME NEW k \in S, k < n
                 PROVE  k < m
      OBVIOUS
    <3>1. k \in Int /\ n \in Int /\ m \in Int
      OBVIOUS
    <3>2. QED
      BY <3>1, <1>5
  <2>2. n \in Below(m) /\ n \notin Below(n)
    BY <1>5
  <2>3. <<Below(n), Below(m)>> \in StrictSubsetOrdering(S)
    <3>1. Below(n) \in SUBSET S /\ Below(m) \in SUBSET S /\ Below(n) # Below(m)
      BY <2>2
    <3> HIDE DEF Below
    <3>2. QED
      BY <2>1, <3>1 DEF StrictSubsetOrdering
  <2>4. QED
    BY <2>3, <1>4
<1>6. \A n \in S : m <= n
  <2> SUFFICES ASSUME NEW n \in S
               PROVE  m <= n
    OBVIOUS
  <2>1. n \in Int /\ m \in Int /\ ~ (n < m)
    BY <1>5
  <2>2. QED
    BY <2>1
<1>7. QED
  BY <1>6

\* The values a function takes on a finite set are finitely many.
LEMMA FiniteImage ==
    ASSUME NEW S, IsFiniteSet(S), NEW f
    PROVE  IsFiniteSet({f[x] : x \in S})
<1> DEFINE T == {f[x] : x \in S}
<1> DEFINE g == [x \in S |-> f[x]]
<1>1. g \in Surjection(S, T)
  <2>1. g \in [S -> T]
    OBVIOUS
  <2>2. \A y \in T : \E x \in S : g[x] = y
    OBVIOUS
  <2>3. QED
    BY <2>1, <2>2 DEF Surjection
<1>2. IsFiniteSet(T)
  <2> HIDE DEF T, g
  <2>1. QED
    BY <1>1, FS_Surjection
<1>3. QED
  BY <1>2

\* The greatest element is the negative of the least element of the negatives.
LEMMA GreatestElement ==
    ASSUME NEW S, IsFiniteSet(S), S \subseteq Int, S # {}
    PROVE  \E m \in S : \A n \in S : m >= n
<1> DEFINE neg == [n \in S |-> 0 - n]
<1> DEFINE Negatives == {neg[n] : n \in S}
<1>1. IsFiniteSet(Negatives)
  <2> HIDE DEF neg
  <2>1. QED
    BY FiniteImage
<1>2. \A n \in S : n \in Int /\ neg[n] = 0 - n /\ neg[n] \in Int
  OBVIOUS
<1> HIDE DEF neg
<1> Negatives \subseteq Int /\ Negatives # {}
  BY <1>2
<1>3. PICK l \in Negatives : \A n \in Negatives : l <= n
  <2> HIDE DEF Negatives
  <2>1. QED
    BY <1>1, LeastElement
<1>4. PICK m \in S : l = neg[m]
  OBVIOUS
<1>5. \A n \in S : m >= n
  <2> SUFFICES ASSUME NEW n \in S
               PROVE  m >= n
    OBVIOUS
  <2>1. 0 - m <= 0 - n
    BY <1>2, <1>3, <1>4
  <2>2. n \in Int /\ m \in Int
    BY <1>2
  <2>3. QED
    BY <2>1, <2>2
<1>6. QED
  BY <1>5

-----------------------------------------------------------------------------
Owds == [Links -> OwdValues \cup {NoOwd}]

\* A TSU raises the delay of a link by at most MaxDelayChangePerTSU.
LEMMA RaiseBounds ==
    ASSUME NEW owd \in Nat \cup {NoOwd}
    PROVE  Raise(owd) \in 0 .. MaxDelayChangePerTSU
  BY ChangeAssumption DEF Raise

\* CHOOSE finds the least and the greatest value of a function on the links.
LEMMA ExtremeValues ==
    ASSUME NEW f, \A link \in Links : f[link] \in Int
    PROVE  LET V == {f[link] : link \in Links}
           IN  /\ Smallest(V) \in V /\ \A link \in Links : Smallest(V) <= f[link]
               /\ Largest(V) \in V /\ \A link \in Links : Largest(V) >= f[link]
<1> DEFINE V == {f[link] : link \in Links}
<1>1. IsFiniteSet(V)
  BY FiniteImage, LinksAssumption
<1>2. V \subseteq Int /\ V # {}
  BY LinksAssumption
<1>3. /\ \A link \in Links : f[link] \in V
      /\ \E m \in V : \A n \in V : m <= n
      /\ \E m \in V : \A n \in V : m >= n
  <2>1. \A link \in Links : f[link] \in V
    OBVIOUS
  <2> HIDE DEF V
  <2>2. QED
    BY <2>1, <1>1, <1>2, LeastElement, GreatestElement
<1> HIDE DEF V
<1>4. /\ Smallest(V) \in V /\ \A n \in V : Smallest(V) <= n
      /\ Largest(V) \in V /\ \A n \in V : Largest(V) >= n
  BY <1>3 DEF Smallest, Largest
<1>5. QED
  BY <1>3, <1>4 DEF V

\* The heart of the emulation: when one link is undelayed before a TSU, the
\* minimum taken off is at most MaxDelayChangePerTSU, no delay becomes negative,
\* one link is undelayed afterwards, and every offset fits the TSA.
LEMMA NewDelaysOfAny ==
    ASSUME m_emulateDelay \in [Links -> Nat], SomeLinkUndelayed,
           NEW owds \in [Links -> Nat \cup {NoOwd}]
    PROVE  /\ NewDelay(owds) \in [Links -> Nat]
           /\ DelayOffset(owds) \in [Links -> Int]
           /\ \E link \in Links : NewDelay(owds)[link] = 0
           /\ \A link \in Links :
                 /\ NewDelay(owds)[link] = m_emulateDelay[link] + DelayOffset(owds)[link]
                 /\ DelayOffset(owds)[link] >= - MaxDelayChangePerTSU
                 /\ DelayOffset(owds)[link] <= MaxDelayChangePerTSU
<1> DEFINE min == MinEmulatedDelay(owds)
<1>1. \A link \in Links : /\ m_emulateDelay[link] \in Nat
                          /\ Raise(owds[link]) \in Nat
                          /\ Raise(owds[link]) <= MaxDelayChangePerTSU
                          /\ RaisedDelay(owds)[link] = m_emulateDelay[link] + Raise(owds[link])
  <2> SUFFICES ASSUME NEW link \in Links
               PROVE  /\ m_emulateDelay[link] \in Nat
                      /\ Raise(owds[link]) \in Nat
                      /\ Raise(owds[link]) <= MaxDelayChangePerTSU
                      /\ RaisedDelay(owds)[link] = m_emulateDelay[link] + Raise(owds[link])
    OBVIOUS
  <2>1. owds[link] \in Nat \cup {NoOwd}
    OBVIOUS
  <2>2. Raise(owds[link]) \in 0 .. MaxDelayChangePerTSU
    BY <2>1, RaiseBounds
  <2>3. QED
    BY <2>2, DelayAssumption DEF RaisedDelay
<1>2. \A link \in Links : RaisedDelay(owds)[link] \in Int
  BY <1>1
<1>3. /\ \E link \in Links : min = RaisedDelay(owds)[link]
      /\ \A link \in Links : min <= RaisedDelay(owds)[link]
  BY <1>2, ExtremeValues DEF MinEmulatedDelay
<1>4. min \in Nat
  BY <1>1, <1>3
<1> HIDE DEF min
<1>5. min <= MaxDelayChangePerTSU
  <2>1. PICK zero \in Links : m_emulateDelay[zero] = 0
    BY DEF SomeLinkUndelayed
  <2>2. min <= RaisedDelay(owds)[zero]
    BY <1>3
  <2>3. QED
    BY <2>1, <2>2, <1>1, <1>4, ChangeAssumption
<1>6. \A link \in Links : /\ NewDelay(owds)[link] = RaisedDelay(owds)[link] - min
                          /\ DelayOffset(owds)[link] = Raise(owds[link]) - min
  BY DEF NewDelay, DelayOffset, min
<1>7. NewDelay(owds) \in [Links -> Nat] /\ DelayOffset(owds) \in [Links -> Int]
  <2>1. \A link \in Links : RaisedDelay(owds)[link] - min \in Nat
    BY <1>1, <1>3, <1>4
  <2>2. \A link \in Links : Raise(owds[link]) - min \in Int
    BY <1>1, <1>4
  <2>3. QED
    BY <2>1, <2>2 DEF NewDelay, DelayOffset, min
<1>8. \E link \in Links : NewDelay(owds)[link] = 0
  BY <1>1, <1>3, <1>4, <1>6
<1>9. ASSUME NEW link \in Links
      PROVE  /\ NewDelay(owds)[link] = m_emulateDelay[link] + DelayOffset(owds)[link]
             /\ DelayOffset(owds)[link] >= - MaxDelayChangePerTSU
             /\ DelayOffset(owds)[link] <= MaxDelayChangePerTSU
  <2>1. /\ m_emulateDelay[link] \in Nat
        /\ Raise(owds[link]) \in Nat
        /\ Raise(owds[link]) <= MaxDelayChangePerTSU
        /\ RaisedDelay(owds)[link] = m_emulateDelay[link] + Raise(owds[link])
    BY <1>1
  <2>2. /\ NewDelay(owds)[link] = RaisedDelay(owds)[link] - min
        /\ DelayOffset(owds)[link] = Raise(owds[link]) - min
    BY <1>6
  <2>3. QED
    BY <2>1, <2>2, <1>4, <1>5, ChangeAssumption
<1>10. QED
  BY <1>7, <1>8, <1>9

\* In the types of DelayEmulation.
LEMMA NewDelays ==
    ASSUME TypeOK, SomeLinkUndelayed, NEW owds \in Owds
    PROVE  /\ NewDelay(owds) \in [Links -> Nat]
           /\ DelayOffset(owds) \in [Links -> Int]
           /\ \E link \in Links : NewDelay(owds)[link] = 0
           /\ \A link \in Links :
                 /\ NewDelay(owds)[link] = m_emulateDelay[link] + DelayOffset(owds)[link]
                 /\ DelayOffset(owds)[link] >= - MaxDelayChangePerTSU
                 /\ DelayOffset(owds)[link] <= MaxDelayChangePerTSU
<1>1. m_emulateDelay \in [Links -> Nat] /\ owds \in [Links -> Nat \cup {NoOwd}]
  BY DelayAssumption DEF TypeOK, Owds
<1>2. QED
  BY <1>1, NewDelaysOfAny

\* The drain times fit the TSA too.
LEMMA DrainTimes ==
    ASSUME TypeOK, SomeLinkUndelayed, NEW owds \in Owds, NEW k \in SUBSET Links
    PROVE  /\ DrainTime(owds, k) \in [Links -> Nat]
           /\ Largest({DrainTime(owds, k)[link] : link \in Links}) \in Nat
           /\ Largest({DrainTime(owds, k)[link] : link \in Links}) <= MaxDelayChangePerTSU
<1>1. ASSUME NEW link \in Links
      PROVE  /\ DrainTime(owds, k)[link] \in Nat
             /\ DrainTime(owds, k)[link] <= MaxDelayChangePerTSU
  <2>1. /\ DelayOffset(owds)[link] \in Int
        /\ DelayOffset(owds)[link] >= - MaxDelayChangePerTSU
    BY NewDelays
  <2>2. DrainTime(owds, k)[link] = IF link \in k /\ DelayOffset(owds)[link] < 0
                                   THEN - DelayOffset(owds)[link] ELSE 0
    BY DEF DrainTime
  <2>3. QED
    BY <2>1, <2>2, ChangeAssumption
<1>2. DrainTime(owds, k) \in [Links -> Nat]
  BY <1>1 DEF DrainTime
<1>3. Largest({DrainTime(owds, k)[link] : link \in Links})
        \in {DrainTime(owds, k)[link] : link \in Links}
  <2> DEFINE f == DrainTime(owds, k)
  <2>1. \A link \in Links : f[link] \in Int
    BY <1>1
  <2> HIDE DEF f
  <2>2. Largest({f[link] : link \in Links}) \in {f[link] : link \in Links}
    BY <2>1, ExtremeValues
  <2>3. QED
    BY <2>2 DEF f
<1>4. QED
  BY <1>1, <1>2, <1>3

-----------------------------------------------------------------------------
(***************************************************************************)
(* Without any assumption on the TSUs and the links.                       *)
(***************************************************************************)

\* The parts are inductive only together: the offsets are bounded because one
\* link is undelayed.
Inv ==
    /\ TypeOK
    /\ SomeLinkUndelayed
    /\ TsaOffsetInRange
    /\ SomeLinkNotSkipped

\* The default link after a failure (SetLinkDown) is a link.
LEMMA SmallestLink ==
    ASSUME NEW S, S \subseteq Links, S # {}
    PROVE  Smallest(S) \in S /\ \A n \in S : Smallest(S) <= n
<1>1. IsFiniteSet(S) /\ S \subseteq Int
  <2>1. S \subseteq Int
    BY LinksAssumption
  <2>2. QED
    BY <2>1, LinksAssumption, FS_Subset
<1>2. \E m \in S : \A n \in S : m <= n
  BY <1>1, LeastElement
<1>3. QED
  BY <1>2 DEF Smallest

\* A set of links has a largest one.
LEMMA LargestLink ==
    ASSUME NEW S, S \subseteq Links, S # {}
    PROVE  Largest(S) \in S /\ \A n \in S : Largest(S) >= n
<1>1. IsFiniteSet(S) /\ S \subseteq Int
  <2>1. S \subseteq Int
    BY LinksAssumption
  <2>2. QED
    BY <2>1, LinksAssumption, FS_Subset
<1>2. \E m \in S : \A n \in S : m >= n
  BY <1>1, GreatestElement
<1>3. QED
  BY <1>2 DEF Largest

\* The link that the registry prefers is one of those it chooses among.
LEMMA PreferredLink ==
    ASSUME NEW S, S \subseteq Links, S # {}
    PROVE  Preferred(S) \in S
  BY SmallestLink, LargestLink DEF Preferred

\* The later of two ticks.
LEMMA LaterTick ==
    ASSUME NEW a \in Nat, NEW b \in Nat
    PROVE  /\ Largest({a, b}) \in {a, b}
           /\ Largest({a, b}) >= a /\ Largest({a, b}) >= b
<1>1. \E n \in {a, b} : \A m \in {a, b} : n >= m
  <2>1. a >= a /\ b >= b /\ (a >= b \/ b >= a)
    OBVIOUS
  <2>2. QED
    BY <2>1
<1>2. QED
  BY <1>1 DEF Largest

\* A tick is a natural number.
LEMMA TickIsNat ==
    ASSUME NEW t \in Ticks
    PROVE  t \in Nat
  BY DelayAssumption DEF Ticks

\* No delay and no TSA before the first TSU.
LEMMA InitInv == Init => Inv
<1> SUFFICES ASSUME Init
             PROVE  Inv
  OBVIOUS
<1> USE DEF Init, NoDelay
<1>1. Preferred(Links) \in Links
  BY PreferredLink, LinksAssumption
<1>2. TypeOK
  <2>1. 0 \in Ticks
    BY DelayAssumption DEF Ticks
  <2>2. leaving \in [Links -> Instants]
    BY <2>1 DEF At, Instants
  <2>3. QED
    BY <1>1, <2>1, <2>2 DEF TypeOK
<1>3. SomeLinkUndelayed /\ SomeLinkNotSkipped
  BY LinksAssumption DEF SomeLinkUndelayed, SomeLinkNotSkipped
<1>4. TsaOffsetInRange
  BY ChangeAssumption DEF TsaOffsetInRange
<1>5. QED
  BY <1>2, <1>3, <1>4 DEF Inv

\* A new TSU (RecvCtrlMsg) keeps the invariant, whatever it reports.
LEMMA RcvTsuInv ==
    ASSUME Inv, NEW owds \in Owds, NEW k \in (SUBSET Links) \ {{}}, RcvTsu(owds, k)
    PROVE  Inv'
<1> DEFINE drain == Largest({DrainTime(owds, k)[link] : link \in Links})
<1>1. /\ NewDelay(owds) \in [Links -> Nat]
      /\ DelayOffset(owds) \in [Links -> Int]
      /\ \E link \in Links : NewDelay(owds)[link] = 0
      /\ \A link \in Links : /\ DelayOffset(owds)[link] >= - MaxDelayChangePerTSU
                             /\ DelayOffset(owds)[link] <= MaxDelayChangePerTSU
  BY NewDelays DEF Inv
<1>2. DrainTime(owds, k) \in [Links -> Nat] /\ drain \in Nat /\ drain <= MaxDelayChangePerTSU
  BY DrainTimes DEF Inv
<1> HIDE DEF drain
<1>3. /\ m_emulateDelay' = NewDelay(owds)
      /\ kLinks' = k
      /\ up' = up /\ m_defaultLinkCid' = m_defaultLinkCid /\ leaving' = leaving
      /\ tick' = tick /\ tsuTick' = tick
  BY DEF RcvTsu, UpdateLinkQueueingDelay
<1>4. tsa' = [offset |-> DelayOffset(owds), delay |-> drain]
      \/ tsa' = [offset |-> DelayOffset(owds), delay |-> 0]
  BY DEF RcvTsu, UpdateLinkQueueingDelay, drain
<1>5. \/ m_skipCidMap' = DrainTime(owds, k) /\ FindLink(owds, k)
      \/ m_skipCidMap' = m_skipCidMap
  BY DEF RcvTsu, UpdateLinkQueueingDelay
<1>6. TypeOK'
  <2>1. synced' \in BOOLEAN
    BY DEF RcvTsu
  <2>2. QED
    BY <1>1, <1>2, <1>3, <1>4, <1>5, <2>1 DEF Inv, TypeOK
<1>7. SomeLinkUndelayed'
  BY <1>1, <1>3 DEF SomeLinkUndelayed
<1>8. TsaOffsetInRange'
  <2>1. /\ tsa'.offset = DelayOffset(owds)
        /\ tsa'.delay <= MaxDelayChangePerTSU
    BY <1>2, <1>4, ChangeAssumption
  <2>2. ASSUME NEW link \in Links
        PROVE  /\ DelayOffset(owds)[link] >= - MaxDelayChangePerTSU
               /\ DelayOffset(owds)[link] <= MaxDelayChangePerTSU + 1
    BY <1>1, ChangeAssumption
  <2>3. QED
    BY <2>1, <2>2 DEF TsaOffsetInRange
<1>9. SomeLinkNotSkipped'
  <2>1. CASE m_skipCidMap' = DrainTime(owds, k) /\ FindLink(owds, k)
    <3>1. PICK link \in k : DelayOffset(owds)[link] >= 0
      BY <2>1 DEF FindLink
    <3>2. link \in Links /\ ~ (DelayOffset(owds)[link] < 0)
      BY <3>1, <1>1
    <3>3. DrainTime(owds, k)[link] = 0
      BY <3>2 DEF DrainTime
    <3>4. QED
      BY <2>1, <3>2, <3>3 DEF SomeLinkNotSkipped
  <2>2. CASE m_skipCidMap' = m_skipCidMap
    BY <2>2 DEF Inv, SomeLinkNotSkipped
  <2>3. QED
    BY <1>5, <2>1, <2>2
<1>10. QED
  BY <1>6, <1>7, <1>8, <1>9 DEF Inv

\* A timer that counts down stays a natural number and never grows.
LEMMA CountDownType ==
    ASSUME NEW timer \in [Links -> Nat]
    PROVE  /\ CountDown(timer) \in [Links -> Nat]
           /\ \A link \in Links : /\ timer[link] = 0 => CountDown(timer)[link] = 0
                                  /\ timer[link] # 0 => CountDown(timer)[link] = timer[link] - 1
  BY DEF CountDown

\* The emulated delays and the TSA change only with a TSU.
LEMMA OtherStepsInv ==
    ASSUME Inv,
           \/ RcvStaleTsu
           \/ \E link \in Links : Transmit(link) \/ LinkChanges(link)
           \/ Tick
           \/ UNCHANGED vars
    PROVE  Inv'
<1> USE DEF Inv
<1>1. CASE RcvStaleTsu
  <2> USE <1>1 DEF RcvStaleTsu, NoDelay
  <2>1. TypeOK'
    BY DEF TypeOK
  <2>2. TsaOffsetInRange'
    BY ChangeAssumption DEF TsaOffsetInRange
  <2>3. QED
    BY <2>1, <2>2 DEF SomeLinkUndelayed, SomeLinkNotSkipped
<1>2. ASSUME NEW link \in Links, Transmit(link)
      PROVE  Inv'
  <2> USE <1>2 DEF Transmit, NoDelay
  <2>1. LeavesNow(link) \in Instants
    BY DEF TypeOK, LeavesNow, At, Instants
  <2>2. TypeOK'
    BY <2>1 DEF TypeOK
  <2>3. SomeLinkNotSkipped'
    BY LinksAssumption DEF SomeLinkNotSkipped
  <2>4. QED
    BY <2>2, <2>3 DEF SomeLinkUndelayed, TsaOffsetInRange
<1>3. ASSUME NEW link \in Links, LinkChanges(link)
      PROVE  Inv'
  <2> USE <1>3 DEF LinkChanges
  <2>1. up' \subseteq Links
    BY DEF TypeOK
  <2>2. m_defaultLinkCid' \in Links
    <3>1. up' # {} => Smallest(up') \in Links
      BY <2>1, SmallestLink
    <3>2. Preferred({link, m_defaultLinkCid}) \in Links
      <4>1. {link, m_defaultLinkCid} \subseteq Links
        BY DEF TypeOK
      <4>2. Preferred({link, m_defaultLinkCid}) \in {link, m_defaultLinkCid}
        BY <4>1, PreferredLink
      <4>3. QED
        BY <4>1, <4>2
    <3>3. QED
      BY <3>1, <3>2 DEF TypeOK
  <2>3. TypeOK'
    BY <2>1, <2>2 DEF TypeOK
  <2>4. QED
    BY <2>3 DEF SomeLinkUndelayed, TsaOffsetInRange, SomeLinkNotSkipped
<1>4. CASE Tick
  <2> USE <1>4 DEF Tick
  <2>1. m_skipCidMap \in [Links -> Nat] /\ leaving \in [Links -> Instants]
    BY DEF TypeOK
  <2>2. TypeOK'
    <3>1. tick' \in Ticks
      BY DelayAssumption DEF TypeOK, Ticks
    <3>2. m_skipCidMap' \in [Links -> Nat]
      BY <2>1, CountDownType
    <3>3. ASSUME NEW instant \in Instants
          PROVE  ComesNearer(instant) \in Instants
      <4>1. instant.ms \in Nat /\ instant.tick \in Ticks /\ 0 \in Ticks
        BY DelayAssumption DEF Instants, Ticks
      <4>2. instant.ms # 0 => instant.ms - 1 \in Nat
        BY <4>1
      <4>3. QED
        BY <4>1, <4>2 DEF ComesNearer, At, Instants
    <3>4. leaving' \in [Links -> Instants]
      BY <2>1, <3>3
    <3>5. QED
      BY <3>1, <3>2, <3>4 DEF TypeOK
  <2>3. SomeLinkNotSkipped'
    BY <2>1, CountDownType DEF SomeLinkNotSkipped
  <2>4. QED
    BY <2>2, <2>3 DEF SomeLinkUndelayed, TsaOffsetInRange
<1>5. CASE UNCHANGED vars
  BY <1>5 DEF vars, TypeOK, SomeLinkUndelayed, TsaOffsetInRange, SomeLinkNotSkipped
<1>6. QED
  BY <1>1, <1>2, <1>3, <1>4, <1>5

\* The invariant is inductive.
LEMMA NextInv == Inv /\ [Next]_vars => Inv'
<1> SUFFICES ASSUME Inv, [Next]_vars
             PROVE  Inv'
  OBVIOUS
<1>1. CASE \E owds \in Owds, k \in (SUBSET Links) \ {{}} : RcvTsu(owds, k)
  BY <1>1, RcvTsuInv
<1>2. CASE ~ \E owds \in Owds, k \in (SUBSET Links) \ {{}} : RcvTsu(owds, k)
  BY <1>2, OtherStepsInv DEF Next, Owds
<1>3. QED
  BY <1>1, <1>2

\* The checks of RecvCtrlMsg and UpdateLinkQueueingDelay that stop the program are
\* never reached: every offset and drain time fits the TSA and some link can be
\* sent over, whatever the TSUs report and whenever links fail.
THEOREM OffsetsFitTsa == Spec => []TsaOffsetInRange
<1>1. Inv => TsaOffsetInRange
  BY DEF Inv
<1>2. QED
  BY InitInv, NextInv, <1>1, PTL DEF Spec

\* UpdateLinkQueueingDelay never finds all links skipped, so its check "cannot have
\* all link be skipped!!!!" never stops the program.
THEOREM NotAllSkipped == Spec => []SomeLinkNotSkipped
<1>1. Inv => SomeLinkNotSkipped
  BY DEF Inv
<1>2. QED
  BY InitInv, NextInv, <1>1, PTL DEF Spec

\* One link never waits: the emulated delays do not creep upwards together.
THEOREM SlowestUndelayed == Spec => []SomeLinkUndelayed
<1>1. Inv => SomeLinkUndelayed
  BY DEF Inv
<1>2. QED
  BY InitInv, NextInv, <1>1, PTL DEF Spec

\* The delays of RecvCtrlMsg never become negative, and no state leaves its type.
THEOREM TypeCorrect == Spec => []TypeOK
<1>1. Inv => TypeOK
  BY DEF Inv
<1>2. QED
  BY InitInv, NextInv, <1>1, PTL DEF Spec

-----------------------------------------------------------------------------
(***************************************************************************)
(* As long as the TSUs are synced and no link changes.                     *)
(***************************************************************************)

\* The tick up to which a packet of a link may leave in the millisecond in which the
\* skipping of the link ends: the tick of the TSU that lowered its delay, and once the
\* link is used again the present tick.
LastTick(link) ==
    IF m_skipCidMap[link] = 0 THEN Largest({tick, tsuTick}) ELSE tsuTick

\* Every link with data has drained, or is skipped until the millisecond in which it
\* has; and one link with data is not skipped, so Transmit never falls back on a
\* skipped link.
DrainInv ==
    /\ up = Links
    /\ \A link \in Links :
          (kLinks = {} \/ link \in kLinks)
             => ~ Later(leaving[link],
                        At(m_emulateDelay[link] + m_skipCidMap[link], LastTick(link)))
    /\ kLinks = {} => m_skipCidMap = NoDelay
    /\ kLinks # {} => \E link \in kLinks : m_skipCidMap[link] = 0

\* The types, link by link.
LEMMA LinkTypes ==
    ASSUME TypeOK, NEW link \in Links
    PROVE  /\ m_emulateDelay[link] \in Nat /\ m_skipCidMap[link] \in Nat
           /\ leaving[link] \in Instants
           /\ leaving[link].ms \in Nat /\ leaving[link].tick \in Nat
           /\ tick \in Nat /\ tsuTick \in Nat
           /\ Largest({tick, tsuTick}) \in {tick, tsuTick}
           /\ Largest({tick, tsuTick}) >= tick /\ Largest({tick, tsuTick}) >= tsuTick
<1>1. leaving[link] \in Instants /\ tick \in Nat /\ tsuTick \in Nat
  BY TickIsNat DEF TypeOK
<1>2. leaving[link].ms \in Nat /\ leaving[link].tick \in Nat
  BY <1>1, TickIsNat DEF Instants
<1>3. QED
  BY <1>1, <1>2, LaterTick DEF TypeOK

\* A link that is not skipped keeps its order.
LEMMA UnskippedKeepsOrder ==
    ASSUME TypeOK, DrainInv, NEW link \in Links, kLinks = {} \/ link \in kLinks,
           m_skipCidMap[link] = 0
    PROVE  KeepsOrder(link)
<1>1. m_emulateDelay[link] + m_skipCidMap[link] = m_emulateDelay[link]
  BY LinkTypes
<1>2. LastTick(link) = Largest({tick, tsuTick})
  BY DEF LastTick
<1>3. QED
  BY <1>1, <1>2 DEF DrainInv, KeepsOrder

\* The link a packet may be sent over is not skipped, so it keeps its order.
LEMMA DrainInvImpliesOrder ==
    ASSUME TypeOK, DrainInv
    PROVE  \A link \in TransmitCids :
              link \in Links /\ m_skipCidMap[link] = 0 /\ (kLinks = {} \/ link \in kLinks)
<1>1. CASE kLinks = {}
  <2>1. TransmitCids = {m_defaultLinkCid} /\ m_defaultLinkCid \in Links
    BY <1>1 DEF TransmitCids, TypeOK
  <2>2. m_skipCidMap[m_defaultLinkCid] = 0
    BY <1>1, <2>1 DEF DrainInv, NoDelay
  <2>3. QED
    BY <1>1, <2>1, <2>2
<1>2. CASE kLinks # {}
  <2>1. PICK free \in kLinks : m_skipCidMap[free] = 0
    BY <1>2 DEF DrainInv
  <2>2. free \in up /\ up # {} /\ ~ AllUpLinksSkipped
    BY <2>1 DEF DrainInv, TypeOK, AllUpLinksSkipped, IsLinkLowQueueingDelay
  <2>3. TsuCids = {link \in kLinks : m_skipCidMap[link] = 0}
    BY <2>2 DEF DrainInv, TypeOK, TsuCids, IsLinkLowQueueingDelay
  <2>4. TransmitCids = {link \in kLinks : m_skipCidMap[link] = 0}
    BY <1>2, <2>1, <2>2, <2>3 DEF TransmitCids
  <2>5. QED
    BY <2>4 DEF TypeOK
<1>3. QED
  BY <1>1, <1>2

\* Nothing is delayed at the start.
LEMMA InitDrainInv == Init => DrainInv
<1> SUFFICES ASSUME Init
             PROVE  DrainInv
  OBVIOUS
<1>1. ASSUME NEW link \in Links
      PROVE  ~ Later(leaving[link],
                     At(m_emulateDelay[link] + m_skipCidMap[link], LastTick(link)))
  <2>1. LastTick(link) >= 0
    BY LinkTypes, InitInv DEF Inv, Init, LastTick, NoDelay
  <2>2. leaving[link] = At(0, 0) /\ m_emulateDelay[link] + m_skipCidMap[link] = 0
    BY DEF Init, NoDelay
  <2>3. LastTick(link) \in Nat
    BY LinkTypes, InitInv DEF Inv, LastTick
  <2>4. QED
    BY <2>1, <2>2, <2>3 DEF Later, At
<1>2. QED
  BY <1>1 DEF Init, DrainInv

\* A synced TSU lowers the delay of a link by no more than the link is skipped for.
LEMMA RcvTsuDrainInv ==
    ASSUME Inv, DrainInv, synced',
           NEW owds \in Owds, NEW k \in (SUBSET Links) \ {{}}, RcvTsu(owds, k)
    PROVE  DrainInv'
<1>1. FindLink(owds, k) /\ \A link \in Links : ~ Later(leaving[link], LeavesNow(link))
  BY DEF RcvTsu, UpdateLinkQueueingDelay, SyncedTsu
<1>2. /\ m_emulateDelay' = NewDelay(owds) /\ kLinks' = k /\ up' = up /\ leaving' = leaving
      /\ m_skipCidMap' = DrainTime(owds, k) /\ tick' = tick /\ tsuTick' = tick
  BY <1>1 DEF RcvTsu, UpdateLinkQueueingDelay
<1>3. ASSUME NEW link \in k
      PROVE  ~ Later(leaving[link],
                     At(NewDelay(owds)[link] + DrainTime(owds, k)[link], LastTick(link)'))
  <2> DEFINE delay == NewDelay(owds)[link] + DrainTime(owds, k)[link]
  <2>1. link \in Links /\ m_emulateDelay[link] \in Nat
        /\ leaving[link].ms \in Nat /\ leaving[link].tick \in Nat /\ tick \in Nat
    BY LinkTypes DEF Inv
  <2>2. /\ NewDelay(owds)[link] = m_emulateDelay[link] + DelayOffset(owds)[link]
        /\ DelayOffset(owds)[link] \in Int
    BY <2>1, NewDelays DEF Inv
  <2>3. DrainTime(owds, k)[link] =
           IF DelayOffset(owds)[link] < 0 THEN - DelayOffset(owds)[link] ELSE 0
    BY <2>1 DEF DrainTime
  <2>4. delay \in Nat /\ delay >= m_emulateDelay[link]
    BY <2>1, <2>2, <2>3
  <2>5. LastTick(link)' = tick
    <3>1. Largest({tick, tick}) = tick
      BY <2>1, LaterTick
    <3>2. QED
      BY <1>2, <3>1 DEF LastTick
  <2>6. ~ Later(leaving[link], At(m_emulateDelay[link], tick))
    BY <1>1, <2>1 DEF LeavesNow
  <2> HIDE DEF delay
  <2>7. ~ Later(leaving[link], At(delay, tick))
    BY <2>1, <2>4, <2>6 DEF Later, At
  <2>8. QED
    BY <2>5, <2>7 DEF delay
<1>4. \E link \in k : DrainTime(owds, k)[link] = 0
  <2>1. PICK link \in k : DelayOffset(owds)[link] >= 0
    BY <1>1 DEF FindLink
  <2>2. link \in Links /\ DelayOffset(owds)[link] \in Int
    BY NewDelays DEF Inv
  <2>3. ~ (DelayOffset(owds)[link] < 0)
    BY <2>1, <2>2
  <2>4. QED
    BY <2>2, <2>3 DEF DrainTime
<1>5. QED
  BY <1>2, <1>3, <1>4 DEF DrainInv

\* A packet leaves after the delay of its link, which is not skipped.
LEMMA TransmitDrainInv ==
    ASSUME Inv, DrainInv, NEW link \in Links, Transmit(link)
    PROVE  DrainInv'
<1>1. /\ link \in TransmitCids
      /\ leaving' = [leaving EXCEPT ![link] = IF Later(leaving[link], LeavesNow(link))
                                             THEN leaving[link] ELSE LeavesNow(link)]
      /\ UNCHANGED <<m_emulateDelay, tick, tsuTick, kLinks, up>>
  BY DEF Transmit
<1>2. m_skipCidMap[link] = 0
  BY <1>1, DrainInvImpliesOrder DEF Inv
<1>3. m_skipCidMap' = m_skipCidMap
  <2>1. ~ (kLinks # {} /\ AllUpLinksSkipped)
    BY DEF Inv, TypeOK, DrainInv, AllUpLinksSkipped, IsLinkLowQueueingDelay
  <2>2. QED
    BY <2>1 DEF Transmit
<1>4. \A l : LastTick(l)' = LastTick(l)
  BY <1>1, <1>3 DEF LastTick
<1>5. ASSUME NEW l \in Links, kLinks = {} \/ l \in kLinks
      PROVE  ~ Later(leaving'[l], At(m_emulateDelay[l] + m_skipCidMap[l], LastTick(l)))
  <2>1. ~ Later(leaving[l], At(m_emulateDelay[l] + m_skipCidMap[l], LastTick(l)))
    BY <1>5 DEF DrainInv
  <2>2. CASE leaving'[l] = leaving[l]
    BY <2>1, <2>2
  <2>3. CASE l = link /\ leaving'[l] = LeavesNow(l)
    <3>1. m_emulateDelay[l] \in Nat /\ tick \in Nat
          /\ LastTick(l) \in Nat /\ LastTick(l) >= tick
      BY <1>2, <2>3, LinkTypes DEF Inv, LastTick
    <3>2. m_emulateDelay[l] + m_skipCidMap[l] = m_emulateDelay[l]
      BY <1>2, <2>3, <3>1
    <3>3. ~ Later(At(m_emulateDelay[l], tick), At(m_emulateDelay[l], LastTick(l)))
      BY <3>1 DEF Later, At
    <3>4. QED
      BY <2>3, <3>2, <3>3 DEF LeavesNow
  <2>4. leaving \in [Links -> Instants]
    BY DEF Inv, TypeOK
  <2>5. QED
    BY <1>1, <2>2, <2>3, <2>4
<1>6. QED
  BY <1>1, <1>3, <1>4, <1>5 DEF DrainInv

\* The packets leave as fast as the skipping ends.
LEMMA TickDrainInv ==
    ASSUME Inv, DrainInv, Tick
    PROVE  DrainInv'
<1>0. UNCHANGED <<m_emulateDelay, kLinks, up, tsuTick>>
  BY DEF Tick
<1>1. CASE tick' = tick + 1 /\ UNCHANGED <<m_skipCidMap, leaving>>
  <2>1. ASSUME NEW link \in Links, kLinks = {} \/ link \in kLinks
        PROVE  ~ Later(leaving[link],
                       At(m_emulateDelay[link] + m_skipCidMap[link], LastTick(link)'))
    <3>1. ~ Later(leaving[link], At(m_emulateDelay[link] + m_skipCidMap[link], LastTick(link)))
      BY <2>1 DEF DrainInv
    <3>2. /\ leaving[link].tick \in Nat /\ leaving[link].ms \in Nat
          /\ tick \in Nat /\ tsuTick \in Nat
          /\ m_emulateDelay[link] + m_skipCidMap[link] \in Nat
      BY LinkTypes DEF Inv
    <3>3. /\ Largest({tick, tsuTick}) \in {tick, tsuTick}
          /\ Largest({tick + 1, tsuTick}) \in {tick + 1, tsuTick}
          /\ Largest({tick + 1, tsuTick}) >= tick + 1
          /\ Largest({tick + 1, tsuTick}) >= tsuTick
      BY <3>2, LaterTick
    <3>4. /\ LastTick(link) \in Nat /\ LastTick(link)' \in Nat
          /\ LastTick(link)' >= LastTick(link)
      <4>1. LastTick(link) = IF m_skipCidMap[link] = 0 THEN Largest({tick, tsuTick}) ELSE tsuTick
        BY DEF LastTick
      <4>2. LastTick(link)' = IF m_skipCidMap[link] = 0 THEN Largest({tick + 1, tsuTick}) ELSE tsuTick
        BY <1>0, <1>1 DEF LastTick
      <4>3. QED
        BY <3>2, <3>3, <4>1, <4>2
    <3>5. QED
      BY <3>1, <3>2, <3>4 DEF Later, At
  <2>2. QED
    BY <1>0, <1>1, <2>1 DEF DrainInv
<1>2. CASE /\ tick' = 0 /\ m_skipCidMap' = CountDown(m_skipCidMap)
           /\ leaving' = [link \in Links |-> ComesNearer(leaving[link])]
  <2>1. ASSUME NEW link \in Links, kLinks = {} \/ link \in kLinks
        PROVE  ~ Later(leaving'[link],
                       At(m_emulateDelay[link] + m_skipCidMap'[link], LastTick(link)'))
    <3>1. ~ Later(leaving[link], At(m_emulateDelay[link] + m_skipCidMap[link], LastTick(link)))
      BY <2>1 DEF DrainInv
    <3>2. /\ leaving[link].tick \in Nat /\ leaving[link].ms \in Nat
          /\ tick \in Nat /\ tsuTick \in Nat
          /\ m_emulateDelay[link] \in Nat /\ m_skipCidMap[link] \in Nat
      BY LinkTypes DEF Inv
    <3>3. m_skipCidMap'[link] = IF m_skipCidMap[link] = 0 THEN 0 ELSE m_skipCidMap[link] - 1
      BY <1>2 DEF CountDown
    <3>4. LastTick(link)' \in Nat /\ LastTick(link)' >= tsuTick
      <4>1. /\ Largest({0, tsuTick}) \in {0, tsuTick}
            /\ Largest({0, tsuTick}) >= tsuTick
        BY <3>2, LaterTick
      <4>2. LastTick(link)' = IF m_skipCidMap'[link] = 0 THEN Largest({0, tsuTick}) ELSE tsuTick
        BY <1>0, <1>2 DEF LastTick
      <4>3. QED
        BY <3>2, <4>1, <4>2
    <3>5. CASE leaving[link].ms = 0
      <4>1. leaving'[link] = At(0, 0)
        BY <1>2, <3>5 DEF ComesNearer
      <4>2. m_emulateDelay[link] + m_skipCidMap'[link] \in Nat
        BY <3>2, <3>3
      <4>3. QED
        BY <3>2, <3>4, <4>1, <4>2 DEF Later, At
    <3>6. CASE leaving[link].ms # 0
      <4>1. leaving'[link] = At(leaving[link].ms - 1, leaving[link].tick)
        BY <1>2, <3>6 DEF ComesNearer
      <4>2. CASE m_skipCidMap[link] = 0
        <5>1. leaving[link].ms <= m_emulateDelay[link]
          BY <3>1, <3>2, <4>2 DEF Later, At
        <5>2. QED
          BY <3>2, <3>3, <4>1, <4>2, <5>1 DEF Later, At
      <4>3. CASE m_skipCidMap[link] # 0
        <5>1. LastTick(link) = tsuTick
          BY <4>3 DEF LastTick
        <5>2. m_emulateDelay[link] + m_skipCidMap'[link]
                 = (m_emulateDelay[link] + m_skipCidMap[link]) - 1
          BY <3>2, <3>3, <4>3
        <5>3. QED
          BY <3>1, <3>2, <3>4, <4>1, <5>1, <5>2 DEF Later, At
      <4>4. QED
        BY <4>2, <4>3
    <3>7. QED
      BY <3>5, <3>6
  <2>2. kLinks = {} => CountDown(m_skipCidMap) = NoDelay
    BY DEF DrainInv, CountDown, NoDelay
  <2>3. kLinks # {} => \E link \in kLinks : CountDown(m_skipCidMap)[link] = 0
    <3>1. m_skipCidMap \in [Links -> Nat] /\ kLinks \subseteq Links
      BY DEF Inv, TypeOK
    <3>2. QED
      BY <3>1, CountDownType DEF DrainInv
  <2>4. QED
    BY <1>0, <1>2, <2>1, <2>2, <2>3 DEF DrainInv
<1>3. QED
  BY <1>1, <1>2 DEF Tick

\* As long as the TSUs are synced the draining invariant is kept.
LEMMA NextDrainInv == Inv /\ (synced => DrainInv) /\ [Next]_vars => (synced' => DrainInv')
<1> SUFFICES ASSUME Inv, synced => DrainInv, [Next]_vars, synced'
             PROVE  DrainInv'
  OBVIOUS
<1>0. DrainInv
  BY DEF Next, RcvTsu, RcvStaleTsu, Transmit, LinkChanges, Tick, vars
<1>1. CASE \E owds \in Owds, k \in (SUBSET Links) \ {{}} : RcvTsu(owds, k)
  BY <1>0, <1>1, RcvTsuDrainInv
<1>2. CASE \E link \in Links : Transmit(link)
  BY <1>0, <1>2, TransmitDrainInv
<1>3. CASE \E link \in Links : LinkChanges(link)
  BY <1>3 DEF LinkChanges
<1>4. CASE Tick
  BY <1>0, <1>4, TickDrainInv
<1>5. CASE RcvStaleTsu
  BY <1>0, <1>5 DEF RcvStaleTsu, DrainInv, LastTick
<1>6. CASE UNCHANGED vars
  BY <1>0, <1>6 DEF vars, DrainInv, LastTick
<1>7. QED
  BY <1>1, <1>2, <1>3, <1>4, <1>5, <1>6 DEF Next, Owds

\* When every TSU comes after the drain of the one before it and leaves one link
\* undrained, and no link fails, skipping a link for the size of its offset keeps
\* the packets of every link in order (Transmit, UpdateLinkQueueingDelay), up to the
\* fraction of a millisecond at which the last TSU came, which the skip map drops; for
\* any resolution of the clock.
THEOREM SyncedTsusKeepOrder == Spec => []SyncedKeepsOrder
<1>1. Init => (synced => DrainInv)
  BY InitDrainInv
<1>2. Inv /\ (synced => DrainInv) => SyncedKeepsOrder
  <2> SUFFICES ASSUME Inv, DrainInv, NEW link \in TransmitCids
               PROVE  KeepsOrder(link)
    BY DEF SyncedKeepsOrder
  <2>1. /\ link \in Links /\ m_skipCidMap[link] = 0
        /\ kLinks = {} \/ link \in kLinks
    BY DrainInvImpliesOrder DEF Inv
  <2>2. QED
    BY <2>1, UnskippedKeepsOrder DEF Inv
<1>3. QED
  BY InitInv, NextInv, <1>1, NextDrainInv, <1>2, PTL DEF Spec

-----------------------------------------------------------------------------
(***************************************************************************)
(* The loop that the emulation closes with the receiver's measurement      *)
(* cycle: MeasurementCycle.                                                *)
(***************************************************************************)
Minima == [Links -> Nat \cup {NoOwd}]

\* The largest of a finite set of integers.
LEMMA MaxOfFinite ==
    ASSUME NEW S, IsFiniteSet(S), S \subseteq Int, S # {}
    PROVE  Max(S) \in S /\ \A n \in S : Max(S) >= n
  BY GreatestElement DEF Max

\* The largest of the delays of some links.
LEMMA MaxOfLinks ==
    ASSUME NEW S \in SUBSET Links, S # {}, NEW f, \A link \in S : f[link] \in Nat
    PROVE  LET m == Max({f[link] : link \in S})
           IN  /\ m \in Nat
               /\ \E link \in S : m = f[link]
               /\ \A link \in S : m >= f[link]
<1> DEFINE V == {f[link] : link \in S}
<1>1. IsFiniteSet(V)
  <2>1. IsFiniteSet(S)
    BY LinksAssumption, FS_Subset
  <2>2. QED
    BY <2>1, FiniteImage
<1>2. V \subseteq Nat /\ \A link \in S : f[link] \in V
  OBVIOUS
<1>3. V \subseteq Int /\ V # {}
  <2>1. PICK link \in S : TRUE
    OBVIOUS
  <2>2. f[link] \in V
    OBVIOUS
  <2> HIDE DEF V
  <2>3. QED
    BY <1>2, <2>2
<1>4. Max(V) \in V /\ \A n \in V : Max(V) >= n
  <2> HIDE DEF V
  <2>1. QED
    BY <1>1, <1>3, MaxOfFinite
<1>5. QED
  BY <1>2, <1>4

-----------------------------------------------------------------------------
(***************************************************************************)
(* The receiver's MeasurementManager.                                      *)
(***************************************************************************)
RxType ==
    [on : BOOLEAN, started : BOOLEAN, index : 0 .. MaxMeasureInterval,
     startNew : BOOLEAN, lastNew : BOOLEAN, delayed : BOOLEAN, event : BOOLEAN,
     cur : Minima, last : Minima, prev : Minima \cup {Never},
     adj : [Links -> Int], due : BOOLEAN, current : SUBSET Links]

\* An interval, and the timer that starts one, run only while the measurement is on;
\* before the first interval the index is 0; a current sample is a sample; what a
\* TSA may add to a minimum does not make it negative.
RxPhase(r) ==
    /\ r.started \/ r.event => r.on
    /\ r.event => ~ r.started
    /\ r.on /\ ~ r.started => r.index = 0
    /\ \A link \in r.current : r.cur[link] # NoOwd

RxOK(r) == r \in RxType /\ RxPhase(r)

\* Moving the minima by a positive offset gives minima.
LEMMA MovedType ==
    ASSUME NEW r \in RxType, NEW minima \in Minima
    PROVE  Moved(r, minima) \in Minima
<1> USE DEF RxType, Minima
<1>1. ASSUME NEW link \in Raised(r)
      PROVE  r.last[link] + r.adj[link] \in Nat
  BY <1>1 DEF Raised
<1>2. QED
  BY <1>1 DEF Moved

\* A new interval may start while the measurement is on and intervals are left.
LEMMA MeasureIntervalStartOK ==
    ASSUME NEW r, RxOK(r), r.on, ~ r.event, r.index < MaxMeasureInterval
    PROVE  RxOK(MeasureIntervalStart(r))
<1> DEFINE s == MeasureIntervalStart(r)
<1>1. r \in RxType
  BY DEF RxOK
<1>2. Moved(r, r.last) \in Minima
  BY <1>1, MovedType DEF RxType
<1>3. (IF r.prev = Never THEN Never ELSE Moved(r, r.prev)) \in Minima \cup {Never}
  <2>1. CASE r.prev = Never
    BY <2>1
  <2>2. CASE r.prev # Never
    <3>1. r.prev \in Minima
      BY <1>1, <2>2 DEF RxType
    <3>2. QED
      BY <1>1, <3>1, <2>2, MovedType
  <2>3. QED
    BY <2>1, <2>2
<1>4. [link \in Links |-> IF link \in Raised(r) THEN NoOwd ELSE r.cur[link]] \in Minima
  BY <1>1 DEF RxType, Minima
<1>5. [link \in Links |-> IF link \in Raised(r) THEN 0 ELSE r.adj[link]] \in [Links -> Int]
  BY <1>1 DEF RxType
<1>6. r.index + 1 \in 0 .. MaxMeasureInterval
  BY <1>1, CycleAssumption DEF RxType
<1>7. r.current \ Raised(r) \in SUBSET Links
  BY <1>1 DEF RxType
<1>8. s = [r EXCEPT !.last = Moved(r, r.last),
                    !.prev = IF r.prev = Never THEN Never ELSE Moved(r, r.prev),
                    !.cur = [link \in Links |-> IF link \in Raised(r) THEN NoOwd ELSE r.cur[link]],
                    !.current = r.current \ Raised(r),
                    !.adj = [link \in Links |-> IF link \in Raised(r) THEN 0 ELSE r.adj[link]],
                    !.index = r.index + 1,
                    !.started = TRUE]
  BY DEF MeasureIntervalStart
<1> HIDE DEF s
<1>9. s \in RxType
  BY <1>1, <1>2, <1>3, <1>4, <1>5, <1>6, <1>7, <1>8 DEF RxType
<1>10. s.started /\ s.on = r.on /\ s.event = r.event
  BY <1>1, <1>8 DEF RxType
<1>11. \A link \in s.current : s.cur[link] # NoOwd
  <2> SUFFICES ASSUME NEW link \in s.current
               PROVE  s.cur[link] # NoOwd
    OBVIOUS
  <2>1. link \in r.current \ Raised(r) /\ link \in Links
    BY <1>1, <1>8 DEF RxType
  <2>2. s.cur = [l \in Links |-> IF l \in Raised(r) THEN NoOwd ELSE r.cur[l]]
    BY <1>1, <1>8 DEF RxType
  <2>3. s.cur[link] = r.cur[link]
    BY <2>1, <2>2
  <2>4. QED
    BY <2>1, <2>3 DEF RxOK, RxPhase
<1>12. QED
  BY <1>9, <1>10, <1>11 DEF RxOK, RxPhase, s

\* The check that may start the first interval of a cycle, or the timer for it.
LEMMA StartCheckOK ==
    ASSUME NEW r, RxOK(r), r.on, NEW new \in BOOLEAN
    PROVE  /\ RxOK(MeasureIntervalStartCheck(r, new))
           /\ MeasureIntervalStartCheck(r, new).on
<1> DEFINE s == [r EXCEPT !.lastNew = new]
<1>1. s \in RxType /\ RxPhase(s) /\ s.on /\ s.started = r.started /\ s.event = r.event
      /\ s.index = r.index
  BY DEF RxOK, RxType, RxPhase
<1>2. MeasureIntervalStartCheck(r, new) =
        IF ~ (new \/ ~ r.startNew) \/ r.started \/ r.event THEN s
        ELSE IF r.delayed THEN [s EXCEPT !.event = TRUE, !.delayed = FALSE]
        ELSE MeasureIntervalStart(s)
  BY DEF MeasureIntervalStartCheck
<1> HIDE DEF s
<1>3. ASSUME ~ r.started, ~ r.event
      PROVE  /\ RxOK(MeasureIntervalStart(s))
             /\ MeasureIntervalStart(s).on
  <2>1. s.index < MaxMeasureInterval
    BY <1>1, <1>3, CycleAssumption DEF RxPhase
  <2>2. RxOK(MeasureIntervalStart(s))
    BY <1>1, <1>3, <2>1, MeasureIntervalStartOK DEF RxOK
  <2>3. MeasureIntervalStart(s).on
    BY <1>1 DEF MeasureIntervalStart, RxType
  <2>4. QED
    BY <2>2, <2>3
<1>4. ASSUME ~ r.started
      PROVE  /\ RxOK([s EXCEPT !.event = TRUE, !.delayed = FALSE])
             /\ [s EXCEPT !.event = TRUE, !.delayed = FALSE].on
  BY <1>1, <1>4 DEF RxOK, RxType, RxPhase
<1>5. QED
  BY <1>1, <1>2, <1>3, <1>4 DEF RxOK

\* The delay of a packet.
LEMMA OwdType ==
    ASSUME base \in [Links -> Nat], m_emulateDelay \in [Links -> Nat], before \in [Links -> Nat],
           NEW link \in Links, NEW new \in BOOLEAN
    PROVE  /\ Owd(link, new) \in Nat
           /\ Owd(link, TRUE) = base[link] + m_emulateDelay[link]
           /\ Owd(link, FALSE) = base[link] + before[link]
<1>1. /\ Owd(link, new) = base[link] + (IF new THEN m_emulateDelay ELSE before)[link]
      /\ Owd(link, TRUE) = base[link] + m_emulateDelay[link]
      /\ Owd(link, FALSE) = base[link] + before[link]
  BY Zenon DEF Owd
<1>2. Owd(link, new) \in Nat
  <2> DEFINE owd == Owd(link, new)
  <2>1. owd = base[link] + (IF new THEN m_emulateDelay ELSE before)[link]
    BY <1>1
  <2> HIDE DEF owd
  <2>2. owd \in Nat
    BY <2>1
  <2>3. QED
    BY <2>2 DEF owd
<1>3. QED
  BY <1>1, <1>2, Zenon

\* The smaller of two numbers.
LEMMA MinOfTwo ==
    ASSUME NEW a \in Nat, NEW b \in Nat
    PROVE  Min({a, b}) = IF a <= b THEN a ELSE b
<1>1. \E x \in {a, b} : \A y \in {a, b} : x <= y
  OBVIOUS
<1>2. Min({a, b}) \in {a, b} /\ \A y \in {a, b} : Min({a, b}) <= y
  BY <1>1 DEF Min
<1>3. QED
  BY <1>2

\* The larger of two integers.
LEMMA MaxOfTwo ==
    ASSUME NEW a \in Int, NEW b \in Int
    PROVE  Max({a, b}) = IF a >= b THEN a ELSE b
<1>1. \E x \in {a, b} : \A y \in {a, b} : x >= y
  OBVIOUS
<1>2. Max({a, b}) \in {a, b} /\ \A y \in {a, b} : Max({a, b}) >= y
  BY <1>1 DEF Max
<1>3. QED
  BY <1>2

\* What a sample does to the receiver: only the minimum of its link changes, to a
\* minimum, and the link may become one with a current sample.
LEMMA SampleShape ==
    ASSUME NEW r \in RxType, NEW link \in Links, NEW new \in BOOLEAN,
           Owd(link, new) \in Nat
    PROVE  LET owd == Owd(link, new)
               low == IF r.cur[link] = NoOwd THEN owd
                      ELSE IF r.cur[link] <= owd THEN r.cur[link] ELSE owd
           IN  /\ low \in Nat
               /\ Sample(r, link, new) =
                    [r EXCEPT !.cur = [r.cur EXCEPT ![link] = low],
                              !.current = IF new THEN r.current \cup {link} ELSE r.current]
<1> DEFINE owd == Owd(link, new)
<1> DEFINE low == IF r.cur[link] = NoOwd THEN owd
                  ELSE IF r.cur[link] <= owd THEN r.cur[link] ELSE owd
<1>1. r.cur[link] \in Nat \cup {NoOwd} /\ owd \in Nat
  BY DEF RxType, Minima
<1>2. low \in Nat
  BY <1>1
<1>3. (IF r.cur[link] = NoOwd THEN owd ELSE Min({r.cur[link], owd})) = low
  <2> HIDE DEF owd
  <2>1. CASE r.cur[link] = NoOwd
    BY <2>1
  <2>2. CASE r.cur[link] # NoOwd
    BY <1>1, <2>2, MinOfTwo
  <2>3. QED
    BY <2>1, <2>2
<1>4. Sample(r, link, new) =
        [r EXCEPT !.cur = [r.cur EXCEPT ![link] =
                               IF r.cur[link] = NoOwd THEN owd ELSE Min({r.cur[link], owd})],
                  !.current = IF new THEN r.current \cup {link} ELSE r.current]
  BY DEF Sample
<1>5. QED
  BY <1>2, <1>3, <1>4

\* A sample keeps the receiver's types and phase.
LEMMA SampleOK ==
    ASSUME NEW r, RxOK(r), NEW link \in Links, NEW new \in BOOLEAN,
           Owd(link, new) \in Nat
    PROVE  /\ RxOK(Sample(r, link, new))
           /\ Sample(r, link, new).on = r.on
<1> DEFINE s == Sample(r, link, new)
<1>1. r \in RxType
  BY DEF RxOK
<1> DEFINE owd == Owd(link, new)
<1> DEFINE low == IF r.cur[link] = NoOwd THEN owd
                  ELSE IF r.cur[link] <= owd THEN r.cur[link] ELSE owd
<1> DEFINE cur == [r.cur EXCEPT ![link] = low]
<1> DEFINE current == IF new THEN r.current \cup {link} ELSE r.current
<1>2. low \in Nat /\ s = [r EXCEPT !.cur = cur, !.current = current]
  BY <1>1, SampleShape
<1> HIDE DEF s, low
<1>3. cur \in Minima /\ current \in SUBSET Links /\ low # NoOwd
  BY <1>1, <1>2, CycleAssumption DEF RxType, Minima
<1>4. s \in RxType /\ s.cur = cur /\ s.current = current /\ s.on = r.on /\ s.event = r.event
      /\ s.started = r.started /\ s.index = r.index
  BY <1>1, <1>2, <1>3 DEF RxType
<1>5. \A l \in current : cur[l] # NoOwd
  BY <1>1, <1>2, <1>3 DEF RxOK, RxPhase, RxType, Minima
<1> HIDE DEF cur, current
<1>6. QED
  BY <1>4, <1>5 DEF RxOK, RxPhase, s

\* A TSU says how much faster than the slowest each measured link is.
LEMMA OwdVectorType ==
    ASSUME NEW r \in RxType, \E link \in Links : r.last[link] # NoOwd
    PROVE  OwdVector(r) \in Minima
<1> DEFINE known == {link \in Links : r.last[link] # NoOwd}
<1> DEFINE last == r.last
<1> DEFINE owdMax == Max({last[link] : link \in known})
<1>1. known \in SUBSET Links /\ known # {} /\ \A link \in known : last[link] \in Nat
  BY DEF RxType, Minima
<1>2. OwdVector(r) = [link \in Links |-> IF link \in known THEN owdMax - last[link] ELSE NoOwd]
  BY DEF OwdVector
<1> HIDE DEF known, last
<1>3. owdMax \in Nat /\ \A link \in known : owdMax >= last[link]
  BY <1>1, MaxOfLinks
<1> HIDE DEF owdMax
<1>4. \A link \in known : owdMax - last[link] \in Nat
  BY <1>1, <1>3
<1>5. QED
  BY <1>2, <1>4 DEF Minima

BoundType == [retx : Nat, other : Nat, unsampled : Nat]

\* The vectors of a TSU without measurements and of a TSA without a change.
LEMMA NoneMeasuredType == NoneMeasured \in Minima /\ NoDelay \in [Links -> Int]
  BY DEF NoneMeasured, NoDelay, Minima

\* What the end of a cycle makes of the receiver, and the TSU it may send.
LEMMA EndCycleOK ==
    ASSUME bound \in BoundType, tidy \in BOOLEAN,
           NEW r, RxOK(r), r.started, NEW update \in BOOLEAN, EndCycle(r, update)
    PROVE  /\ RxOK(rx')
           /\ net' = net \/ \E owds \in Minima : net' = SendTsu(net, owds)
           /\ bound' \in BoundType /\ tidy' \in BOOLEAN
<1> DEFINE u == UpdateMinOwdCheck(r)
<1> DEFINE m == [u EXCEPT !.on = FALSE, !.started = FALSE]
<1> DEFINE short == r.due /\ r.current # Links
<1>1. r \in RxType /\ ~ r.event
  BY DEF RxOK, RxPhase
<1>2. u \in RxType /\ u.event = r.event /\ \A link \in u.current : u.cur[link] # NoOwd
  <2>1. CASE r.due
    <3>1. u = [r EXCEPT !.last = r.cur, !.cur = NoneMeasured, !.current = {}, !.due = FALSE]
      BY <2>1 DEF UpdateMinOwdCheck
    <3> HIDE DEF u
    <3>2. QED
      BY <3>1, <1>1, NoneMeasuredType DEF RxType
  <2>2. CASE ~ r.due
    BY <1>1, <2>2 DEF UpdateMinOwdCheck, RxOK, RxPhase
  <2>3. QED
    BY <2>1, <2>2
<1>3. /\ short => bound.unsampled > 0
      /\ bound' = IF short THEN [bound EXCEPT !.unsampled = @ - 1] ELSE bound
      /\ tidy' = (tidy /\ ~ short)
      /\ \/ Reports(m) /\ rx' = Report(m) /\ net' = SendTsu(net, OwdVector(m))
         \/ rx' = m /\ net' = SendTsu(net, NoneMeasured)
         \/ rx' = MeasureCycleStart(m) /\ UNCHANGED net
  BY DEF EndCycle
<1> HIDE DEF u
<1>4. /\ m \in RxType /\ ~ m.on /\ ~ m.started /\ ~ m.event
      /\ \A link \in m.current : m.cur[link] # NoOwd
  BY <1>1, <1>2 DEF RxType
<1> HIDE DEF m, short
<1>5. bound' \in BoundType /\ tidy' \in BOOLEAN
  <2>1. tidy' \in BOOLEAN
    BY <1>3
  <2>2. short \in BOOLEAN
    BY DEF short
  <2>3. bound' \in BoundType
    BY <1>3, <2>2 DEF BoundType
  <2>4. QED
    BY <2>1, <2>3
<1>6. RxOK(m)
  BY <1>4 DEF RxOK, RxPhase
<1>7. RxOK(Report(m))
  <2>1. Report(m) = [m EXCEPT !.prev = m.last, !.cur = NoneMeasured, !.current = {}]
    BY DEF Report
  <2>2. m.last \in Minima \cup {Never}
    BY <1>4 DEF RxType
  <2>3. QED
    BY <2>1, <2>2, <1>4, NoneMeasuredType DEF RxOK, RxPhase, RxType
<1>8. RxOK(MeasureCycleStart(m))
  <2> DEFINE c == MeasureCycleStart(m)
  <2>1. c = [m EXCEPT !.index = 0, !.startNew = m.lastNew, !.on = TRUE, !.started = FALSE,
                    !.delayed = FALSE]
    BY DEF MeasureCycleStart
  <2>2. 0 \in 0 .. MaxMeasureInterval
    BY CycleAssumption
  <2> HIDE DEF c
  <2>3. c \in RxType
    BY <2>1, <2>2, <1>4 DEF RxType
  <2>4. /\ c.on /\ ~ c.started /\ ~ c.event /\ c.index = 0
        /\ c.current = m.current /\ c.cur = m.cur
    BY <2>1, <1>4 DEF RxType
  <2>5. QED
    BY <2>3, <2>4, <1>4 DEF RxOK, RxPhase, c
<1>9. Reports(m) => OwdVector(m) \in Minima
  BY <1>4, OwdVectorType DEF Reports
<1>10. QED
  BY <1>3, <1>5, <1>6, <1>7, <1>8, <1>9, NoneMeasuredType

\* The check at the end of every data packet.
LEMMA EndCheckOK ==
    ASSUME bound \in BoundType, tidy \in BOOLEAN,
           NEW r, RxOK(r), r.on, NEW over \in BOOLEAN, NEW converged \in BOOLEAN,
           NEW update \in BOOLEAN, MeasureIntervalEndCheck(r, over, converged, update)
    PROVE  /\ RxOK(rx')
           /\ net' = net \/ \E owds \in Minima : net' = SendTsu(net, owds)
           /\ bound' \in BoundType /\ tidy' \in BOOLEAN
<1>1. CASE ~ r.started \/ ~ over
  BY <1>1 DEF MeasureIntervalEndCheck
<1>2. CASE r.started /\ over /\ EndMeasurement(r, converged)
  <2>1. EndCycle(r, update)
    BY <1>2 DEF MeasureIntervalEndCheck
  <2>2. QED
    BY <1>2, <2>1, EndCycleOK
<1>3. CASE r.started /\ over /\ ~ EndMeasurement(r, converged)
  <2>1. rx' = MeasureIntervalStart(r) /\ UNCHANGED <<net, bound, tidy>>
    BY <1>3 DEF MeasureIntervalEndCheck
  <2>2. r.index < MaxMeasureInterval
    BY <1>3, CycleAssumption DEF EndMeasurement, RxOK, RxType
  <2>3. ~ r.event
    BY <1>3 DEF RxOK, RxPhase
  <2>4. QED
    BY <2>1, <2>2, <2>3, MeasureIntervalStartOK
<1>4. QED
  BY <1>1, <1>2, <1>3

-----------------------------------------------------------------------------
(***************************************************************************)
(* The wire.                                                               *)
(***************************************************************************)
ItemType == [csns : SUBSET Nat, owds : Minima]
TsuType == [csn : Nat, owds : Minima, left : 1 .. Cardinality(Links)]
TsaType == [csn : Nat, offset : [Links -> Int], delayed : BOOLEAN, new : BOOLEAN, first : BOOLEAN]
WireType ==
    [queue : SUBSET ItemType, nextCsn : Nat, maxTsu : Nat, maxTsa : Nat,
     tsus : SUBSET TsuType, tsas : SUBSET TsaType, adopted : SUBSET Nat]

\* Every csn in use was given out, and a TSA answers a TSU that was not newer than the
\* newest.
WireOK(n) ==
    /\ n \in WireType
    /\ \A item \in n.queue : \A c \in item.csns : c < n.nextCsn
    /\ n.maxTsu < n.nextCsn /\ n.maxTsa < n.nextCsn
    /\ \A m \in n.tsus : m.csn < n.nextCsn
    /\ \A t \in n.tsas : t.csn <= n.maxTsu

\* What Forget keeps, and the new number of a csn.
KeptTsus(n) == {m \in n.tsus : m.csn > n.maxTsu \/ Queued(n, m.csn)}
KeptTsas(n) == {m \in n.tsas : Queued(n, m.csn)}
KnownCsns(n) ==
    {n.maxTsu, n.maxTsa} \cup {m.csn : m \in KeptTsus(n)} \cup UNION {item.csns : item \in n.queue}
CsnRank(n, csn) == Cardinality({c \in KnownCsns(n) : c < csn})

\* Forget, in these terms.
LEMMA ForgetIs ==
    ASSUME NEW n
    PROVE  Forget(n) =
             [queue |-> {[item EXCEPT !.csns = {CsnRank(n, csn) : csn \in @}] : item \in n.queue},
              nextCsn |-> Cardinality(KnownCsns(n)),
              maxTsu |-> CsnRank(n, n.maxTsu),
              maxTsa |-> CsnRank(n, n.maxTsa),
              tsus |-> {[m EXCEPT !.csn = CsnRank(n, @)] : m \in KeptTsus(n)},
              tsas |-> {[m EXCEPT !.csn = CsnRank(n, @)] : m \in KeptTsas(n)},
              adopted |-> {CsnRank(n, csn) : csn \in n.adopted \cap KnownCsns(n)}]
  BY DEF Forget, CsnRank, KnownCsns, KeptTsus, KeptTsas

\* The new numbers are in the order of the old ones, and below the next.
LEMMA RankOrder ==
    ASSUME NEW n, WireOK(n)
    PROVE  /\ Cardinality(KnownCsns(n)) \in Nat
           /\ \A c \in Nat : CsnRank(n, c) \in Nat
           /\ \A c \in KnownCsns(n) : c \in Nat /\ CsnRank(n, c) < Cardinality(KnownCsns(n))
           /\ \A c, d \in KnownCsns(n) : c < d => CsnRank(n, c) < CsnRank(n, d)
           /\ \A c, d \in KnownCsns(n) : CsnRank(n, c) < CsnRank(n, d) <=> c < d
           /\ \A c, d \in KnownCsns(n) : CsnRank(n, c) = CsnRank(n, d) <=> c = d
<1> DEFINE K == KnownCsns(n)
<1>1. K \subseteq 0 .. n.nextCsn - 1 /\ K \subseteq Nat
  <2>1. n \in WireType /\ n.maxTsu \in Nat /\ n.maxTsa \in Nat /\ n.nextCsn \in Nat
    BY DEF WireOK, WireType
  <2>2. \A m \in KeptTsus(n) : m.csn \in Nat /\ m.csn < n.nextCsn
    BY <2>1 DEF WireOK, WireType, TsuType, KeptTsus
  <2>3. \A item \in n.queue : \A c \in item.csns : c \in Nat /\ c < n.nextCsn
    BY <2>1 DEF WireOK, WireType, ItemType
  <2>4. n.maxTsu < n.nextCsn /\ n.maxTsa < n.nextCsn
    BY DEF WireOK
  <2>5. \A c \in K : c \in Nat /\ c < n.nextCsn
    BY <2>1, <2>2, <2>3, <2>4 DEF KnownCsns
  <2> HIDE DEF K
  <2>6. QED
    BY <2>1, <2>5
<1>2. IsFiniteSet(K)
  <2>1. n.nextCsn - 1 \in Int
    BY DEF WireOK, WireType
  <2>2. IsFiniteSet(0 .. n.nextCsn - 1)
    BY <2>1, FS_Interval
  <2> HIDE DEF K
  <2>3. QED
    BY <1>1, <2>2, FS_Subset
<1> DEFINE Below(c) == {d \in K : d < c}
<1>3. Cardinality(K) = Cardinality(K) /\ \A c : CsnRank(n, c) = Cardinality(Below(c))
  BY DEF CsnRank
<1> HIDE DEF K
<1>4. \A c : /\ IsFiniteSet(Below(c)) /\ Cardinality(Below(c)) \in Nat
             /\ Below(c) \subseteq K
  BY <1>2, FS_Subset, FS_CardinalityType
<1>5. Cardinality(K) \in Nat
  BY <1>2, FS_CardinalityType
<1>6. ASSUME NEW c \in K
      PROVE  Cardinality(Below(c)) < Cardinality(K)
  <2>1. c \notin Below(c)
    BY <1>1
  <2>2. Below(c) # K /\ Below(c) \subseteq K
    BY <2>1
  <2> HIDE DEF Below
  <2>3. Cardinality(Below(c)) <= Cardinality(K) /\ Cardinality(Below(c)) # Cardinality(K)
    BY <2>2, <1>2, FS_Subset
  <2>4. QED
    BY <2>3, <1>4, <1>5
<1>7. ASSUME NEW c \in K, NEW d \in K, c < d
      PROVE  Cardinality(Below(c)) < Cardinality(Below(d))
  <2>1. c \notin Below(c) /\ c \in Below(d)
    BY <1>1, <1>7
  <2>2. Below(c) \subseteq Below(d)
    <3> SUFFICES ASSUME NEW x \in K, x < c
                 PROVE  x < d
      OBVIOUS
    <3>1. x \in Nat /\ c \in Nat /\ d \in Nat
      BY <1>1
    <3>2. QED
      BY <3>1, <1>7
  <2> HIDE DEF Below
  <2>3. Below(c) # Below(d)
    BY <2>1
  <2>4. Cardinality(Below(c)) <= Cardinality(Below(d)) /\ Cardinality(Below(c)) # Cardinality(Below(d))
    BY <2>2, <2>3, <1>4, FS_Subset
  <2>5. QED
    BY <2>4, <1>4
<1>8. \A c \in Nat : CsnRank(n, c) \in Nat
  BY <1>3, <1>4
<1>9. \A c \in K : c \in Nat /\ CsnRank(n, c) < Cardinality(K)
  BY <1>1, <1>3, <1>6
<1>10. \A c, d \in K : c < d => CsnRank(n, c) < CsnRank(n, d)
  BY <1>3, <1>7
<1>11. \A c, d \in K : /\ CsnRank(n, c) < CsnRank(n, d) <=> c < d
                       /\ CsnRank(n, c) = CsnRank(n, d) <=> c = d
  <2> SUFFICES ASSUME NEW c \in K, NEW d \in K
               PROVE  /\ CsnRank(n, c) < CsnRank(n, d) <=> c < d
                      /\ CsnRank(n, c) = CsnRank(n, d) <=> c = d
    OBVIOUS
  <2>1. CsnRank(n, c) \in Nat /\ CsnRank(n, d) \in Nat /\ c \in Nat /\ d \in Nat
    BY <1>8, <1>9
  <2>2. /\ c < d => CsnRank(n, c) < CsnRank(n, d)
        /\ d < c => CsnRank(n, d) < CsnRank(n, c)
    BY <1>10
  <2>3. QED
    BY <2>1, <2>2
<1>12. QED
  BY <1>3, <1>5, <1>8, <1>9, <1>10, <1>11 DEF K

\* Forgetting keeps the wire well formed.
LEMMA ForgetOK ==
    ASSUME NEW n, WireOK(n)
    PROVE  WireOK(Forget(n))
<1> DEFINE f == Forget(n)
<1> DEFINE R(c) == CsnRank(n, c)
<1>1. n \in WireType
  BY DEF WireOK
<1>2. /\ f.queue = {[item EXCEPT !.csns = {R(csn) : csn \in @}] : item \in n.queue}
      /\ f.nextCsn = Cardinality(KnownCsns(n))
      /\ f.maxTsu = R(n.maxTsu)
      /\ f.maxTsa = R(n.maxTsa)
      /\ f.tsus = {[m EXCEPT !.csn = R(@)] : m \in KeptTsus(n)}
      /\ f.tsas = {[m EXCEPT !.csn = R(@)] : m \in KeptTsas(n)}
      /\ f.adopted = {R(csn) : csn \in n.adopted \cap KnownCsns(n)}
      /\ f = [queue |-> f.queue, nextCsn |-> f.nextCsn, maxTsu |-> f.maxTsu, maxTsa |-> f.maxTsa,
              tsus |-> f.tsus, tsas |-> f.tsas, adopted |-> f.adopted]
  BY ForgetIs
<1> HIDE DEF f
<1>3. /\ f.nextCsn \in Nat
      /\ \A c \in Nat : R(c) \in Nat
      /\ \A c \in KnownCsns(n) : c \in Nat /\ R(c) < f.nextCsn
      /\ \A c, d \in KnownCsns(n) : R(c) < R(d) <=> c < d
  BY <1>2, RankOrder
<1> HIDE DEF R
<1>4. /\ n.maxTsu \in KnownCsns(n) /\ n.maxTsa \in KnownCsns(n)
      /\ \A m \in KeptTsus(n) : m.csn \in KnownCsns(n)
      /\ \A item \in n.queue : item.csns \subseteq KnownCsns(n)
      /\ \A t \in KeptTsas(n) : t.csn \in KnownCsns(n)
  BY DEF KnownCsns, KeptTsas, Queued
<1>5. \A item \in n.queue : /\ [item EXCEPT !.csns = {R(csn) : csn \in @}] \in ItemType
                            /\ \A c \in [item EXCEPT !.csns = {R(csn) : csn \in @}].csns : c < f.nextCsn
  BY <1>1, <1>3, <1>4 DEF WireType, ItemType
<1>6. \A m \in KeptTsus(n) : /\ [m EXCEPT !.csn = R(@)] \in TsuType
                             /\ [m EXCEPT !.csn = R(@)].csn < f.nextCsn
  BY <1>1, <1>3, <1>4 DEF WireType, TsuType, KeptTsus
<1>7. ASSUME NEW t \in KeptTsas(n)
      PROVE  /\ [t EXCEPT !.csn = R(@)] \in TsaType
             /\ [t EXCEPT !.csn = R(@)].csn <= f.maxTsu
  <2>1. t \in TsaType /\ t.csn \in Nat /\ t.csn <= n.maxTsu /\ n.maxTsu \in Nat
    BY <1>1 DEF WireOK, WireType, TsaType, KeptTsas
  <2>2. [t EXCEPT !.csn = R(@)] \in TsaType /\ [t EXCEPT !.csn = R(@)].csn = R(t.csn)
    BY <2>1, <1>3 DEF TsaType
  <2>3. R(t.csn) \in Nat /\ R(n.maxTsu) \in Nat /\ ~ (R(n.maxTsu) < R(t.csn))
    BY <2>1, <1>3, <1>4
  <2>4. QED
    BY <2>2, <2>3, <1>2
<1>8. f.maxTsu \in Nat /\ f.maxTsa \in Nat /\ f.maxTsu < f.nextCsn /\ f.maxTsa < f.nextCsn
  BY <1>2, <1>3, <1>4
<1>9. f.queue \subseteq ItemType /\ \A item \in f.queue : \A c \in item.csns : c < f.nextCsn
  BY <1>2, <1>5
<1>10. f.tsus \subseteq TsuType /\ \A m \in f.tsus : m.csn < f.nextCsn
  BY <1>2, <1>6
<1>11. f.tsas \subseteq TsaType /\ \A t \in f.tsas : t.csn <= f.maxTsu
  BY <1>2, <1>7
<1>12. f.adopted \subseteq Nat
  BY <1>2, <1>3
<1>13. f \in WireType
  BY <1>2, <1>3, <1>8, <1>9, <1>10, <1>11, <1>12 DEF WireType
<1>14. QED
  BY <1>8, <1>9, <1>10, <1>11, <1>13 DEF WireOK, f

\* There are links, so a TSU has a copy on its way.
LEMMA SomeCopies == Cardinality(Links) \in Nat \ {0}
<1>1. Cardinality(Links) \in Nat
  BY LinksAssumption, FS_CardinalityType
<1>2. Cardinality(Links) # 0
  BY LinksAssumption, FS_EmptySet
<1>3. QED
  BY <1>1, <1>2

\* What SendTsu adds to the wire.
LEMMA SendTsuIs ==
    ASSUME NEW n, WireOK(n), NEW owds \in Minima
    PROVE  LET f == SendTsu(n, owds)
               copies == [csn |-> n.nextCsn, owds |-> owds, left |-> Cardinality(Links)]
           IN  /\ f = [n EXCEPT !.queue = n.queue \cup {[csns |-> {n.nextCsn}, owds |-> owds]},
                                !.tsus = n.tsus \cup {copies},
                                !.nextCsn = n.nextCsn + 1]
               /\ f.queue = n.queue \cup {[csns |-> {n.nextCsn}, owds |-> owds]}
               /\ f.tsus = n.tsus \cup {copies}
               /\ f.nextCsn = n.nextCsn + 1
               /\ f.maxTsu = n.maxTsu /\ f.maxTsa = n.maxTsa /\ f.tsas = n.tsas
               /\ copies \in TsuType
               /\ f \in WireType
<1> DEFINE f == SendTsu(n, owds)
<1> DEFINE copies == [csn |-> n.nextCsn, owds |-> owds, left |-> Cardinality(Links)]
<1> DEFINE queue == n.queue \cup {[csns |-> {n.nextCsn}, owds |-> owds]}
<1> DEFINE tsus == n.tsus \cup {copies}
<1>1. n \in WireType /\ n.nextCsn \in Nat
  BY DEF WireOK, WireType
<1>2. f = [n EXCEPT !.queue = queue, !.tsus = tsus, !.nextCsn = n.nextCsn + 1]
  BY DEF SendTsu, Copies
<1>3. copies \in TsuType
  BY <1>1, SomeCopies DEF TsuType
<1>4. queue \in SUBSET ItemType /\ tsus \in SUBSET TsuType
  <2>1. [csns |-> {n.nextCsn}, owds |-> owds] \in ItemType
    BY <1>1 DEF ItemType
  <2>2. QED
    BY <1>1, <1>3, <2>1 DEF WireType
<1> HIDE DEF f, queue, tsus, copies
<1> DEFINE next == n.nextCsn + 1
<1>5. next \in Nat /\ f = [n EXCEPT !.queue = queue, !.tsus = tsus, !.nextCsn = next]
  BY <1>1, <1>2
<1> HIDE DEF next
<1>6. f \in WireType
  BY <1>1, <1>4, <1>5 DEF WireType
<1>7. /\ f.queue = queue /\ f.tsus = tsus /\ f.nextCsn = next
      /\ f.maxTsu = n.maxTsu /\ f.maxTsa = n.maxTsa /\ f.tsas = n.tsas
  BY <1>1, <1>5 DEF WireType
<1>8. QED
  BY <1>2, <1>3, <1>6, <1>7 DEF next, f, queue, tsus, copies

\* A new TSU keeps the wire well formed.
LEMMA SendTsuOK ==
    ASSUME NEW n, WireOK(n), NEW owds \in Minima
    PROVE  WireOK(SendTsu(n, owds))
<1> DEFINE f == SendTsu(n, owds)
<1> DEFINE copies == [csn |-> n.nextCsn, owds |-> owds, left |-> Cardinality(Links)]
<1>1. /\ f.queue = n.queue \cup {[csns |-> {n.nextCsn}, owds |-> owds]}
      /\ f.tsus = n.tsus \cup {copies}
      /\ f.nextCsn = n.nextCsn + 1
      /\ f.maxTsu = n.maxTsu /\ f.maxTsa = n.maxTsa /\ f.tsas = n.tsas
      /\ f \in WireType
  BY SendTsuIs
<1>2. n \in WireType /\ n.nextCsn \in Nat /\ n.maxTsu \in Nat /\ n.maxTsa \in Nat
  BY DEF WireOK, WireType
<1> HIDE DEF f
<1>3. \A item \in f.queue : \A c \in item.csns : c < f.nextCsn
  <2>1. ASSUME NEW item \in n.queue, NEW c \in item.csns
        PROVE  c < n.nextCsn + 1
    BY <1>2, <2>1 DEF WireOK, WireType, ItemType
  <2>2. n.nextCsn < n.nextCsn + 1
    BY <1>2
  <2>3. QED
    BY <1>1, <2>1, <2>2
<1>4. \A m \in f.tsus : m.csn < f.nextCsn
  <2>1. ASSUME NEW m \in n.tsus
        PROVE  m.csn < n.nextCsn + 1
    BY <1>2, <2>1 DEF WireOK, WireType, TsuType
  <2>2. n.nextCsn < n.nextCsn + 1
    BY <1>2
  <2>3. QED
    BY <1>1, <2>1, <2>2
<1>5. f.maxTsu < f.nextCsn /\ f.maxTsa < f.nextCsn
  BY <1>1, <1>2 DEF WireOK
<1>6. QED
  BY <1>1, <1>3, <1>4, <1>5 DEF WireOK, f

\* One copy less: what is left are TSUs that were there.
LEMMA OneLessIs ==
    ASSUME NEW tsus \in SUBSET TsuType, NEW m \in tsus
    PROVE  /\ OneLess(tsus, m) \in SUBSET TsuType
           /\ \A x \in OneLess(tsus, m) : \E y \in tsus : x.csn = y.csn /\ x.owds = y.owds
<1>1. OneLess(tsus, m) =
        (tsus \ {m}) \cup (IF m.left = 1 THEN {} ELSE {[m EXCEPT !.left = m.left - 1]})
  BY DEF OneLess
<1>2. m.left # 1 => /\ [m EXCEPT !.left = m.left - 1] \in TsuType
                    /\ [m EXCEPT !.left = m.left - 1].csn = m.csn
                    /\ [m EXCEPT !.left = m.left - 1].owds = m.owds
  BY SomeCopies DEF TsuType
<1>3. QED
  BY <1>1, <1>2

\* A message less on the wire, and an item less in the queue.
LEMMA FewerOK ==
    ASSUME NEW n, WireOK(n), NEW tsus \in SUBSET TsuType, NEW tsas \in SUBSET n.tsas,
           NEW queue \in SUBSET n.queue,
           \A x \in tsus : \E y \in n.tsus : x.csn = y.csn
    PROVE  WireOK([n EXCEPT !.tsus = tsus, !.tsas = tsas, !.queue = queue])
<1> DEFINE f == [n EXCEPT !.tsus = tsus, !.tsas = tsas, !.queue = queue]
<1>1. n \in WireType
  BY DEF WireOK
<1>2. tsas \in SUBSET TsaType /\ queue \in SUBSET ItemType
  BY <1>1 DEF WireType
<1>3. /\ f \in WireType
      /\ f.queue = queue /\ f.tsus = tsus /\ f.tsas = tsas
      /\ f.nextCsn = n.nextCsn /\ f.maxTsu = n.maxTsu /\ f.maxTsa = n.maxTsa
  BY <1>1, <1>2 DEF WireType
<1> HIDE DEF f
<1>4. \A x \in tsus : x.csn < n.nextCsn
  BY DEF WireOK
<1>5. QED
  BY <1>3, <1>4 DEF WireOK, f

-----------------------------------------------------------------------------
(***************************************************************************)
(* Types of the loop.                                                      *)
(***************************************************************************)
TypeInv ==
    /\ base \in [Links -> Nat]
    /\ m_emulateDelay \in [Links -> Nat] /\ SomeLinkUndelayed
    /\ before \in [Links -> Nat]
    /\ passed \in Nat \cup {-1}
    /\ RxOK(rx)
    /\ WireOK(net)
    /\ bound \in BoundType
    /\ tidy \in BOOLEAN
    /\ overtaken \in BOOLEAN

\* The invariant is stronger than the type invariant of the module.
LEMMA TypeInvIsStronger == TypeInv => CycleTypeOK
<1> SUFFICES ASSUME TypeInv
             PROVE  CycleTypeOK
  OBVIOUS
<1>1. rx \in RxType
  BY DEF TypeInv, RxOK
<1>2. net \in WireType /\ net.nextCsn \in Nat
  BY DEF TypeInv, WireOK, WireType
<1>3. \A item \in net.queue : item.csns \subseteq Nat /\ item.owds \in Minima
  BY <1>2 DEF WireType, ItemType
<1>4. \A m \in net.tsus : m.csn < net.nextCsn /\ m.left \in 1 .. Cardinality(Links)
  BY <1>2 DEF TypeInv, WireOK, WireType, TsuType
<1>5. \A t \in net.tsas : t.csn <= net.maxTsu /\ t.offset \in [Links -> Int]
  BY <1>2 DEF TypeInv, WireOK, WireType, TsaType
<1>6. {net.maxTsa, net.maxTsu} \subseteq 0 .. net.nextCsn - 1
  BY <1>2 DEF TypeInv, WireOK, WireType
<1>7. QED
  BY <1>1, <1>3, <1>4, <1>5, <1>6 DEF TypeInv, CycleTypeOK, RxType, Minima, BoundType

\* The types hold at the start.
LEMMA InitTypeInv == CycleInit => TypeInv
<1> SUFFICES ASSUME CycleInit
             PROVE  TypeInv
  OBVIOUS
<1>1. base \in [Links -> Nat]
  BY CycleAssumption DEF CycleInit
<1>2. /\ m_emulateDelay \in [Links -> Nat] /\ before \in [Links -> Nat]
      /\ SomeLinkUndelayed
  <2>1. PICK link \in Links : TRUE
    BY LinksAssumption
  <2>2. m_emulateDelay = [l \in Links |-> 0] /\ before = [l \in Links |-> 0]
    BY DEF CycleInit, NoDelay
  <2>3. QED
    BY <2>1, <2>2 DEF SomeLinkUndelayed
<1>3. passed \in Nat
  <2> DEFINE f == base
  <2>1. \A link \in Links : f[link] \in Nat
    BY <1>1
  <2>2. passed = Max({f[link] : link \in Links})
    BY DEF CycleInit
  <2> HIDE DEF f
  <2>3. QED
    BY <2>1, <2>2, MaxOfLinks, LinksAssumption
<1>4. RxOK(rx)
  <2>1. 0 \in 0 .. MaxMeasureInterval
    BY CycleAssumption
  <2>2. rx \in RxType
    BY <2>1, NoneMeasuredType DEF CycleInit, RxType
  <2>3. RxPhase(rx)
    BY DEF CycleInit, RxPhase
  <2>4. QED
    BY <2>2, <2>3 DEF RxOK
<1>5. WireOK(net)
  BY DEF CycleInit, WireOK, WireType
<1>6. bound \in BoundType
  BY CycleAssumption DEF CycleInit, BoundType
<1>7. QED
  BY <1>1, <1>2, <1>3, <1>4, <1>5, <1>6 DEF TypeInv, CycleInit

\* The largest delay of the packets that arrived stays a number, or none.
LEMMA ArrivesType ==
    ASSUME TypeInv, NEW link \in Links, NEW new \in BOOLEAN, Arrives(link, new)
    PROVE  /\ passed' \in Nat \cup {-1}
           /\ new => passed' >= Owd(link, TRUE) /\ passed' >= passed
           /\ ~ new => passed' = passed /\ Owd(link, FALSE) > passed
<1> DEFINE owd == Owd(link, TRUE)
<1> DEFINE owdBefore == Owd(link, FALSE)
<1>1. owd \in Nat /\ passed \in Nat \cup {-1}
  <2>1. base[link] \in Nat /\ m_emulateDelay[link] \in Nat /\ passed \in Nat \cup {-1}
    BY DEF TypeInv
  <2>2. owd = base[link] + m_emulateDelay[link]
    BY OwdType DEF TypeInv
  <2> HIDE DEF owd
  <2>3. QED
    BY <2>1, <2>2
<1>2. /\ new \/ owdBefore > passed
      /\ passed' = IF new THEN Max({passed, owd}) ELSE passed
  BY DEF Arrives
<1> HIDE DEF owd, owdBefore
<1>3. Max({passed, owd}) = IF passed >= owd THEN passed ELSE owd
  BY <1>1, MaxOfTwo
<1>4. /\ passed' \in Nat \cup {-1}
      /\ new => passed' >= owd /\ passed' >= passed
      /\ ~ new => passed' = passed /\ owdBefore > passed
  <2>1. CASE new
    BY <1>1, <1>2, <1>3, <2>1
  <2>2. CASE ~ new
    BY <1>1, <1>2, <2>2
  <2>3. QED
    BY <2>1, <2>2
<1>5. QED
  BY <1>4 DEF owd, owdBefore

\* A data packet keeps the types.
LEMMA ReceiveType ==
    ASSUME TypeInv, NEW link \in Links, NEW new \in BOOLEAN, NEW inOrder \in BOOLEAN,
           NEW over \in BOOLEAN, NEW converged \in BOOLEAN, NEW update \in BOOLEAN,
           Receive(link, new, inOrder, over, converged, update)
    PROVE  TypeInv'
<1> DEFINE r == IF inOrder THEN MeasureIntervalStartCheck(rx, new) ELSE rx
<1> DEFINE s == Sample(r, link, new)
<1>1. /\ rx.on
      /\ Arrives(link, new)
      /\ MeasureIntervalEndCheck(s, over, converged, update)
      /\ UNCHANGED <<base, m_emulateDelay, before, overtaken>>
  BY DEF Receive
<1>2. RxOK(r) /\ r.on
  <2>1. CASE inOrder
    BY <1>1, <2>1, StartCheckOK DEF TypeInv
  <2>2. CASE ~ inOrder
    BY <1>1, <2>2 DEF TypeInv
  <2>3. QED
    BY <2>1, <2>2
<1>3. Owd(link, new) \in Nat
  BY OwdType DEF TypeInv
<1> HIDE DEF r
<1>4. RxOK(s) /\ s.on
  BY <1>2, <1>3, SampleOK
<1> HIDE DEF s
<1>5. /\ RxOK(rx')
      /\ net' = net \/ \E owds \in Minima : net' = SendTsu(net, owds)
      /\ bound' \in BoundType /\ tidy' \in BOOLEAN
  BY <1>1, <1>4, EndCheckOK DEF TypeInv
<1>6. WireOK(net')
  BY <1>5, SendTsuOK DEF TypeInv
<1>7. passed' \in Nat \cup {-1}
  BY <1>1, ArrivesType
<1>8. SomeLinkUndelayed'
  BY <1>1 DEF TypeInv, SomeLinkUndelayed
<1>9. QED
  BY <1>1, <1>5, <1>6, <1>7, <1>8 DEF TypeInv

\* So does a probe or an acknowledgement.
LEMMA ReceiveCtrlType ==
    ASSUME TypeInv, NEW link \in Links, NEW new \in BOOLEAN,
           ReceiveCtrl(link, new)
    PROVE  TypeInv'
<1>1. /\ Arrives(link, new)
      /\ rx' = Sample(rx, link, new)
      /\ UNCHANGED <<base, m_emulateDelay, before, net, bound, tidy, overtaken>>
  BY DEF ReceiveCtrl
<1>2. Owd(link, new) \in Nat
  BY OwdType DEF TypeInv
<1>3. RxOK(rx')
  BY <1>1, <1>2, SampleOK DEF TypeInv
<1>4. passed' \in Nat \cup {-1}
  BY <1>1, ArrivesType
<1>5. SomeLinkUndelayed'
  BY <1>1 DEF TypeInv, SomeLinkUndelayed
<1>6. QED
  BY <1>1, <1>3, <1>4, <1>5 DEF TypeInv

\* The TSA of an adopted TSU.
AdoptTsa(m, delayed) ==
    [csn |-> m.csn, offset |-> DelayOffset(m.owds), delayed |-> delayed, new |-> TRUE, first |-> TRUE]

\* What the adoption of a TSU does.
LEMMA AdoptIs ==
    ASSUME TypeInv, NEW m \in net.tsus, NEW delayed \in BOOLEAN,
           m.csn > net.maxTsu, Adopt(m, delayed)
    PROVE  LET reply == AdoptTsa(m, delayed)
           IN  /\ m_emulateDelay' = NewDelay(m.owds) /\ before' = m_emulateDelay /\ passed' = -1
               /\ rx' = Aged(rx) /\ overtaken' \in BOOLEAN
               /\ WireOK(net')
               /\ net'.queue = net.queue /\ net'.maxTsu = m.csn /\ net'.maxTsa = net.maxTsa
               /\ net'.tsus = OneLess(net.tsus, m)
               /\ \A x \in net'.tsas : x = reply \/ \E t \in net.tsas : x = [t EXCEPT !.new = FALSE]
               /\ reply.csn = m.csn /\ reply.offset = DelayOffset(m.owds) /\ reply.new = TRUE
<1> DEFINE reply == AdoptTsa(m, delayed)
<1> DEFINE tsas == {[t EXCEPT !.new = FALSE] : t \in net.tsas} \cup {reply}
<1> DEFINE tsus == OneLess(net.tsus, m)
<1> DEFINE adopted == net.adopted \cup {m.csn}
<1> DEFINE f == [net EXCEPT !.maxTsu = m.csn, !.adopted = adopted, !.tsus = tsus, !.tsas = tsas]
<1>1. m \in TsuType /\ m.owds \in Minima /\ m.csn \in Nat /\ WireOK(net)
  BY DEF TypeInv, WireOK, WireType, TsuType
<1>2. DelayOffset(m.owds) \in [Links -> Int]
  BY <1>1, NewDelaysOfAny DEF TypeInv, Minima
<1>3. reply \in TsaType /\ reply.csn = m.csn /\ reply.offset = DelayOffset(m.owds) /\ reply.new = TRUE
  BY <1>1, <1>2 DEF AdoptTsa, TsaType
<1>4. /\ m_emulateDelay' = NewDelay(m.owds) /\ before' = m_emulateDelay /\ passed' = -1
      /\ rx' = Aged(rx) /\ overtaken' \in BOOLEAN
  BY DEF Adopt, TypeInv
<1>5. net' = f
  BY DEF Adopt, AdoptTsa
<1> HIDE DEF reply
<1>6. \A x \in tsas : x = reply \/ \E t \in net.tsas : x = [t EXCEPT !.new = FALSE]
  OBVIOUS
<1> HIDE DEF tsas
<1>7. /\ tsus \in SUBSET TsuType
      /\ \A x \in tsus : \E y \in net.tsus : x.csn = y.csn
      /\ adopted \in SUBSET Nat
      /\ net.maxTsu < m.csn /\ m.csn < net.nextCsn
  <2>1. net.tsus \in SUBSET TsuType /\ net.adopted \in SUBSET Nat /\ net.maxTsu \in Nat
    BY <1>1 DEF WireOK, WireType
  <2>2. /\ tsus \in SUBSET TsuType
        /\ \A x \in tsus : \E y \in net.tsus : x.csn = y.csn
    BY <2>1, OneLessIs
  <2>3. QED
    BY <1>1, <2>1, <2>2 DEF WireOK
<1>8. tsas \in SUBSET TsaType /\ \A t \in tsas : t.csn <= m.csn
  <2>1. ASSUME NEW t \in net.tsas
        PROVE  [t EXCEPT !.new = FALSE] \in TsaType /\ [t EXCEPT !.new = FALSE].csn <= m.csn
    <3>1. t \in TsaType /\ t.csn \in Nat /\ t.csn <= net.maxTsu /\ net.maxTsu \in Nat
      BY <1>1 DEF WireOK, WireType, TsaType
    <3>2. [t EXCEPT !.new = FALSE] \in TsaType /\ [t EXCEPT !.new = FALSE].csn = t.csn
      BY <3>1 DEF TsaType
    <3>3. QED
      BY <1>1, <3>1, <3>2
  <2>2. reply.csn <= m.csn
    BY <1>1, <1>3
  <2>3. QED
    BY <1>3, <1>6, <2>1, <2>2
<1> HIDE DEF tsus, adopted
<1>9. /\ WireOK(f)
      /\ f.queue = net.queue /\ f.maxTsu = m.csn /\ f.maxTsa = net.maxTsa
      /\ f.tsus = tsus /\ f.tsas = tsas
  <2>1. net \in WireType
    BY <1>1 DEF WireOK
  <2>2. /\ f \in WireType
        /\ f.queue = net.queue /\ f.maxTsu = m.csn /\ f.maxTsa = net.maxTsa
        /\ f.tsus = tsus /\ f.tsas = tsas /\ f.nextCsn = net.nextCsn
    BY <1>1, <1>7, <1>8, <2>1 DEF WireType
  <2> HIDE DEF f
  <2>3. \A x \in tsus : x.csn < net.nextCsn
    BY <1>1, <1>7 DEF WireOK
  <2>4. WireOK(f)
    BY <1>1, <1>7, <1>8, <2>2, <2>3 DEF WireOK
  <2>5. QED
    BY <2>2, <2>4
<1> HIDE DEF f
<1>10. QED
  BY <1>3, <1>4, <1>5, <1>6, <1>9 DEF reply, tsus

\* The wire after any other TSU, before Forget.
LEMMA AnswerWire ==
    ASSUME NEW n, WireOK(n), NEW m \in n.tsus, m.csn <= n.maxTsu
    PROVE  LET reply == [csn |-> m.csn, offset |-> NoDelay, delayed |-> FALSE,
                       new |-> TRUE, first |-> FALSE]
               f == [n EXCEPT !.tsus = OneLess(n.tsus, m), !.tsas = n.tsas \cup {reply}]
           IN  /\ WireOK(f)
               /\ f.queue = n.queue /\ f.maxTsu = n.maxTsu /\ f.maxTsa = n.maxTsa
               /\ f.tsus = OneLess(n.tsus, m)
               /\ f.tsas = n.tsas \cup {reply}
<1> DEFINE tsa1 == [csn |-> m.csn, offset |-> NoDelay, delayed |-> FALSE,
                    new |-> TRUE, first |-> FALSE]
<1> DEFINE tsas == n.tsas \cup {tsa1}
<1> DEFINE tsus == OneLess(n.tsus, m)
<1> DEFINE f == [n EXCEPT !.tsus = tsus, !.tsas = tsas]
<1>1. /\ n \in WireType /\ n.tsus \in SUBSET TsuType /\ n.tsas \in SUBSET TsaType
      /\ m \in TsuType /\ m.csn \in Nat /\ n.maxTsu \in Nat
  BY DEF WireOK, WireType, TsuType
<1>2. /\ tsus \in SUBSET TsuType
      /\ \A x \in tsus : \E y \in n.tsus : x.csn = y.csn
  BY <1>1, OneLessIs
<1>3. tsas \in SUBSET TsaType /\ \A t \in tsas : t.csn <= n.maxTsu
  <2>1. tsa1 \in TsaType /\ tsa1.csn <= n.maxTsu
    BY <1>1, NoneMeasuredType DEF TsaType
  <2> HIDE DEF tsa1
  <2>2. QED
    BY <1>1, <2>1 DEF WireOK
<1> HIDE DEF tsas, tsus
<1>4. /\ f \in WireType
      /\ f.queue = n.queue /\ f.maxTsu = n.maxTsu /\ f.maxTsa = n.maxTsa
      /\ f.tsus = tsus /\ f.tsas = tsas /\ f.nextCsn = n.nextCsn
  BY <1>1, <1>2, <1>3 DEF WireType
<1> HIDE DEF f
<1>5. WireOK(f)
  <2>1. \A x \in tsus : x.csn < n.nextCsn
    BY <1>2 DEF WireOK
  <2>2. QED
    BY <1>3, <1>4, <2>1 DEF WireOK
<1>6. QED
  BY <1>4, <1>5 DEF f, tsas, tsus

\* What the receiver knows ages.
LEMMA AgedOK ==
    ASSUME NEW r, RxOK(r)
    PROVE  RxOK(Aged(r))
<1>1. Aged(r) = [r EXCEPT !.startNew = FALSE, !.lastNew = FALSE, !.current = {}]
  BY DEF Aged
<1>2. QED
  BY <1>1 DEF RxOK, RxType, RxPhase

\* A TSU keeps the types, adopted or answered with zeros.
LEMMA RecvTsuType ==
    ASSUME TypeInv, NEW m \in net.tsus, NEW delayed \in BOOLEAN,
           RecvTsu(m, delayed)
    PROVE  TypeInv'
<1>1. m \in TsuType /\ m.owds \in Minima
  BY DEF TypeInv, WireOK, WireType, TsuType
<1>2. UNCHANGED <<base, bound, tidy>>
  BY DEF RecvTsu
<1>3. CASE m.csn > net.maxTsu /\ Adopt(m, delayed)
  <2>1. /\ NewDelay(m.owds) \in [Links -> Nat]
        /\ \E link \in Links : NewDelay(m.owds)[link] = 0
    BY <1>1, NewDelaysOfAny DEF TypeInv, Minima
  <2>2. /\ m_emulateDelay' = NewDelay(m.owds)
        /\ before' = m_emulateDelay
        /\ passed' = -1
        /\ rx' = Aged(rx)
        /\ overtaken' \in BOOLEAN
        /\ WireOK(net')
    BY <1>3, AdoptIs
  <2>3. SomeLinkUndelayed'
    BY <2>1, <2>2 DEF SomeLinkUndelayed
  <2>4. RxOK(rx')
    BY <2>2, AgedOK DEF TypeInv
  <2>5. QED
    BY <1>2, <2>1, <2>2, <2>3, <2>4 DEF TypeInv
<1>4. CASE /\ m.csn <= net.maxTsu /\ ~ delayed
           /\ net' = Forget([net EXCEPT !.tsus = OneLess(@, m),
                                             !.tsas = @ \cup {[csn |-> m.csn, offset |-> NoDelay,
                                                               delayed |-> FALSE, new |-> TRUE,
                                                               first |-> FALSE]}])
           /\ UNCHANGED <<m_emulateDelay, before, passed, rx, overtaken>>
  <2>1. WireOK(net')
    BY <1>4, AnswerWire, ForgetOK DEF TypeInv
  <2>2. SomeLinkUndelayed'
    BY <1>4 DEF TypeInv, SomeLinkUndelayed
  <2>3. QED
    BY <1>2, <1>4, <2>1, <2>2 DEF TypeInv
<1>5. QED
  BY <1>3, <1>4 DEF RecvTsu

\* The first TSA of a TSU starts a cycle.
LEMMA StartByTsaOK ==
    ASSUME NEW r, RxOK(r), NEW t \in TsaType
    PROVE  LET s == MeasureCycleStartByTsa(r, t)
           IN  /\ RxOK(s)
               /\ s.on /\ ~ s.started /\ s.startNew = t.new /\ s.adj = t.offset
               /\ s.cur = r.cur /\ s.last = r.last /\ s.prev = r.prev /\ s.event = r.event
<1> DEFINE s == MeasureCycleStartByTsa(r, t)
<1>1. s = [r EXCEPT !.index = 0, !.startNew = t.new, !.on = TRUE, !.started = FALSE,
                    !.delayed = t.delayed, !.adj = t.offset]
  BY DEF MeasureCycleStartByTsa
<1>2. 0 \in 0 .. MaxMeasureInterval /\ r \in RxType
  BY CycleAssumption DEF RxOK
<1>3. t.new \in BOOLEAN /\ t.delayed \in BOOLEAN /\ t.offset \in [Links -> Int]
  BY DEF TsaType
<1> HIDE DEF s
<1>4. s \in RxType
  BY <1>1, <1>2, <1>3 DEF RxType
<1>5. /\ s.on /\ ~ s.started /\ s.startNew = t.new /\ s.adj = t.offset /\ s.index = 0
      /\ s.cur = r.cur /\ s.last = r.last /\ s.prev = r.prev /\ s.event = r.event
      /\ s.current = r.current
  BY <1>1, <1>2, <1>3 DEF RxType
<1>6. RxOK(s)
  BY <1>4, <1>5 DEF RxOK, RxPhase
<1>7. QED
  BY <1>5, <1>6 DEF s

\* A TSA keeps the types, whether it starts a cycle or not.
LEMMA RecvTsaType ==
    ASSUME TypeInv, NEW t \in net.tsas, RecvTsa(t)
    PROVE  TypeInv'
<1> DEFINE settled == {item \in net.queue : t.csn \in item.csns}
<1> DEFINE n == [net EXCEPT !.tsas = net.tsas \ {t}, !.queue = net.queue \ settled]
<1>1. t \in TsaType /\ t.csn \in Nat /\ t.csn <= net.maxTsu
  BY DEF TypeInv, WireOK, WireType, TsaType
<1>2. /\ UNCHANGED <<base, m_emulateDelay, before, passed, bound, overtaken>>
      /\ \/ /\ rx' = MeasureCycleStartByTsa(rx, t)
            /\ net' = Forget([n EXCEPT !.maxTsa = t.csn])
            /\ tidy' = (tidy /\ t.first)
         \/ /\ net' = Forget(n)
            /\ UNCHANGED <<rx, tidy>>
  BY DEF RecvTsa
<1>3. WireOK(n)
  <2>1. net.tsas \ {t} \in SUBSET net.tsas /\ net.queue \ settled \in SUBSET net.queue
    OBVIOUS
  <2>2. net \in WireType /\ net.tsus \in SUBSET TsuType
    BY DEF TypeInv, WireOK, WireType
  <2>3. n = [net EXCEPT !.tsus = net.tsus, !.tsas = net.tsas \ {t}, !.queue = net.queue \ settled]
    BY <2>2 DEF WireType
  <2> HIDE DEF settled, n
  <2>4. QED
    BY <2>1, <2>2, <2>3, FewerOK DEF TypeInv
<1>4. n.maxTsu = net.maxTsu /\ n.nextCsn = net.nextCsn
  BY DEF TypeInv, WireOK, WireType
<1> HIDE DEF n
<1>5. WireOK([n EXCEPT !.maxTsa = t.csn])
  <2>1. n \in WireType /\ n.maxTsu \in Nat /\ n.nextCsn \in Nat /\ t.csn < n.nextCsn
    BY <1>1, <1>3, <1>4 DEF WireOK, WireType
  <2>2. QED
    BY <1>1, <1>3, <2>1 DEF WireOK, WireType
<1>6. WireOK(net')
  BY <1>2, <1>3, <1>5, ForgetOK
<1>7. RxOK(rx') /\ tidy' \in BOOLEAN
  <2>1. t.first \in BOOLEAN
    BY <1>1 DEF TsaType
  <2>2. QED
    BY <1>1, <1>2, <2>1, StartByTsaOK DEF TypeInv
<1>8. SomeLinkUndelayed'
  BY <1>2 DEF TypeInv, SomeLinkUndelayed
<1>9. QED
  BY <1>2, <1>6, <1>7, <1>8 DEF TypeInv

\* A repeated TSU has a csn that was not in use.
LEMMA RetxType ==
    ASSUME TypeInv, NEW item \in net.queue, RetxCtrlMsgExpires(item)
    PROVE  TypeInv'
<1> DEFINE csns == item.csns \cup {net.nextCsn}
<1> DEFINE again == [item EXCEPT !.csns = csns]
<1> DEFINE queue == (net.queue \ {item}) \cup {again}
<1> DEFINE f == SendTsu(net, item.owds)
<1>1. /\ item \in ItemType /\ item.csns \in SUBSET Nat /\ item.owds \in Minima
      /\ net \in WireType /\ net.nextCsn \in Nat
  BY DEF TypeInv, WireOK, WireType, ItemType
<1>2. again \in ItemType /\ again.csns = csns
  BY <1>1 DEF ItemType
<1>3. /\ UNCHANGED <<base, m_emulateDelay, before, passed, rx, overtaken>>
      /\ bound.retx > 0 /\ bound' = [bound EXCEPT !.retx = @ - 1] /\ tidy' = FALSE
      /\ net' = [net EXCEPT !.queue = queue,
                            !.tsus = net.tsus \cup {[csn |-> net.nextCsn, owds |-> item.owds,
                                                     left |-> Cardinality(Links)]},
                            !.nextCsn = net.nextCsn + 1]
  BY DEF RetxCtrlMsgExpires, Copies
<1>4. /\ f = [net EXCEPT !.queue = net.queue \cup {[csns |-> {net.nextCsn}, owds |-> item.owds]},
                         !.tsus = net.tsus \cup {[csn |-> net.nextCsn, owds |-> item.owds,
                                                  left |-> Cardinality(Links)]},
                         !.nextCsn = net.nextCsn + 1]
      /\ f.nextCsn = net.nextCsn + 1 /\ f \in WireType
  BY <1>1, SendTsuIs DEF TypeInv
<1>5. WireOK(f)
  BY <1>1, SendTsuOK DEF TypeInv
<1>6. net' = [f EXCEPT !.queue = queue]
  BY <1>1, <1>3, <1>4 DEF WireType
<1>7. queue \in SUBSET ItemType
  BY <1>1, <1>2 DEF WireType
<1>8. \A i \in queue : \A c \in i.csns : c < net.nextCsn + 1
  <2>1. ASSUME NEW i \in net.queue, NEW c \in i.csns
        PROVE  c < net.nextCsn /\ c \in Nat
    BY DEF TypeInv, WireOK, WireType, ItemType
  <2>2. ASSUME NEW c \in again.csns
        PROVE  c < net.nextCsn + 1
    <3>1. c \in item.csns \/ c = net.nextCsn
      BY <1>2
    <3>2. QED
      BY <1>1, <2>1, <3>1
  <2> HIDE DEF again
  <2>3. QED
    BY <1>1, <2>1, <2>2
<1> HIDE DEF f, queue
<1>9. WireOK(net')
  BY <1>4, <1>5, <1>6, <1>7, <1>8 DEF WireOK, WireType
<1>10. bound' \in BoundType
  BY <1>3 DEF TypeInv, BoundType
<1>11. SomeLinkUndelayed'
  BY <1>3 DEF TypeInv, SomeLinkUndelayed
<1>12. QED
  BY <1>3, <1>9, <1>10, <1>11 DEF TypeInv

\* A lost message leaves the others.
LEMMA LoseType ==
    ASSUME TypeInv, Lose
    PROVE  TypeInv'
<1>1. net \in WireType /\ net.tsus \in SUBSET TsuType
  BY DEF TypeInv, WireOK, WireType
<1>2. UNCHANGED <<base, m_emulateDelay, before, passed, rx, bound, tidy, overtaken>>
  BY DEF Lose
<1>3. WireOK(net')
  <2>1. ASSUME NEW m \in net.tsus, net' = Forget([net EXCEPT !.tsus = OneLess(@, m)])
        PROVE  WireOK(net')
    <3>1. /\ OneLess(net.tsus, m) \in SUBSET TsuType
          /\ \A x \in OneLess(net.tsus, m) : \E y \in net.tsus : x.csn = y.csn
      BY <1>1, OneLessIs
    <3>2. [net EXCEPT !.tsus = OneLess(net.tsus, m)] =
            [net EXCEPT !.tsus = OneLess(net.tsus, m), !.tsas = net.tsas, !.queue = net.queue]
      BY <1>1 DEF WireType
    <3>3. WireOK([net EXCEPT !.tsus = OneLess(net.tsus, m), !.tsas = net.tsas, !.queue = net.queue])
      BY <3>1, FewerOK DEF TypeInv
    <3>4. QED
      BY <2>1, <3>2, <3>3, ForgetOK
  <2>2. ASSUME NEW m \in net.tsas, net' = [net EXCEPT !.tsas = @ \ {m}]
        PROVE  WireOK(net')
    <3>1. net' = [net EXCEPT !.tsus = net.tsus, !.tsas = net.tsas \ {m}, !.queue = net.queue]
      BY <1>1, <2>2 DEF WireType
    <3>2. \A x \in net.tsus : \E y \in net.tsus : x.csn = y.csn
      OBVIOUS
    <3>3. QED
      BY <1>1, <3>1, <3>2, FewerOK DEF TypeInv
  <2>3. QED
    BY <2>1, <2>2 DEF Lose
<1>4. SomeLinkUndelayed'
  BY <1>2 DEF TypeInv, SomeLinkUndelayed
<1>5. QED
  BY <1>2, <1>3, <1>4 DEF TypeInv

\* The other steps: a failed link, the drain and the two timers.
LEMMA OtherType ==
    ASSUME TypeInv,
           \/ LinkDownTsu \/ Drain \/ DelayedStart \/ UpdateIsDue
           \/ UNCHANGED cycleVars
    PROVE  TypeInv'
<1>1. CASE LinkDownTsu
  <2>1. /\ UNCHANGED <<base, m_emulateDelay, before, passed, rx, overtaken>>
        /\ bound.other > 0 /\ bound' = [bound EXCEPT !.other = @ - 1] /\ tidy' = FALSE
        /\ net' = SendTsu(net, NoneMeasured)
    BY <1>1 DEF LinkDownTsu
  <2>2. WireOK(net')
    BY <2>1, NoneMeasuredType, SendTsuOK DEF TypeInv
  <2>3. bound' \in BoundType
    BY <2>1 DEF TypeInv, BoundType
  <2>4. SomeLinkUndelayed'
    BY <2>1 DEF TypeInv, SomeLinkUndelayed
  <2>5. QED
    BY <2>1, <2>2, <2>3, <2>4 DEF TypeInv
<1>2. CASE Drain
  <2>1. /\ UNCHANGED <<base, m_emulateDelay, rx, net, bound, tidy, overtaken>>
        /\ before' = m_emulateDelay
        /\ passed' = Max({Owd(link, TRUE) : link \in Links})
    BY <1>2 DEF Drain
  <2> DEFINE f == [link \in Links |-> Owd(link, TRUE)]
  <2>2. \A link \in Links : f[link] \in Nat
    <3> SUFFICES ASSUME NEW link \in Links
                 PROVE  base[link] + m_emulateDelay[link] \in Nat
      BY OwdType DEF TypeInv
    <3>1. QED
      BY DEF TypeInv
  <2>3. {Owd(link, TRUE) : link \in Links} = {f[link] : link \in Links}
    OBVIOUS
  <2> HIDE DEF f
  <2>4. Max({f[link] : link \in Links}) \in Nat
    BY <2>2, MaxOfLinks, LinksAssumption
  <2>5. passed' \in Nat
    BY <2>1, <2>3, <2>4
  <2>6. SomeLinkUndelayed'
    BY <2>1 DEF TypeInv, SomeLinkUndelayed
  <2>7. QED
    BY <2>1, <2>5, <2>6 DEF TypeInv
<1>3. CASE DelayedStart
  <2> DEFINE r == [rx EXCEPT !.event = FALSE]
  <2>1. /\ UNCHANGED <<base, m_emulateDelay, before, passed, net, bound, tidy, overtaken>>
        /\ rx.event /\ rx' = MeasureIntervalStart(r)
    BY <1>3 DEF DelayedStart
  <2>2. RxOK(r) /\ r.on /\ ~ r.event /\ r.index < MaxMeasureInterval
    <3>1. /\ rx \in RxType /\ rx.on /\ ~ rx.started /\ rx.index = 0
          /\ \A link \in rx.current : rx.cur[link] # NoOwd
      BY <2>1 DEF TypeInv, RxOK, RxPhase
    <3>2. /\ r \in RxType /\ ~ r.event /\ r.on = rx.on /\ r.started = rx.started
          /\ r.index = rx.index /\ r.current = rx.current /\ r.cur = rx.cur
      BY <3>1 DEF RxType
    <3> HIDE DEF r
    <3>3. QED
      BY <3>1, <3>2, CycleAssumption DEF RxOK, RxPhase
  <2> HIDE DEF r
  <2>3. RxOK(rx')
    BY <2>1, <2>2, MeasureIntervalStartOK
  <2>4. SomeLinkUndelayed'
    BY <2>1 DEF TypeInv, SomeLinkUndelayed
  <2>5. QED
    BY <2>1, <2>3, <2>4 DEF TypeInv
<1>4. CASE UpdateIsDue
  <2>1. /\ UNCHANGED <<base, m_emulateDelay, before, passed, net, bound, tidy, overtaken>>
        /\ rx' = [rx EXCEPT !.due = TRUE]
    BY <1>4 DEF UpdateIsDue
  <2>2. RxOK(rx')
    BY <2>1 DEF TypeInv, RxOK, RxType, RxPhase
  <2>3. SomeLinkUndelayed'
    BY <2>1 DEF TypeInv, SomeLinkUndelayed
  <2>4. QED
    BY <2>1, <2>2, <2>3 DEF TypeInv
<1>5. CASE UNCHANGED cycleVars
  BY <1>5 DEF cycleVars, TypeInv, SomeLinkUndelayed
<1>6. QED
  BY <1>1, <1>2, <1>3, <1>4, <1>5

\* Every step keeps the types.
LEMMA NextTypeInv == TypeInv /\ [CycleNext]_cycleVars => TypeInv'
<1> SUFFICES ASSUME TypeInv, [CycleNext]_cycleVars
             PROVE  TypeInv'
  OBVIOUS
<1>1. ASSUME NEW link \in Links, NEW new \in BOOLEAN, NEW inOrder \in BOOLEAN, NEW over \in BOOLEAN,
             NEW converged \in BOOLEAN, NEW update \in BOOLEAN,
             Receive(link, new, inOrder, over, converged, update)
      PROVE  TypeInv'
  BY <1>1, ReceiveType
<1>2. ASSUME NEW link \in Links, NEW new \in BOOLEAN, ReceiveCtrl(link, new)
      PROVE  TypeInv'
  BY <1>2, ReceiveCtrlType
<1>3. ASSUME NEW m \in net.tsus, NEW delayed \in BOOLEAN, RecvTsu(m, delayed)
      PROVE  TypeInv'
  BY <1>3, RecvTsuType
<1>4. ASSUME NEW t \in net.tsas, RecvTsa(t)
      PROVE  TypeInv'
  BY <1>4, RecvTsaType
<1>5. ASSUME NEW item \in net.queue, RetxCtrlMsgExpires(item)
      PROVE  TypeInv'
  BY <1>5, RetxType
<1>6. QED
  BY <1>1, <1>2, <1>3, <1>4, <1>5, LoseType, OtherType DEF CycleNext

\* The measurement cycle keeps its types: no delay becomes negative, whatever a TSA
\* adds to a minimum, no interval is counted beyond MaxMeasureInterval, and every csn
\* in use was given out.
THEOREM CycleTypeCorrect == CycleSpec => []CycleTypeOK
<1>1. CycleInit => TypeInv
  BY InitTypeInv
<1>2. TypeInv /\ [CycleNext]_cycleVars => TypeInv'
  BY NextTypeInv
<1>3. TypeInv => CycleTypeOK
  BY TypeInvIsStronger
<1>4. QED
  BY <1>1, <1>2, <1>3, PTL DEF CycleSpec

-----------------------------------------------------------------------------
(***************************************************************************)
(* Samples are not stale when one TSU is enough to equalize the links.     *)
(***************************************************************************)
\* The delays of the links differ by no more than one TSU can make up.
OneTsuIsEnough ==
    \A b \in BaseDelays : \A k, l \in Links : b[k] - b[l] <= MaxDelayChangePerTSU

Slowest == Max({base[link] : link \in Links})
ToSlowest == [link \in Links |-> Slowest - base[link]]
AllSlowest == [link \in Links |-> Slowest]

CloseLinks == \A k, l \in Links : base[k] - base[l] <= MaxDelayChangePerTSU

\* At most one TSU waits for its TSA, exactly while the measurement is off.  It is the
\* newest, and a TSU that the transmitter may still adopt is a copy of it.
TidyWire(on, n) ==
    /\ on <=> n.queue = {}
    /\ \A item \in n.queue :
          /\ n.queue = {item}
          /\ \E c \in item.csns :
                /\ item.csns = {c} /\ c > n.maxTsa /\ c >= n.maxTsu
                /\ \A m \in n.tsus : m.csn <= c /\ (m.csn = c => m.owds = item.owds)
    /\ \A m \in n.tsus : m.csn > n.maxTsu => Queued(n, m.csn)

\* A TSU in the queue reports nothing, and its TSA changes nothing.
QuietWire(n) ==
    /\ \A item \in n.queue : item.owds = NoneMeasured
    /\ \A t \in n.tsas : t.first /\ Queued(n, t.csn) => t.offset = NoDelay

\* The TSU in the queue reports the delays and was not adopted yet.
ReportWire(n) ==
    \E item \in n.queue : item.owds = ToSlowest /\ \A c \in item.csns : c > n.maxTsu

\* The TSU in the queue was adopted, and its TSA says so.
AdoptedWire(n) ==
    /\ n.queue # {}
    /\ \A item \in n.queue : item.csns = {n.maxTsu}
    /\ \A t \in n.tsas : t.first /\ t.csn = n.maxTsu => t.offset = ToSlowest /\ t.new

\* Before the first report.
Unreported(r, n) ==
    /\ m_emulateDelay = NoDelay /\ before = NoDelay
    /\ r.prev = Never /\ r.adj = NoDelay
    /\ r.last = NoneMeasured \/ (r.last = base /\ Slowest = 0)
    /\ \A link \in Links : r.cur[link] \in {base[link], NoOwd}
    /\ QuietWire(n)

\* The delays were reported and the transmitter does not know it yet.
AwaitsAdoption(r, n) ==
    /\ m_emulateDelay = NoDelay /\ before = NoDelay
    /\ r.prev = base /\ r.last = base /\ r.adj = NoDelay
    /\ \A link \in Links : r.cur[link] \in {base[link], NoOwd}
    /\ ReportWire(n)

Adopted == m_emulateDelay = ToSlowest /\ before \in {NoDelay, ToSlowest}

\* The transmitter delays the fast links and the receiver does not know it yet.
AwaitsTsa(r, n) ==
    /\ Adopted
    /\ r.prev = base /\ r.last = base /\ r.adj = NoDelay
    /\ \A link \in Links : r.cur[link] \in {base[link], Slowest, NoOwd}
    /\ AdoptedWire(n)

\* The receiver knows it and measures when the first packet sent since has arrived.
AwaitsStart(r, n, p) ==
    /\ Adopted
    /\ r.prev = base /\ r.last = base /\ r.adj = ToSlowest
    /\ \A link \in Links : r.cur[link] \in {base[link], Slowest, NoOwd}
    /\ ~ r.started /\ r.startNew
    /\ r.event => p >= Slowest
    /\ n.queue = {}

\* All links are equally slow, and so is every packet that may still arrive.
Levelled(r, n, p) ==
    /\ Adopted
    /\ p >= Slowest \/ before = ToSlowest
    /\ r.prev = AllSlowest /\ r.last = AllSlowest /\ r.adj = NoDelay
    /\ \A link \in Links : r.cur[link] \in {Slowest, NoOwd}
    /\ QuietWire(n)

Phase(r, n, p) ==
    Unreported(r, n) \/ AwaitsAdoption(r, n) \/ AwaitsTsa(r, n) \/ AwaitsStart(r, n, p)
    \/ Levelled(r, n, p)

TidyInv == tidy => TidyWire(rx.on, net) /\ Phase(rx, net, passed)

\* The slowest link, and what the others lack of it.
LEMMA SlowestLink ==
    ASSUME base \in [Links -> Nat]
    PROVE  /\ Slowest \in Nat
           /\ \E link \in Links : base[link] = Slowest
           /\ \A link \in Links : base[link] \in Nat /\ base[link] <= Slowest
           /\ \A link \in Links : /\ ToSlowest[link] = Slowest - base[link]
                                  /\ ToSlowest[link] \in Nat
                                  /\ AllSlowest[link] = Slowest
                                  /\ NoDelay[link] = 0
           /\ ToSlowest \in [Links -> Nat]
           /\ NoDelay = NoDelay
<1> DEFINE f == base
<1>1. \A link \in Links : f[link] \in Nat
  OBVIOUS
<1>2. Slowest = Max({f[link] : link \in Links})
  BY DEF Slowest
<1> HIDE DEF f
<1>3. /\ Slowest \in Nat
      /\ \E link \in Links : f[link] = Slowest
      /\ \A link \in Links : f[link] <= Slowest
  BY <1>1, <1>2, MaxOfLinks, LinksAssumption
<1>4. \A link \in Links : Slowest - base[link] \in Nat
  BY <1>1, <1>3 DEF f
<1>5. QED
  BY <1>1, <1>3, <1>4 DEF f, ToSlowest, AllSlowest, NoDelay

\* A TSU on a wire without one.
LEMMA SendTsuTidy ==
    ASSUME NEW n, WireOK(n), NEW owds \in Minima, TidyWire(TRUE, n)
    PROVE  LET f == SendTsu(n, owds)
           IN  /\ TidyWire(FALSE, f)
               /\ owds = NoneMeasured => QuietWire(f)
               /\ owds = ToSlowest => ReportWire(f)
<1> DEFINE f == SendTsu(n, owds)
<1> DEFINE item == [csns |-> {n.nextCsn}, owds |-> owds]
<1> DEFINE copies == [csn |-> n.nextCsn, owds |-> owds, left |-> Cardinality(Links)]
<1>1. /\ f.queue = n.queue \cup {item}
      /\ f.tsus = n.tsus \cup {copies}
      /\ f.maxTsu = n.maxTsu /\ f.maxTsa = n.maxTsa /\ f.tsas = n.tsas
  BY SendTsuIs
<1>2. item.csns = {n.nextCsn} /\ item.owds = owds /\ copies.csn = n.nextCsn /\ copies.owds = owds
  OBVIOUS
<1> HIDE DEF f, item, copies
<1>3. f.queue = {item}
  BY <1>1 DEF TidyWire
<1>4. /\ n.nextCsn \in Nat /\ n.maxTsu \in Nat /\ n.maxTsa \in Nat
      /\ n.nextCsn > n.maxTsu /\ n.nextCsn > n.maxTsa
      /\ \A m \in n.tsus : m.csn \in Nat /\ m.csn < n.nextCsn
  BY DEF WireOK, WireType, TsuType
<1>5. \A m \in n.tsus : m.csn <= n.maxTsu
  <2> SUFFICES ASSUME NEW m \in n.tsus, m.csn > n.maxTsu
               PROVE  FALSE
    BY <1>4
  <2>1. Queued(n, m.csn)
    BY DEF TidyWire
  <2>2. QED
    BY <2>1 DEF TidyWire, Queued
<1>6. \A m \in f.tsus : m.csn <= n.nextCsn /\ (m.csn = n.nextCsn => m.owds = item.owds)
  BY <1>1, <1>2, <1>4
<1>7. \A c : Queued(f, c) <=> c = n.nextCsn
  BY <1>2, <1>3 DEF Queued
<1>8. TidyWire(FALSE, f)
  <2>1. f.queue # {}
    BY <1>3
  <2>2. ASSUME NEW i \in f.queue
        PROVE  /\ f.queue = {i}
               /\ \E c \in i.csns :
                     /\ i.csns = {c} /\ c > f.maxTsa /\ c >= f.maxTsu
                     /\ \A m \in f.tsus : m.csn <= c /\ (m.csn = c => m.owds = i.owds)
    <3>1. i = item
      BY <1>3
    <3>2. /\ n.nextCsn \in i.csns /\ i.csns = {n.nextCsn} /\ n.nextCsn > f.maxTsa /\ n.nextCsn >= f.maxTsu
          /\ \A m \in f.tsus : m.csn <= n.nextCsn /\ (m.csn = n.nextCsn => m.owds = i.owds)
      BY <3>1, <1>1, <1>2, <1>4, <1>6
    <3>3. QED
      BY <3>1, <3>2, <1>3
  <2>3. ASSUME NEW m \in f.tsus, m.csn > f.maxTsu
        PROVE  Queued(f, m.csn)
    BY <2>3, <1>1, <1>2, <1>4, <1>5, <1>7
  <2>4. QED
    BY <2>1, <2>2, <2>3, Zenon DEF TidyWire
<1>9. owds = NoneMeasured => QuietWire(f)
  <2>1. \A t \in f.tsas : ~ Queued(f, t.csn)
    <3>1. \A t \in n.tsas : t.csn \in Nat /\ t.csn <= n.maxTsu
      BY DEF WireOK, WireType, TsaType
    <3>2. QED
      BY <3>1, <1>1, <1>4, <1>7
  <2>2. QED
    BY <2>1, <1>2, <1>3 DEF QuietWire
<1>10. owds = ToSlowest => ReportWire(f)
  BY <1>1, <1>2, <1>3, <1>4 DEF ReportWire
<1>11. QED
  BY <1>8, <1>9, <1>10 DEF f

\* What Forget makes of the messages.
LEMMA ForgetElements ==
    ASSUME NEW n, WireOK(n)
    PROVE  LET f == Forget(n)
               R(c) == CsnRank(n, c)
           IN  /\ f.maxTsu = R(n.maxTsu) /\ f.maxTsa = R(n.maxTsa)
               /\ n.maxTsu \in KnownCsns(n) /\ n.maxTsa \in KnownCsns(n)
               /\ \A i \in f.queue : \E item \in n.queue :
                     i.owds = item.owds /\ i.csns = {R(c) : c \in item.csns}
               /\ \A item \in n.queue : \E i \in f.queue :
                     i.owds = item.owds /\ i.csns = {R(c) : c \in item.csns}
               /\ \A item \in n.queue : item.csns \subseteq KnownCsns(n)
               /\ \A x \in f.tsus : \E m \in n.tsus :
                     /\ x.csn = R(m.csn) /\ x.owds = m.owds /\ m.csn \in KnownCsns(n)
               /\ \A x \in f.tsas : \E t \in n.tsas :
                     /\ x.csn = R(t.csn) /\ t.csn \in KnownCsns(n) /\ Queued(n, t.csn)
                     /\ x.first = t.first /\ x.offset = t.offset /\ x.new = t.new
<1> DEFINE f == Forget(n)
<1> DEFINE R(c) == CsnRank(n, c)
<1>1. /\ f.queue = {[item EXCEPT !.csns = {R(c) : c \in @}] : item \in n.queue}
      /\ f.maxTsu = R(n.maxTsu) /\ f.maxTsa = R(n.maxTsa)
      /\ f.tsus = {[m EXCEPT !.csn = R(@)] : m \in KeptTsus(n)}
      /\ f.tsas = {[m EXCEPT !.csn = R(@)] : m \in KeptTsas(n)}
  BY ForgetIs
<1> HIDE DEF f, R
<1>2. /\ n.maxTsu \in KnownCsns(n) /\ n.maxTsa \in KnownCsns(n)
      /\ \A item \in n.queue : item.csns \subseteq KnownCsns(n)
  BY DEF KnownCsns
<1>3. ASSUME NEW m \in KeptTsus(n)
      PROVE  /\ m \in n.tsus /\ m.csn \in KnownCsns(n)
             /\ [m EXCEPT !.csn = R(@)].csn = R(m.csn)
             /\ [m EXCEPT !.csn = R(@)].owds = m.owds
  <2>1. m \in n.tsus /\ m \in TsuType
    BY DEF KeptTsus, WireOK, WireType
  <2>2. m.csn \in KnownCsns(n)
    BY DEF KnownCsns
  <2>3. QED
    BY <2>1, <2>2 DEF TsuType
<1>4. ASSUME NEW t \in KeptTsas(n)
      PROVE  /\ t \in n.tsas /\ t.csn \in KnownCsns(n) /\ Queued(n, t.csn)
             /\ [t EXCEPT !.csn = R(@)].csn = R(t.csn)
             /\ [t EXCEPT !.csn = R(@)].first = t.first
             /\ [t EXCEPT !.csn = R(@)].offset = t.offset
             /\ [t EXCEPT !.csn = R(@)].new = t.new
  <2>1. t \in n.tsas /\ t \in TsaType /\ Queued(n, t.csn)
    BY DEF KeptTsas, WireOK, WireType
  <2>2. t.csn \in KnownCsns(n)
    BY <2>1 DEF KnownCsns, Queued
  <2>3. QED
    BY <2>1, <2>2 DEF TsaType
<1>5. ASSUME NEW item \in n.queue
      PROVE  /\ [item EXCEPT !.csns = {R(c) : c \in @}].owds = item.owds
             /\ [item EXCEPT !.csns = {R(c) : c \in @}].csns = {R(c) : c \in item.csns}
  <2>1. item \in ItemType
    BY DEF WireOK, WireType
  <2>2. QED
    BY <2>1 DEF ItemType
<1>6. /\ \A i \in f.queue : \E item \in n.queue :
            i.owds = item.owds /\ i.csns = {R(c) : c \in item.csns}
      /\ \A item \in n.queue : \E i \in f.queue :
            i.owds = item.owds /\ i.csns = {R(c) : c \in item.csns}
  BY <1>1, <1>5
<1>7. \A x \in f.tsus : \E m \in n.tsus :
         x.csn = R(m.csn) /\ x.owds = m.owds /\ m.csn \in KnownCsns(n)
  BY <1>1, <1>3
<1>8. \A x \in f.tsas : \E t \in n.tsas :
         /\ x.csn = R(t.csn) /\ t.csn \in KnownCsns(n) /\ Queued(n, t.csn)
         /\ x.first = t.first /\ x.offset = t.offset /\ x.new = t.new
  BY <1>1, <1>4
<1>9. QED
  BY <1>1, <1>2, <1>6, <1>7, <1>8 DEF f, R

\* Forget does not disturb a tidy wire.
LEMMA ForgetTidy ==
    ASSUME NEW n, WireOK(n), NEW on \in BOOLEAN, TidyWire(on, n)
    PROVE  LET f == Forget(n)
           IN  /\ TidyWire(on, f)
               /\ QuietWire(n) => QuietWire(f)
               /\ ReportWire(n) => ReportWire(f)
               /\ AdoptedWire(n) => AdoptedWire(f)
               /\ n.queue = {} => f.queue = {}
<1> DEFINE f == Forget(n)
<1> DEFINE R(c) == CsnRank(n, c)
<1> DEFINE K == KnownCsns(n)
<1>1. /\ f.maxTsu = R(n.maxTsu) /\ f.maxTsa = R(n.maxTsa)
      /\ n.maxTsu \in K /\ n.maxTsa \in K
      /\ \A i \in f.queue : \E item \in n.queue :
            i.owds = item.owds /\ i.csns = {R(c) : c \in item.csns}
      /\ \A item \in n.queue : \E i \in f.queue :
            i.owds = item.owds /\ i.csns = {R(c) : c \in item.csns}
      /\ \A item \in n.queue : item.csns \subseteq K
      /\ \A x \in f.tsus : \E m \in n.tsus : x.csn = R(m.csn) /\ x.owds = m.owds /\ m.csn \in K
      /\ \A x \in f.tsas : \E t \in n.tsas :
            /\ x.csn = R(t.csn) /\ t.csn \in K /\ Queued(n, t.csn)
            /\ x.first = t.first /\ x.offset = t.offset /\ x.new = t.new
  BY ForgetElements
<1>2. /\ \A c \in K : c \in Nat /\ R(c) \in Nat
      /\ \A c, d \in K : R(c) < R(d) <=> c < d
      /\ \A c, d \in K : R(c) = R(d) <=> c = d
  BY RankOrder
<1> HIDE DEF f, R, K
<1>3. \A c, d \in K : /\ R(c) > R(d) <=> c > d
                      /\ R(c) >= R(d) <=> c >= d
                      /\ R(c) <= R(d) <=> c <= d
  <2> SUFFICES ASSUME NEW c \in K, NEW d \in K
               PROVE  /\ R(c) > R(d) <=> c > d
                      /\ R(c) >= R(d) <=> c >= d
                      /\ R(c) <= R(d) <=> c <= d
    OBVIOUS
  <2>1. /\ c \in Nat /\ d \in Nat /\ R(c) \in Nat /\ R(d) \in Nat
        /\ R(c) < R(d) <=> c < d
        /\ R(d) < R(c) <=> d < c
    BY <1>2
  <2>2. QED
    BY <2>1
<1>4. CASE n.queue = {}
  <2>1. f.queue = {}
    BY <1>1, <1>4
  <2>2. \A m \in n.tsus : ~ (m.csn > n.maxTsu)
    BY <1>4 DEF TidyWire, Queued
  <2>3. \A x \in f.tsus : ~ (x.csn > f.maxTsu)
    BY <2>2, <1>1, <1>3
  <2>4. TidyWire(on, f)
    BY <2>1, <2>3, <1>4 DEF TidyWire
  <2>5. QuietWire(f)
    BY <2>1 DEF QuietWire, Queued
  <2>6. ~ ReportWire(n) /\ ~ AdoptedWire(n)
    BY <1>4 DEF ReportWire, AdoptedWire
  <2>7. QED
    BY <2>1, <2>4, <2>5, <2>6 DEF f
<1>5. CASE n.queue # {}
  <2>1. PICK item \in n.queue : n.queue = {item}
    BY <1>5 DEF TidyWire
  <2>2. PICK c \in item.csns :
           /\ item.csns = {c} /\ c > n.maxTsa /\ c >= n.maxTsu
           /\ \A m \in n.tsus : m.csn <= c /\ (m.csn = c => m.owds = item.owds)
    BY DEF TidyWire
  <2> {R(x) : x \in item.csns} = {R(c)}
    BY <2>2
  <2>3. PICK i \in f.queue : i.owds = item.owds /\ i.csns = {R(c)}
    BY <1>1
  <2>4. c \in K
    BY <1>1
  <2>5. \A j \in f.queue : j.owds = item.owds /\ j.csns = {R(c)}
    BY <1>1, <2>1, <2>2
  <2>6. f.queue = {i}
    <3>1. Forget(n).queue = {[x EXCEPT !.csns = {CsnRank(n, csn) : csn \in @}] : x \in n.queue}
      BY ForgetIs
    <3>2. QED
      BY <3>1, <2>1 DEF f
  <2>7. \A d : Queued(f, d) <=> d = R(c)
    BY <2>3, <2>6 DEF Queued
  <2>8. \A d : Queued(n, d) <=> d = c
    BY <2>1, <2>2 DEF Queued
  <2>9. TidyWire(on, f)
    <3>1. R(c) \in i.csns /\ i.csns = {R(c)} /\ R(c) > f.maxTsa /\ R(c) >= f.maxTsu
      BY <1>1, <1>3, <2>2, <2>3, <2>4
    <3>2. \A x \in f.tsus : x.csn <= R(c) /\ (x.csn = R(c) => x.owds = i.owds)
      <4> SUFFICES ASSUME NEW x \in f.tsus
                   PROVE  x.csn <= R(c) /\ (x.csn = R(c) => x.owds = i.owds)
        OBVIOUS
      <4>1. PICK m \in n.tsus : x.csn = R(m.csn) /\ x.owds = m.owds /\ m.csn \in K
        BY <1>1
      <4>2. m.csn <= c /\ (m.csn = c => m.owds = item.owds)
        BY <2>2
      <4>3. QED
        BY <4>1, <4>2, <1>2, <1>3, <2>3, <2>4
    <3>3. \A x \in f.tsus : x.csn > f.maxTsu => Queued(f, x.csn)
      <4> SUFFICES ASSUME NEW x \in f.tsus, x.csn > f.maxTsu
                   PROVE  x.csn = R(c)
        BY <2>7
      <4>1. PICK m \in n.tsus : x.csn = R(m.csn) /\ x.owds = m.owds /\ m.csn \in K
        BY <1>1
      <4>2. m.csn > n.maxTsu
        BY <4>1, <1>1, <1>3
      <4>3. m.csn = c
        BY <4>2, <2>8 DEF TidyWire
      <4>4. QED
        BY <4>1, <4>3
    <3>4. ~ on
      BY <1>5 DEF TidyWire
    <3>5. \A j \in f.queue :
             /\ f.queue = {j}
             /\ \E d \in j.csns :
                   /\ j.csns = {d} /\ d > f.maxTsa /\ d >= f.maxTsu
                   /\ \A m \in f.tsus : m.csn <= d /\ (m.csn = d => m.owds = j.owds)
      <4> SUFFICES ASSUME NEW j \in f.queue
                   PROVE  /\ f.queue = {j}
                          /\ \E d \in j.csns :
                                /\ j.csns = {d} /\ d > f.maxTsa /\ d >= f.maxTsu
                                /\ \A m \in f.tsus : m.csn <= d /\ (m.csn = d => m.owds = j.owds)
        OBVIOUS
      <4>1. j = i
        BY <2>6
      <4>2. QED
        BY <4>1, <2>6, <3>1, <3>2
    <3>6. f.queue # {}
      BY <2>6
    <3>7. QED
      BY <3>3, <3>4, <3>5, <3>6, Zenon DEF TidyWire
  <2>10. QuietWire(n) => QuietWire(f)
    <3> SUFFICES ASSUME QuietWire(n)
                 PROVE  QuietWire(f)
      OBVIOUS
    <3>1. item.owds = NoneMeasured
      BY DEF QuietWire
    <3>2. \A x \in f.tsas : x.first /\ Queued(f, x.csn) => x.offset = NoDelay
      BY <1>1 DEF QuietWire
    <3>3. QED
      BY <2>5, <3>1, <3>2 DEF QuietWire
  <2>11. ReportWire(n) => ReportWire(f)
    <3> SUFFICES ASSUME ReportWire(n)
                 PROVE  ReportWire(f)
      OBVIOUS
    <3>1. item.owds = ToSlowest /\ c > n.maxTsu
      BY <2>1, <2>2 DEF ReportWire
    <3>2. R(c) > f.maxTsu
      BY <3>1, <1>1, <1>3, <2>4
    <3>3. QED
      BY <2>3, <3>1, <3>2 DEF ReportWire
  <2>12. AdoptedWire(n) => AdoptedWire(f)
    <3> SUFFICES ASSUME AdoptedWire(n)
                 PROVE  AdoptedWire(f)
      OBVIOUS
    <3>1. c = n.maxTsu
      BY <2>1, <2>2 DEF AdoptedWire
    <3>2. \A j \in f.queue : j.csns = {f.maxTsu}
      BY <3>1, <1>1, <2>5
    <3>3. \A x \in f.tsas : x.first /\ x.csn = f.maxTsu => x.offset = ToSlowest /\ x.new
      <4> SUFFICES ASSUME NEW x \in f.tsas, x.first
                   PROVE  x.offset = ToSlowest /\ x.new
        OBVIOUS
      <4>1. PICK t \in n.tsas : /\ Queued(n, t.csn)
                                /\ x.first = t.first /\ x.offset = t.offset /\ x.new = t.new
        BY <1>1
      <4>2. t.csn = n.maxTsu
        BY <4>1, <2>8, <3>1
      <4>3. QED
        BY <4>1, <4>2 DEF AdoptedWire
    <3>4. QED
      BY <2>6, <3>2, <3>3 DEF AdoptedWire
  <2>13. QED
    BY <1>5, <2>9, <2>10, <2>11, <2>12 DEF f
<1>6. QED
  BY <1>4, <1>5

\* Nor does a message less, or a TSA that answers a TSU once more.
LEMMA ThinTidy ==
    ASSUME NEW n, NEW g, NEW on \in BOOLEAN, TidyWire(on, n),
           g.queue = n.queue, g.maxTsu = n.maxTsu, g.maxTsa = n.maxTsa,
           \A x \in g.tsus : \E y \in n.tsus : x.csn = y.csn /\ x.owds = y.owds,
           \A t \in g.tsas : t \in n.tsas \/ ~ t.first
    PROVE  /\ TidyWire(on, g)
           /\ QuietWire(n) => QuietWire(g)
           /\ ReportWire(n) => ReportWire(g)
           /\ AdoptedWire(n) => AdoptedWire(g)
<1>1. \A c : Queued(g, c) <=> Queued(n, c)
  BY DEF Queued
<1>2. TidyWire(on, g)
  <2>1. \A m \in g.tsus : m.csn > g.maxTsu => Queued(g, m.csn)
    BY <1>1 DEF TidyWire
  <2>2. ASSUME NEW item \in g.queue
        PROVE  /\ g.queue = {item}
               /\ \E c \in item.csns :
                     /\ item.csns = {c} /\ c > g.maxTsa /\ c >= g.maxTsu
                     /\ \A m \in g.tsus : m.csn <= c /\ (m.csn = c => m.owds = item.owds)
    <3>1. PICK c \in item.csns :
             /\ item.csns = {c} /\ c > n.maxTsa /\ c >= n.maxTsu
             /\ \A m \in n.tsus : m.csn <= c /\ (m.csn = c => m.owds = item.owds)
      BY DEF TidyWire
    <3>2. \A m \in g.tsus : m.csn <= c /\ (m.csn = c => m.owds = item.owds)
      BY <3>1
    <3>3. QED
      BY <3>1, <3>2 DEF TidyWire
  <2>3. on <=> g.queue = {}
    BY DEF TidyWire
  <2>4. QED
    BY <2>1, <2>2, <2>3, Zenon DEF TidyWire
<1>3. QuietWire(n) => QuietWire(g)
  BY <1>1 DEF QuietWire
<1>4. ReportWire(n) => ReportWire(g)
  BY DEF ReportWire
<1>5. AdoptedWire(n) => AdoptedWire(g)
  BY DEF AdoptedWire
<1>6. QED
  BY <1>2, <1>3, <1>4, <1>5

-----------------------------------------------------------------------------
(***************************************************************************)
(* What the receiver does in each phase.                                   *)
(***************************************************************************)
SameMinima(s, r) == s.cur = r.cur /\ s.last = r.last /\ s.prev = r.prev /\ s.adj = r.adj

\* The phases depend on the minima and on the start of the interval only.
LEMMA SamePhase ==
    ASSUME NEW r, NEW s, NEW n, NEW p, Phase(r, n, p), SameMinima(s, r),
           AwaitsStart(r, n, p) =>
              s.started = r.started /\ s.startNew = r.startNew /\ s.event = r.event
    PROVE  Phase(s, n, p)
<1>1. Unreported(r, n) => Unreported(s, n)
  BY DEF Unreported, SameMinima
<1>2. AwaitsAdoption(r, n) => AwaitsAdoption(s, n)
  BY DEF AwaitsAdoption, SameMinima
<1>3. AwaitsTsa(r, n) => AwaitsTsa(s, n)
  BY DEF AwaitsTsa, SameMinima
<1>4. AwaitsStart(r, n, p) => AwaitsStart(s, n, p)
  BY DEF AwaitsStart, SameMinima
<1>5. Levelled(r, n, p) => Levelled(s, n, p)
  BY DEF Levelled, SameMinima
<1>6. QED
  BY <1>1, <1>2, <1>3, <1>4, <1>5 DEF Phase

\* A later packet has arrived.
LEMMA LaterPhase ==
    ASSUME NEW r, NEW n, NEW p \in Int, NEW q \in Int, p <= q, Slowest \in Int, Phase(r, n, p)
    PROVE  Phase(r, n, q)
<1>1. p >= Slowest => q >= Slowest
  OBVIOUS
<1>2. AwaitsStart(r, n, p) => AwaitsStart(r, n, q)
  BY <1>1 DEF AwaitsStart
<1>3. Levelled(r, n, p) => Levelled(r, n, q)
  BY <1>1 DEF Levelled
<1>4. QED
  BY <1>2, <1>3 DEF Phase

\* Without an offset a new interval leaves the minima alone.
LEMMA QuietStart ==
    ASSUME NEW r \in RxType, r.adj = NoDelay
    PROVE  LET s == MeasureIntervalStart(r)
           IN  SameMinima(s, r) /\ s.on = r.on /\ s.started /\ s.event = r.event
<1> DEFINE s == MeasureIntervalStart(r)
<1>1. Raised(r) = {}
  BY DEF Raised, NoDelay
<1>2. \A x \in Minima : Moved(r, x) = x
  BY <1>1 DEF Moved, Minima
<1>3. r.last \in Minima /\ r.cur \in Minima /\ r.prev \in Minima \cup {Never}
  BY DEF RxType
<1>4. [link \in Links |-> IF link \in Raised(r) THEN NoOwd ELSE r.cur[link]] = r.cur
  BY <1>1, <1>3 DEF Minima
<1>5. [link \in Links |-> IF link \in Raised(r) THEN 0 ELSE r.adj[link]] = r.adj
  BY <1>1 DEF NoDelay
<1>6. (IF r.prev = Never THEN Never ELSE Moved(r, r.prev)) = r.prev
  BY <1>2, <1>3
<1>7. s = [r EXCEPT !.last = r.last, !.prev = r.prev, !.cur = r.cur,
                    !.current = r.current \ Raised(r), !.adj = r.adj,
                    !.index = r.index + 1, !.started = TRUE]
  BY <1>2, <1>3, <1>4, <1>5, <1>6 DEF MeasureIntervalStart
<1> HIDE DEF s
<1>8. /\ s.cur = r.cur /\ s.last = r.last /\ s.prev = r.prev /\ s.adj = r.adj
      /\ s.on = r.on /\ s.started /\ s.event = r.event
  BY <1>7 DEF RxType
<1>9. QED
  BY <1>8 DEF SameMinima, s

\* The interval that the TSA starts: what was reported is moved to the new delays, and
\* the samples of the links that became slower are dropped.
LEMMA LevelStart ==
    ASSUME base \in [Links -> Nat], NEW r \in RxType,
           r.prev = base, r.last = base, r.adj = ToSlowest,
           \A link \in Links : r.cur[link] \in {base[link], Slowest, NoOwd}
    PROVE  LET s == MeasureIntervalStart(r)
           IN  /\ s.prev = AllSlowest /\ s.last = AllSlowest /\ s.adj = NoDelay
               /\ \A link \in Links : s.cur[link] \in {Slowest, NoOwd}
<1> DEFINE s == MeasureIntervalStart(r)
<1>1. /\ Slowest \in Nat
      /\ \A link \in Links : /\ base[link] \in Nat /\ base[link] <= Slowest
                             /\ ToSlowest[link] = Slowest - base[link]
                             /\ ToSlowest[link] \in Nat
  BY SlowestLink
<1>2. Raised(r) = {link \in Links : ToSlowest[link] > 0}
  BY <1>1, CycleAssumption DEF Raised
<1>3. \A link \in Links : link \notin Raised(r) => base[link] = Slowest /\ ToSlowest[link] = 0
  BY <1>1, <1>2
<1>4. Moved(r, base) = AllSlowest
  <2>1. \A link \in Links : (IF link \in Raised(r) THEN r.last[link] + r.adj[link] ELSE base[link])
                              = Slowest
    BY <1>1, <1>3
  <2>2. QED
    BY <2>1 DEF Moved, AllSlowest
<1>5. r.prev # Never
  <2>1. base \in [Links -> Nat \cup {NoOwd}]
    OBVIOUS
  <2>2. QED
    BY <2>1, CycleAssumption
<1>6. [link \in Links |-> IF link \in Raised(r) THEN 0 ELSE r.adj[link]] = NoDelay
  BY <1>3 DEF NoDelay
<1> DEFINE cur == [link \in Links |-> IF link \in Raised(r) THEN NoOwd ELSE r.cur[link]]
<1>7. \A link \in Links : cur[link] \in {Slowest, NoOwd}
  BY <1>3
<1> HIDE DEF cur
<1>8. s = [r EXCEPT !.last = AllSlowest, !.prev = AllSlowest, !.cur = cur,
                    !.current = r.current \ Raised(r), !.adj = NoDelay,
                    !.index = r.index + 1, !.started = TRUE]
  BY <1>4, <1>5, <1>6 DEF MeasureIntervalStart, cur
<1> HIDE DEF s
<1>9. s.cur = cur /\ s.last = AllSlowest /\ s.prev = AllSlowest /\ s.adj = NoDelay
  BY <1>8 DEF RxType
<1>10. QED
  BY <1>7, <1>9 DEF s

\* A new interval before the first report, and when all links are equally slow.
LEMMA QuietStartPhase ==
    ASSUME NEW r \in RxType, NEW n, NEW p,
           Unreported(r, n) \/ Levelled(r, n, p)
    PROVE  Phase(MeasureIntervalStart(r), n, p)
<1> DEFINE s == MeasureIntervalStart(r)
<1>1. r.adj = NoDelay
  BY DEF Unreported, Levelled
<1>2. SameMinima(s, r)
  BY <1>1, QuietStart
<1>3. Unreported(s, n) \/ Levelled(s, n, p)
  BY <1>2 DEF Unreported, Levelled, SameMinima
<1>4. QED
  BY <1>3 DEF Phase

\* A new interval, in the phases that have one.
LEMMA IntervalStartPhase ==
    ASSUME base \in [Links -> Nat], NEW r \in RxType, NEW n, NEW p,
           Phase(r, n, p), n.queue = {}, AwaitsStart(r, n, p) => p >= Slowest
    PROVE  Phase(MeasureIntervalStart(r), n, p)
<1> DEFINE s == MeasureIntervalStart(r)
<1>1. CASE Unreported(r, n) \/ Levelled(r, n, p)
  BY <1>1, QuietStartPhase
<1>2. CASE AwaitsStart(r, n, p)
  <2>1. /\ s.prev = AllSlowest /\ s.last = AllSlowest /\ s.adj = NoDelay
        /\ \A link \in Links : s.cur[link] \in {Slowest, NoOwd}
    BY <1>2, LevelStart DEF AwaitsStart
  <2>2. QuietWire(n)
    BY DEF QuietWire, Queued
  <2>3. Adopted
    BY <1>2 DEF AwaitsStart
  <2> HIDE DEF s
  <2>4. Levelled(s, n, p)
    BY <1>2, <2>1, <2>2, <2>3 DEF Levelled
  <2>5. QED
    BY <2>4 DEF Phase, s
<1>3. ~ AwaitsAdoption(r, n) /\ ~ AwaitsTsa(r, n)
  BY DEF AwaitsAdoption, AwaitsTsa, ReportWire, AdoptedWire
<1>4. QED
  BY <1>1, <1>2, <1>3 DEF Phase

\* The check that may start an interval, when a packet is in order.
LEMMA StartCheckPhase ==
    ASSUME base \in [Links -> Nat], NEW r, RxOK(r), NEW n, NEW p,
           NEW new \in BOOLEAN, Phase(r, n, p), n.queue = {},
           Adopted /\ new => p >= Slowest
    PROVE  Phase(MeasureIntervalStartCheck(r, new), n, p)
<1> DEFINE s == [r EXCEPT !.lastNew = new]
<1>1. r \in RxType
  BY DEF RxOK
<1>2. /\ s \in RxType /\ SameMinima(s, r)
      /\ s.started = r.started /\ s.startNew = r.startNew /\ s.event = r.event
  BY <1>1 DEF RxType, SameMinima
<1>3. MeasureIntervalStartCheck(r, new) =
        IF ~ (new \/ ~ r.startNew) \/ r.started \/ r.event THEN s
        ELSE IF r.delayed THEN [s EXCEPT !.event = TRUE, !.delayed = FALSE]
        ELSE MeasureIntervalStart(s)
  BY DEF MeasureIntervalStartCheck
<1> HIDE DEF s
<1>4. Phase(s, n, p)
  BY <1>2, SamePhase
<1>5. AwaitsStart(s, n, p) /\ (new \/ ~ r.startNew) => p >= Slowest
  BY <1>2 DEF AwaitsStart
<1>6. ASSUME new \/ ~ r.startNew
      PROVE  Phase([s EXCEPT !.event = TRUE, !.delayed = FALSE], n, p)
  <2> DEFINE e == [s EXCEPT !.event = TRUE, !.delayed = FALSE]
  <2>1. SameMinima(e, s) /\ e.started = s.started /\ e.startNew = s.startNew
    BY <1>2 DEF RxType, SameMinima
  <2> HIDE DEF e
  <2>2. CASE AwaitsStart(s, n, p)
    <3>1. AwaitsStart(e, n, p)
      BY <1>5, <1>6, <2>1, <2>2 DEF AwaitsStart, SameMinima
    <3>2. QED
      BY <3>1 DEF Phase, e
  <2>3. CASE ~ AwaitsStart(s, n, p)
    BY <1>4, <2>1, <2>3, SamePhase DEF e
  <2>4. QED
    BY <2>2, <2>3
<1>7. ASSUME new \/ ~ r.startNew
      PROVE  Phase(MeasureIntervalStart(s), n, p)
  BY <1>2, <1>4, <1>5, <1>7, IntervalStartPhase
<1>8. QED
  BY <1>3, <1>4, <1>6, <1>7

\* A sample is one of the delays that the links have in the phase.
LEMMA SamplePhase ==
    ASSUME TypeInv, NEW r \in RxType, NEW n, NEW p \in Int,
           NEW link \in Links, NEW new \in BOOLEAN, Phase(r, n, p),
           ~ new => Owd(link, FALSE) > p
    PROVE  Phase(Sample(r, link, new), n, p)
<1> DEFINE owd == Owd(link, new)
<1> DEFINE low == IF r.cur[link] = NoOwd THEN owd
                  ELSE IF r.cur[link] <= owd THEN r.cur[link] ELSE owd
<1> DEFINE s == Sample(r, link, new)
<1>1. /\ Slowest \in Nat
      /\ base[link] \in Nat /\ base[link] <= Slowest
      /\ ToSlowest[link] = Slowest - base[link] /\ NoDelay[link] = 0
  BY SlowestLink DEF TypeInv
<1>2. owd \in Nat
  BY OwdType DEF TypeInv
<1>3. /\ new => owd = base[link] + m_emulateDelay[link]
      /\ ~ new => owd = base[link] + before[link] /\ owd > p
  <2>1. CASE new
    <3>1. owd = Owd(link, TRUE)
      BY <2>1
    <3>2. QED
      BY <3>1, <2>1, OwdType DEF TypeInv
  <2>2. CASE ~ new
    <3>1. owd = Owd(link, FALSE)
      BY <2>2
    <3>2. QED
      BY <3>1, <2>2, OwdType DEF TypeInv
  <2>3. QED
    BY <2>1, <2>2
<1>4. low \in Nat /\ s = [r EXCEPT !.cur = [r.cur EXCEPT ![link] = low],
                                   !.current = IF new THEN r.current \cup {link} ELSE r.current]
  BY <1>2, SampleShape
<1>5. low \in {r.cur[link], owd} /\ (r.cur[link] = NoOwd => low = owd)
  BY <1>4
<1> HIDE DEF owd, low, s
<1>6. /\ s.cur = [r.cur EXCEPT ![link] = low]
      /\ s.last = r.last /\ s.prev = r.prev /\ s.adj = r.adj
      /\ s.started = r.started /\ s.startNew = r.startNew /\ s.event = r.event
  BY <1>4 DEF RxType
<1>7. \A l \in Links : s.cur[l] = r.cur[l] \/ (l = link /\ s.cur[l] \in {r.cur[l], owd})
  BY <1>5, <1>6 DEF RxType, Minima
<1>8. Unreported(r, n) => Unreported(s, n)
  <2> SUFFICES ASSUME Unreported(r, n)
               PROVE  Unreported(s, n)
    OBVIOUS
  <2>1. owd = base[link]
    BY <1>1, <1>3 DEF Unreported
  <2>2. \A l \in Links : s.cur[l] \in {base[l], NoOwd}
    BY <1>7, <2>1 DEF Unreported
  <2>3. QED
    BY <1>6, <2>2 DEF Unreported
<1>9. AwaitsAdoption(r, n) => AwaitsAdoption(s, n)
  <2> SUFFICES ASSUME AwaitsAdoption(r, n)
               PROVE  AwaitsAdoption(s, n)
    OBVIOUS
  <2>1. owd = base[link]
    BY <1>1, <1>3 DEF AwaitsAdoption
  <2>2. \A l \in Links : s.cur[l] \in {base[l], NoOwd}
    BY <1>7, <2>1 DEF AwaitsAdoption
  <2>3. QED
    BY <1>6, <2>2 DEF AwaitsAdoption
<1>10. Adopted => owd \in {base[link], Slowest}
  BY <1>1, <1>3 DEF Adopted
<1>11. AwaitsTsa(r, n) => AwaitsTsa(s, n)
  <2> SUFFICES ASSUME AwaitsTsa(r, n)
               PROVE  AwaitsTsa(s, n)
    OBVIOUS
  <2>1. \A l \in Links : s.cur[l] \in {base[l], Slowest, NoOwd}
    BY <1>7, <1>10 DEF AwaitsTsa
  <2>2. QED
    BY <1>6, <2>1 DEF AwaitsTsa
<1>12. AwaitsStart(r, n, p) => AwaitsStart(s, n, p)
  <2> SUFFICES ASSUME AwaitsStart(r, n, p)
               PROVE  AwaitsStart(s, n, p)
    OBVIOUS
  <2>1. \A l \in Links : s.cur[l] \in {base[l], Slowest, NoOwd}
    BY <1>7, <1>10 DEF AwaitsStart
  <2>2. QED
    BY <1>6, <2>1 DEF AwaitsStart
<1>13. Levelled(r, n, p) => Levelled(s, n, p)
  <2> SUFFICES ASSUME Levelled(r, n, p)
               PROVE  Levelled(s, n, p)
    OBVIOUS
  <2>1. owd = Slowest
    <3>1. CASE new
      BY <1>1, <1>3, <3>1 DEF Levelled, Adopted
    <3>2. CASE ~ new /\ before = ToSlowest
      BY <1>1, <1>3, <3>2
    <3>3. CASE ~ new /\ before # ToSlowest
      <4>1. p >= Slowest /\ owd = base[link]
        BY <1>1, <1>3, <3>3 DEF Levelled, Adopted
      <4>2. QED
        BY <4>1, <1>1, <1>3, <3>3
    <3>4. QED
      BY <3>1, <3>2, <3>3
  <2>2. \A l \in Links : s.cur[l] \in {Slowest, NoOwd}
    BY <1>7, <2>1 DEF Levelled
  <2>3. QED
    BY <1>6, <2>2 DEF Levelled
<1>14. QED
  BY <1>8, <1>9, <1>11, <1>12, <1>13 DEF Phase, s

\* With every link sampled, the vector of a first report is what the transmitter has to add.
LEMMA FirstVector ==
    ASSUME base \in [Links -> Nat], NEW r, r.last = base
    PROVE  OwdVector(r) = ToSlowest
<1>1. \A link \in Links : base[link] # NoOwd
  BY CycleAssumption
<1>2. {link \in Links : r.last[link] # NoOwd} = Links
  BY <1>1
<1>3. OwdVector(r) =
        [link \in Links |-> IF link \in Links THEN Max({base[l] : l \in Links}) - base[link]
                            ELSE NoOwd]
  BY <1>2, Zenon DEF OwdVector
<1>4. QED
  BY <1>3 DEF ToSlowest, Slowest

\* What the update of the minima makes of the phase: a report of the links' own delays,
\* or nothing that differs from the last one.
LEMMA UpdatePhase ==
    ASSUME base \in [Links -> Nat], NEW r \in RxType, NEW n, NEW p,
           Unreported(r, n) \/ Levelled(r, n, p),
           r.due => \A link \in Links : r.cur[link] # NoOwd
    PROVE  LET m == [UpdateMinOwdCheck(r) EXCEPT !.on = FALSE, !.started = FALSE]
           IN  /\ m \in RxType /\ ~ m.on
               /\ Reports(m) => /\ m_emulateDelay = NoDelay /\ before = NoDelay
                                     /\ m.last = base /\ m.adj = NoDelay
               /\ ~ Reports(m) =>
                     \A s, f : SameMinima(s, m) /\ QuietWire(f) => Unreported(s, f) \/ Levelled(s, f, p)
<1> DEFINE u == UpdateMinOwdCheck(r)
<1> DEFINE m == [u EXCEPT !.on = FALSE, !.started = FALSE]
<1>1. /\ u \in RxType /\ u.prev = r.prev /\ u.adj = r.adj
      /\ r.due => u.last = r.cur /\ u.cur = NoneMeasured
      /\ ~ r.due => u.last = r.last /\ u.cur = r.cur
  <2>1. CASE r.due
    <3>1. u = [r EXCEPT !.last = r.cur, !.cur = NoneMeasured, !.current = {}, !.due = FALSE]
      BY <2>1 DEF UpdateMinOwdCheck
    <3> HIDE DEF u
    <3>2. QED
      BY <2>1, <3>1, NoneMeasuredType DEF RxType
  <2>2. CASE ~ r.due
    BY <2>2 DEF UpdateMinOwdCheck
  <2>3. QED
    BY <2>1, <2>2
<1> HIDE DEF u
<1>2. /\ m \in RxType /\ ~ m.on
      /\ m.prev = u.prev /\ m.adj = u.adj /\ m.last = u.last /\ m.cur = u.cur
  BY <1>1 DEF RxType
<1> HIDE DEF m
<1>3. /\ Slowest \in Nat
      /\ \E link \in Links : base[link] = Slowest
      /\ \A link \in Links : base[link] \in Nat /\ base[link] <= Slowest
  BY SlowestLink
<1>4. base # Never
  <2>1. base \in [Links -> Nat \cup {NoOwd}]
    OBVIOUS
  <2>2. QED
    BY <2>1, CycleAssumption
<1>5. r.cur \in [Links -> Nat \cup {NoOwd}] /\ NoneMeasured = [link \in Links |-> NoOwd]
  BY DEF RxType, Minima, NoneMeasured
<1>6. CASE Unreported(r, n)
  <2>1. /\ m_emulateDelay = NoDelay /\ before = NoDelay
        /\ m.prev = Never /\ m.adj = NoDelay
    BY <1>1, <1>2, <1>6 DEF Unreported
  <2>2. r.due => r.cur = base
    BY <1>5, <1>6 DEF Unreported
  <2>3. m.last = base \/ m.last = NoneMeasured
    BY <1>1, <1>2, <1>6, <2>2 DEF Unreported
  <2>4. \A link \in Links : m.cur[link] \in {base[link], NoOwd}
    BY <1>1, <1>2, <1>5, <1>6 DEF Unreported
  <2>5. Reports(m) => m.last = base
    BY <1>5, <2>3 DEF Reports
  <2>6. ~ Reports(m) /\ m.last = base => Slowest = 0
    <3> SUFFICES ASSUME ~ Reports(m), m.last = base
                 PROVE  Slowest = 0
      OBVIOUS
    <3>1. m.last # m.prev
      BY <1>4, <2>1
    <3>2. ~ \E link \in Links : base[link] # NoOwd /\ base[link] > 0
      BY <3>1 DEF Reports
    <3>3. \A link \in Links : base[link] # NoOwd
      BY <1>3, CycleAssumption
    <3>4. QED
      BY <1>3, <3>2, <3>3
  <2>7. ~ Reports(m) => \A s, f : SameMinima(s, m) /\ QuietWire(f) => Unreported(s, f)
    BY <2>1, <2>3, <2>4, <2>6 DEF SameMinima, Unreported
  <2>8. QED
    BY <1>2, <2>1, <2>5, <2>7 DEF m, u
<1>7. CASE Levelled(r, n, p)
  <2>1. r.due => r.cur = AllSlowest
    BY <1>5, <1>7 DEF Levelled, AllSlowest
  <2>2. m.last = AllSlowest /\ m.prev = AllSlowest /\ m.adj = NoDelay
    BY <1>1, <1>2, <1>7, <2>1 DEF Levelled
  <2>3. \A link \in Links : m.cur[link] \in {Slowest, NoOwd}
    BY <1>1, <1>2, <1>5, <1>7 DEF Levelled
  <2>4. ~ Reports(m)
    BY <2>2 DEF Reports
  <2>5. \A s, f : SameMinima(s, m) /\ QuietWire(f) => Levelled(s, f, p)
    BY <1>7, <2>2, <2>3 DEF SameMinima, Levelled
  <2>6. QED
    BY <1>2, <2>4, <2>5 DEF m, u
<1>8. QED
  BY <1>6, <1>7

\* The end of a cycle in which every link due for an update has a current sample.
LEMMA EndCyclePhase ==
    ASSUME base \in [Links -> Nat], tidy',
           NEW r, RxOK(r), r.started, NEW p, WireOK(net), TidyWire(TRUE, net),
           Phase(r, net, p), NEW update \in BOOLEAN, EndCycle(r, update)
    PROVE  TidyWire(rx'.on, net') /\ Phase(rx', net', p)
<1> DEFINE m == [UpdateMinOwdCheck(r) EXCEPT !.on = FALSE, !.started = FALSE]
<1>1. /\ tidy' = (tidy /\ ~ (r.due /\ r.current # Links))
      /\ \/ Reports(m) /\ rx' = Report(m) /\ net' = SendTsu(net, OwdVector(m))
         \/ ~ Reports(m) /\ rx' = m /\ net' = SendTsu(net, NoneMeasured)
         \/ ~ Reports(m) /\ rx' = MeasureCycleStart(m) /\ UNCHANGED net
  BY DEF EndCycle
<1>2. r.due => \A link \in Links : r.cur[link] # NoOwd
  BY <1>1 DEF RxOK, RxPhase
<1>3. net.queue = {}
  BY DEF TidyWire
<1>4. Unreported(r, net) \/ Levelled(r, net, p)
  BY <1>3 DEF Phase, AwaitsAdoption, AwaitsTsa, AwaitsStart, ReportWire, AdoptedWire
<1>5. /\ m \in RxType /\ ~ m.on
      /\ Reports(m) => /\ m_emulateDelay = NoDelay /\ before = NoDelay
                            /\ m.last = base /\ m.adj = NoDelay
      /\ ~ Reports(m) =>
            \A s, f : SameMinima(s, m) /\ QuietWire(f) => Unreported(s, f) \/ Levelled(s, f, p)
  BY <1>2, <1>4, UpdatePhase DEF RxOK
<1> HIDE DEF m
<1>6. CASE Reports(m) /\ rx' = Report(m) /\ net' = SendTsu(net, OwdVector(m))
  <2>1. OwdVector(m) = ToSlowest
    BY <1>5, <1>6, FirstVector
  <2>2. ToSlowest \in Minima
    <3>1. ToSlowest \in [Links -> Nat]
      BY SlowestLink
    <3>2. QED
      BY <3>1 DEF Minima
  <2>3. TidyWire(FALSE, net') /\ ReportWire(net')
    BY <1>6, <2>1, <2>2, SendTsuTidy
  <2>4. rx' = [m EXCEPT !.prev = m.last, !.cur = NoneMeasured, !.current = {}]
    BY <1>6 DEF Report
  <2>5. /\ rx'.prev = base /\ rx'.last = base /\ rx'.adj = NoDelay
        /\ rx'.cur = NoneMeasured /\ rx'.on = FALSE
    BY <1>5, <1>6, <2>4 DEF RxType
  <2>6. \A link \in Links : rx'.cur[link] = NoOwd
    BY <2>5 DEF NoneMeasured
  <2>7. AwaitsAdoption(rx', net')
    BY <1>5, <1>6, <2>3, <2>5, <2>6 DEF AwaitsAdoption
  <2>8. QED
    BY <2>3, <2>5, <2>7 DEF Phase
<1>7. CASE ~ Reports(m) /\ rx' = m /\ net' = SendTsu(net, NoneMeasured)
  <2>1. TidyWire(FALSE, net') /\ QuietWire(net')
    BY <1>7, NoneMeasuredType, SendTsuTidy
  <2>2. SameMinima(rx', m) /\ rx'.on = FALSE
    BY <1>5, <1>7 DEF SameMinima, RxType
  <2>3. QED
    BY <1>5, <1>7, <2>1, <2>2 DEF Phase
<1>8. CASE ~ Reports(m) /\ rx' = MeasureCycleStart(m) /\ UNCHANGED net
  <2>1. rx' = [m EXCEPT !.index = 0, !.startNew = m.lastNew, !.on = TRUE, !.started = FALSE,
                        !.delayed = FALSE]
    BY <1>8 DEF MeasureCycleStart
  <2>2. SameMinima(rx', m) /\ rx'.on = TRUE
    BY <1>5, <2>1 DEF SameMinima, RxType
  <2>3. QuietWire(net)
    BY <1>4 DEF Unreported, Levelled
  <2>4. QED
    BY <1>5, <1>8, <2>2, <2>3 DEF Phase
<1>9. QED
  BY <1>1, <1>6, <1>7, <1>8

\* The check at the end of every data packet.
LEMMA EndCheckPhase ==
    ASSUME base \in [Links -> Nat], tidy',
           NEW r, RxOK(r), r.on, NEW p, WireOK(net), TidyWire(TRUE, net), Phase(r, net, p),
           NEW over \in BOOLEAN, NEW converged \in BOOLEAN, NEW update \in BOOLEAN,
           MeasureIntervalEndCheck(r, over, converged, update)
    PROVE  TidyWire(rx'.on, net') /\ Phase(rx', net', p)
<1>1. CASE ~ r.started \/ ~ over
  BY <1>1 DEF MeasureIntervalEndCheck
<1>2. CASE r.started /\ over /\ EndMeasurement(r, converged)
  <2>1. EndCycle(r, update)
    BY <1>2 DEF MeasureIntervalEndCheck
  <2>2. QED
    BY <1>2, <2>1, EndCyclePhase
<1>3. CASE r.started /\ over /\ ~ EndMeasurement(r, converged)
  <2>1. rx' = MeasureIntervalStart(r) /\ UNCHANGED net
    BY <1>3 DEF MeasureIntervalEndCheck
  <2>3. net.queue = {} /\ ~ AwaitsStart(r, net, p)
    BY <1>3 DEF TidyWire, AwaitsStart
  <2>4. Phase(MeasureIntervalStart(r), net, p)
    BY <2>3, IntervalStartPhase DEF RxOK
  <2>5. MeasureIntervalStart(r).on = TRUE
    BY DEF MeasureIntervalStart, RxOK, RxType
  <2>6. QED
    BY <2>1, <2>4, <2>5
<1>4. QED
  BY <1>1, <1>2, <1>3

-----------------------------------------------------------------------------
(***************************************************************************)
(* Each action keeps TidyInv.                                              *)
(***************************************************************************)
\* The delays are those of before.
LEMMA SameDelays ==
    ASSUME UNCHANGED <<base, m_emulateDelay, before>>,
           tidy' => TidyWire(rx'.on, net') /\ Phase(rx', net', passed')
    PROVE  TidyInv'
<1>1. Slowest' = Slowest
  BY DEF Slowest
<1>2. ToSlowest' = ToSlowest /\ AllSlowest' = AllSlowest /\ NoDelay' = NoDelay
  BY <1>1 DEF ToSlowest, AllSlowest, NoDelay
<1>3. Adopted' <=> Adopted
  BY <1>2 DEF Adopted
<1>4. /\ ReportWire(net') => ReportWire(net)'
      /\ AdoptedWire(net') => AdoptedWire(net)'
  BY <1>2 DEF ReportWire, AdoptedWire
<1>5. QuietWire(net') => QuietWire(net)'
  BY <1>2 DEF QuietWire
<1>6. Unreported(rx', net') => Unreported(rx, net)'
  BY <1>1, <1>2, <1>5 DEF Unreported
<1>7. AwaitsAdoption(rx', net') => AwaitsAdoption(rx, net)'
  BY <1>2, <1>4 DEF AwaitsAdoption
<1>8. AwaitsTsa(rx', net') => AwaitsTsa(rx, net)'
  BY <1>1, <1>3, <1>4 DEF AwaitsTsa
<1>9. AwaitsStart(rx', net', passed') => AwaitsStart(rx, net, passed)'
  BY <1>1, <1>2, <1>3 DEF AwaitsStart
<1>10. Levelled(rx', net', passed') => Levelled(rx, net, passed)'
  BY <1>1, <1>2, <1>3, <1>5 DEF Levelled
<1>11. Phase(rx', net', passed') => Phase(rx, net, passed)'
  BY <1>6, <1>7, <1>8, <1>9, <1>10 DEF Phase
<1>12. TidyWire(rx'.on, net') => TidyWire(rx.on, net)'
  BY DEF TidyWire
<1>13. QED
  BY <1>11, <1>12 DEF TidyInv

\* A data packet: the samples it may add, and the interval or the cycle it may end.
LEMMA ReceiveTidy ==
    ASSUME TypeInv, TidyInv, NEW link \in Links, NEW new \in BOOLEAN,
           NEW inOrder \in BOOLEAN, NEW over \in BOOLEAN, NEW converged \in BOOLEAN,
           NEW update \in BOOLEAN, Receive(link, new, inOrder, over, converged, update)
    PROVE  TidyInv'
<1> DEFINE r == IF inOrder THEN MeasureIntervalStartCheck(rx, new) ELSE rx
<1> DEFINE s == Sample(r, link, new)
<1>1. /\ rx.on
      /\ Arrives(link, new)
      /\ MeasureIntervalEndCheck(s, over, converged, update)
      /\ UNCHANGED <<base, m_emulateDelay, before, overtaken>>
  BY DEF Receive
<1>2. RxOK(r) /\ r.on
  <2>1. CASE inOrder
    BY <1>1, <2>1, StartCheckOK DEF TypeInv
  <2>2. CASE ~ inOrder
    BY <1>1, <2>2 DEF TypeInv
  <2>3. QED
    BY <2>1, <2>2
<1>3. Owd(link, new) \in Nat
  BY OwdType DEF TypeInv
<1>4. Sample(r, link, new).on = r.on /\ RxOK(Sample(r, link, new))
  <2> HIDE DEF r
  <2>1. QED
    BY <1>2, <1>3, SampleOK
<1>5. /\ passed' \in Int /\ passed \in Int /\ passed <= passed'
      /\ new => passed' >= Owd(link, TRUE)
      /\ ~ new => Owd(link, FALSE) > passed'
  <2> DEFINE owd == Owd(link, TRUE)
  <2> DEFINE owdBefore == Owd(link, FALSE)
  <2>1. /\ passed' \in Nat \cup {-1} /\ passed \in Nat \cup {-1}
        /\ new => passed' >= owd /\ passed' >= passed
        /\ ~ new => passed' = passed /\ owdBefore > passed
    BY <1>1, ArrivesType DEF TypeInv
  <2> HIDE DEF owd, owdBefore
  <2>2. /\ passed' \in Int /\ passed \in Int /\ passed <= passed'
        /\ new => passed' >= owd
        /\ ~ new => owdBefore > passed'
    BY <2>1
  <2>3. QED
    BY <2>2 DEF owd, owdBefore
<1>6. /\ Slowest \in Nat
      /\ base[link] \in Nat /\ ToSlowest[link] = Slowest - base[link]
      /\ base \in [Links -> Nat]
  BY SlowestLink DEF TypeInv
<1>7. Adopted /\ new => passed' >= Slowest
  <2> SUFFICES ASSUME Adopted, new
               PROVE  passed' >= Slowest
    OBVIOUS
  <2> DEFINE owd == Owd(link, TRUE)
  <2>1. owd = base[link] + ToSlowest[link]
    BY OwdType DEF TypeInv, Adopted
  <2>2. passed' >= owd /\ passed' \in Int
    BY <1>5
  <2> HIDE DEF owd
  <2>3. QED
    BY <1>6, <2>1, <2>2
<1>8. tidy' => tidy
  BY <1>1 DEF MeasureIntervalEndCheck, EndCycle
<1>9. ASSUME tidy'
      PROVE  TidyWire(rx'.on, net') /\ Phase(rx', net', passed')
  <2>1. TidyWire(TRUE, net) /\ net.queue = {} /\ Phase(rx, net, passed)
    <3>1. TidyWire(rx.on, net) /\ Phase(rx, net, passed)
      BY <1>8, <1>9 DEF TidyInv
    <3>2. QED
      BY <1>1, <3>1 DEF TidyWire
  <2>2. Phase(rx, net, passed')
    BY <1>5, <1>6, <2>1, LaterPhase
  <2>3. Phase(r, net, passed')
    <3>1. CASE inOrder
      BY <1>6, <1>7, <2>1, <2>2, <3>1, StartCheckPhase DEF TypeInv
    <3>2. CASE ~ inOrder
      BY <2>2, <3>2
    <3>3. QED
      BY <3>1, <3>2
  <2> HIDE DEF r
  <2>4. Phase(s, net, passed')
    BY <1>2, <1>5, <2>3, SamplePhase DEF RxOK
  <2> HIDE DEF s
  <2>5. RxOK(s) /\ s.on
    BY <1>2, <1>4 DEF s
  <2>6. WireOK(net)
    BY DEF TypeInv
  <2>7. QED
    BY <1>1, <1>6, <1>9, <2>1, <2>4, <2>5, <2>6, EndCheckPhase
<1>10. QED
  BY <1>1, <1>9, SameDelays

\* A probe or an acknowledgement: a sample.
LEMMA ReceiveCtrlTidy ==
    ASSUME TypeInv, TidyInv, NEW link \in Links, NEW new \in BOOLEAN,
           ReceiveCtrl(link, new)
    PROVE  TidyInv'
<1>1. /\ Arrives(link, new)
      /\ rx' = Sample(rx, link, new)
      /\ UNCHANGED <<base, m_emulateDelay, before, net, bound, tidy, overtaken>>
  BY DEF ReceiveCtrl
<1>2. Owd(link, new) \in Nat
  BY OwdType DEF TypeInv
<1>3. rx'.on = rx.on
  BY <1>1, <1>2, SampleOK DEF TypeInv
<1>4. /\ passed' \in Int /\ passed \in Int /\ passed <= passed'
      /\ ~ new => Owd(link, FALSE) > passed'
  <2> DEFINE owdBefore == Owd(link, FALSE)
  <2>1. /\ passed' \in Nat \cup {-1} /\ passed \in Nat \cup {-1}
        /\ new => passed' >= passed
        /\ ~ new => passed' = passed /\ owdBefore > passed
    BY <1>1, ArrivesType DEF TypeInv
  <2> HIDE DEF owdBefore
  <2>2. /\ passed' \in Int /\ passed \in Int /\ passed <= passed'
        /\ ~ new => owdBefore > passed'
    BY <2>1
  <2>3. QED
    BY <2>2 DEF owdBefore
<1>5. Slowest \in Int
  BY SlowestLink DEF TypeInv
<1>6. ASSUME tidy'
      PROVE  TidyWire(rx'.on, net') /\ Phase(rx', net', passed')
  <2>1. TidyWire(rx.on, net) /\ Phase(rx, net, passed)
    BY <1>1, <1>6 DEF TidyInv
  <2>2. Phase(rx, net, passed')
    BY <1>4, <1>5, <2>1, LaterPhase
  <2>3. Phase(Sample(rx, link, new), net, passed')
    BY <1>4, <2>2, SamplePhase DEF TypeInv, RxOK
  <2>4. QED
    BY <1>1, <1>3, <2>1, <2>3
<1>7. QED
  BY <1>1, <1>6, SameDelays

\* The timer that starts an interval: it runs only when the first packet has arrived.
LEMMA DelayedStartTidy ==
    ASSUME TypeInv, TidyInv, DelayedStart
    PROVE  TidyInv'
<1> DEFINE r == [rx EXCEPT !.event = FALSE]
<1>1. /\ rx.event /\ rx' = MeasureIntervalStart(r)
      /\ UNCHANGED <<base, m_emulateDelay, before, passed, net, bound, tidy, overtaken>>
  BY DEF DelayedStart
<1>2. rx \in RxType /\ rx.on
  BY <1>1 DEF TypeInv, RxOK, RxPhase
<1>3. /\ r \in RxType /\ SameMinima(r, rx) /\ r.on = TRUE /\ r.started = rx.started
      /\ r.startNew = rx.startNew /\ r.event = FALSE
  BY <1>2 DEF RxType, SameMinima
<1> HIDE DEF r
<1>4. ASSUME tidy
      PROVE  TidyWire(rx'.on, net) /\ Phase(rx', net, passed)
  <2>1. TidyWire(TRUE, net) /\ net.queue = {} /\ Phase(rx, net, passed)
    <3>1. TidyWire(rx.on, net) /\ Phase(rx, net, passed)
      BY <1>4 DEF TidyInv
    <3>2. QED
      BY <1>2, <3>1 DEF TidyWire
  <2>2. Phase(rx', net, passed)
    <3>1. CASE AwaitsStart(rx, net, passed)
      <4>1. AwaitsStart(r, net, passed) /\ passed >= Slowest
        BY <1>1, <1>3, <3>1 DEF AwaitsStart, SameMinima
      <4>2. base \in [Links -> Nat]
        BY DEF TypeInv
      <4>3. Phase(r, net, passed)
        BY <4>1 DEF Phase
      <4>4. QED
        BY <1>1, <1>3, <2>1, <4>1, <4>2, <4>3, IntervalStartPhase
    <3>2. CASE ~ AwaitsStart(rx, net, passed)
      <4>1. Unreported(rx, net) \/ Levelled(rx, net, passed)
        BY <2>1, <3>2 DEF Phase, AwaitsAdoption, AwaitsTsa, ReportWire, AdoptedWire
      <4>2. Unreported(r, net) \/ Levelled(r, net, passed)
        BY <1>3, <4>1 DEF Unreported, Levelled, SameMinima
      <4>3. QED
        BY <1>1, <1>3, <4>2, QuietStartPhase
    <3>3. QED
      BY <3>1, <3>2
  <2>3. rx'.on = TRUE
    BY <1>1, <1>3 DEF MeasureIntervalStart, RxType
  <2>4. QED
    BY <2>1, <2>2, <2>3
<1>5. QED
  BY <1>1, <1>4, SameDelays

\* The phases depend on the wire as far as it is quiet, or carries the report or its TSA.
LEMMA WirePhase ==
    ASSUME NEW r, NEW n, NEW f, NEW p, Phase(r, n, p),
           QuietWire(n) => QuietWire(f), ReportWire(n) => ReportWire(f),
           AdoptedWire(n) => AdoptedWire(f), n.queue = {} => f.queue = {}
    PROVE  Phase(r, f, p)
<1>1. Unreported(r, n) => Unreported(r, f)
  BY DEF Unreported
<1>2. AwaitsAdoption(r, n) => AwaitsAdoption(r, f)
  BY DEF AwaitsAdoption
<1>3. AwaitsTsa(r, n) => AwaitsTsa(r, f)
  BY DEF AwaitsTsa
<1>4. AwaitsStart(r, n, p) => AwaitsStart(r, f, p)
  BY DEF AwaitsStart
<1>5. Levelled(r, n, p) => Levelled(r, f, p)
  BY DEF Levelled
<1>6. QED
  BY <1>1, <1>2, <1>3, <1>4, <1>5 DEF Phase

\* A wire with messages less, after Forget.
LEMMA ThinPhase ==
    ASSUME NEW r, NEW n, NEW g, NEW p, NEW on \in BOOLEAN, TidyWire(on, n), Phase(r, n, p), WireOK(g),
           g.queue = n.queue, g.maxTsu = n.maxTsu, g.maxTsa = n.maxTsa,
           \A x \in g.tsus : \E y \in n.tsus : x.csn = y.csn /\ x.owds = y.owds,
           \A t \in g.tsas : t \in n.tsas \/ ~ t.first
    PROVE  /\ TidyWire(on, g) /\ Phase(r, g, p)
           /\ TidyWire(on, Forget(g)) /\ Phase(r, Forget(g), p)
<1>1. /\ TidyWire(on, g)
      /\ QuietWire(n) => QuietWire(g)
      /\ ReportWire(n) => ReportWire(g)
      /\ AdoptedWire(n) => AdoptedWire(g)
  BY ThinTidy
<1>2. Phase(r, g, p)
  BY <1>1, WirePhase
<1>3. /\ TidyWire(on, Forget(g))
      /\ QuietWire(g) => QuietWire(Forget(g))
      /\ ReportWire(g) => ReportWire(Forget(g))
      /\ AdoptedWire(g) => AdoptedWire(Forget(g))
      /\ g.queue = {} => Forget(g).queue = {}
  BY <1>1, ForgetTidy
<1>4. Phase(r, Forget(g), p)
  BY <1>2, <1>3, WirePhase
<1>5. QED
  BY <1>1, <1>2, <1>3, <1>4

\* The update timer, a repeated TSU, the TSU of a failed link, and a lost message.
LEMMA OtherTidy ==
    ASSUME TypeInv, TidyInv,
           \/ UpdateIsDue \/ LinkDownTsu \/ Lose
           \/ \E item \in net.queue : RetxCtrlMsgExpires(item)
           \/ UNCHANGED cycleVars
    PROVE  TidyInv'
<1>1. CASE UpdateIsDue
  <2>1. /\ UNCHANGED <<base, m_emulateDelay, before, passed, net, bound, tidy, overtaken>>
        /\ rx' = [rx EXCEPT !.due = TRUE]
    BY <1>1 DEF UpdateIsDue
  <2>2. /\ SameMinima(rx', rx) /\ rx'.on = rx.on
        /\ rx'.started = rx.started /\ rx'.startNew = rx.startNew /\ rx'.event = rx.event
    BY <2>1 DEF TypeInv, RxOK, RxType, SameMinima
  <2>3. ASSUME tidy
        PROVE  TidyWire(rx'.on, net) /\ Phase(rx', net, passed)
    <3>1. TidyWire(rx.on, net) /\ Phase(rx, net, passed)
      BY <2>3 DEF TidyInv
    <3>2. QED
      BY <2>2, <3>1, SamePhase
  <2>4. QED
    BY <2>1, <2>3, SameDelays
<1>2. CASE LinkDownTsu
  BY <1>2 DEF LinkDownTsu, TidyInv
<1>3. CASE \E item \in net.queue : RetxCtrlMsgExpires(item)
  BY <1>3 DEF RetxCtrlMsgExpires, TidyInv
<1>4. CASE UNCHANGED cycleVars
  <2>1. UNCHANGED <<base, m_emulateDelay, before, passed, rx, net, tidy>>
    BY <1>4 DEF cycleVars
  <2>2. tidy => TidyWire(rx.on, net) /\ Phase(rx, net, passed)
    BY DEF TidyInv
  <2>3. QED
    BY <2>1, <2>2, SameDelays
<1>5. CASE Lose
  <2>1. UNCHANGED <<base, m_emulateDelay, before, passed, rx, bound, tidy, overtaken>>
    BY <1>5 DEF Lose
  <2>2. net \in WireType /\ net.tsus \in SUBSET TsuType /\ WireOK(net) /\ rx.on \in BOOLEAN
    BY DEF TypeInv, WireOK, WireType, RxOK, RxType
  <2>3. ASSUME NEW m \in net.tsus, net' = Forget([net EXCEPT !.tsus = OneLess(@, m)]), tidy
        PROVE  TidyWire(rx.on, net') /\ Phase(rx, net', passed)
    <3> DEFINE tsus == OneLess(net.tsus, m)
    <3> DEFINE g == [net EXCEPT !.tsus = tsus]
    <3>1. /\ tsus \in SUBSET TsuType
          /\ \A x \in tsus : \E y \in net.tsus : x.csn = y.csn /\ x.owds = y.owds
      BY <2>2, OneLessIs
    <3>2. net' = Forget(g)
      BY <2>3
    <3> HIDE DEF tsus
    <3>3. /\ g.queue = net.queue /\ g.maxTsu = net.maxTsu /\ g.maxTsa = net.maxTsa
          /\ g.tsus = tsus /\ g.tsas = net.tsas
          /\ g = [net EXCEPT !.tsus = tsus, !.tsas = net.tsas, !.queue = net.queue]
      BY <2>2 DEF WireType
    <3> HIDE DEF g
    <3>4. WireOK(g)
      <4>1. WireOK([net EXCEPT !.tsus = tsus, !.tsas = net.tsas, !.queue = net.queue])
        BY <2>2, <3>1, FewerOK
      <4>2. QED
        BY <3>3, <4>1
    <3>5. TidyWire(rx.on, net) /\ Phase(rx, net, passed)
      BY <2>3 DEF TidyInv
    <3>6. /\ \A x \in g.tsus : \E y \in net.tsus : x.csn = y.csn /\ x.owds = y.owds
          /\ \A x \in g.tsas : x \in net.tsas \/ ~ x.first
      BY <3>1, <3>3
    <3>7. g.queue = net.queue /\ g.maxTsu = net.maxTsu /\ g.maxTsa = net.maxTsa
      BY <3>3
    <3>8. TidyWire(rx.on, Forget(g)) /\ Phase(rx, Forget(g), passed)
      BY <2>2, <3>4, <3>5, <3>6, <3>7, ThinPhase
    <3>9. QED
      BY <3>2, <3>8
  <2>4. ASSUME NEW m \in net.tsas, net' = [net EXCEPT !.tsas = @ \ {m}], tidy
        PROVE  TidyWire(rx.on, net') /\ Phase(rx, net', passed)
    <3> DEFINE tsas == net.tsas \ {m}
    <3> DEFINE g == [net EXCEPT !.tsas = tsas]
    <3>1. tsas \in SUBSET net.tsas /\ net' = g
      BY <2>4
    <3> HIDE DEF tsas
    <3>2. /\ g.queue = net.queue /\ g.maxTsu = net.maxTsu /\ g.maxTsa = net.maxTsa
          /\ g.tsus = net.tsus /\ g.tsas = tsas
          /\ g = [net EXCEPT !.tsus = net.tsus, !.tsas = tsas, !.queue = net.queue]
      BY <2>2 DEF WireType
    <3> HIDE DEF g
    <3>3. WireOK(g)
      <4>1. \A x \in net.tsus : \E y \in net.tsus : x.csn = y.csn
        OBVIOUS
      <4>2. WireOK([net EXCEPT !.tsus = net.tsus, !.tsas = tsas, !.queue = net.queue])
        BY <2>2, <3>1, <4>1, FewerOK
      <4>3. QED
        BY <3>2, <4>2
    <3>4. TidyWire(rx.on, net) /\ Phase(rx, net, passed)
      BY <2>4 DEF TidyInv
    <3>5. /\ \A x \in g.tsus : \E y \in net.tsus : x.csn = y.csn /\ x.owds = y.owds
          /\ \A x \in g.tsas : x \in net.tsas \/ ~ x.first
      BY <3>1, <3>2
    <3>6. g.queue = net.queue /\ g.maxTsu = net.maxTsu /\ g.maxTsa = net.maxTsa
      BY <3>2
    <3>7. TidyWire(rx.on, g) /\ Phase(rx, g, passed)
      BY <2>2, <3>3, <3>4, <3>5, <3>6, ThinPhase
    <3>8. QED
      BY <3>1, <3>7
  <2>5. tidy => TidyWire(rx.on, net') /\ Phase(rx, net', passed)
    BY <1>5, <2>3, <2>4 DEF Lose
  <2>6. QED
    BY <2>1, <2>5, SameDelays
<1>6. QED
  BY <1>1, <1>2, <1>3, <1>4, <1>5

\* A TSA: the first answer starts the cycle that waits for it.
LEMMA RecvTsaTidy ==
    ASSUME TypeInv, TidyInv, NEW t \in net.tsas, RecvTsa(t)
    PROVE  TidyInv'
<1> DEFINE settled == {item \in net.queue : t.csn \in item.csns}
<1> DEFINE queue == net.queue \ settled
<1> DEFINE tsas == net.tsas \ {t}
<1> DEFINE n == [net EXCEPT !.tsas = tsas, !.queue = queue]
<1>1. UNCHANGED <<base, m_emulateDelay, before, passed, bound, overtaken>>
  BY DEF RecvTsa
<1>2. \/ /\ settled # {} /\ t.csn > net.maxTsa
         /\ rx' = MeasureCycleStartByTsa(rx, t)
         /\ net' = Forget([n EXCEPT !.maxTsa = t.csn])
         /\ tidy' = (tidy /\ t.first)
      \/ /\ ~ (settled # {} /\ t.csn > net.maxTsa)
         /\ net' = Forget(n)
         /\ UNCHANGED <<rx, tidy>>
  BY DEF RecvTsa
<1>3. /\ net \in WireType /\ net.tsus \in SUBSET TsuType /\ WireOK(net) /\ rx.on \in BOOLEAN
      /\ net.maxTsu \in Nat /\ net.maxTsa \in Nat
      /\ t \in TsaType /\ t.csn \in Nat /\ t.csn <= net.maxTsu
  BY DEF TypeInv, WireOK, WireType, TsaType, RxOK, RxType
<1>4. tsas \in SUBSET net.tsas /\ queue \in SUBSET net.queue
  OBVIOUS
<1> HIDE DEF tsas, queue
<1>5. /\ n.queue = queue /\ n.maxTsu = net.maxTsu /\ n.maxTsa = net.maxTsa
      /\ n.tsus = net.tsus /\ n.tsas = tsas
      /\ n = [net EXCEPT !.tsus = net.tsus, !.tsas = tsas, !.queue = queue]
  BY <1>3 DEF WireType
<1> HIDE DEF n
<1>6. WireOK(n)
  <2>1. \A x \in net.tsus : \E y \in net.tsus : x.csn = y.csn
    OBVIOUS
  <2>2. WireOK([net EXCEPT !.tsus = net.tsus, !.tsas = tsas, !.queue = queue])
    BY <1>3, <1>4, <2>1, FewerOK
  <2>3. QED
    BY <1>5, <2>2
<1>7. ASSUME tidy
      PROVE  /\ TidyWire(rx.on, net) /\ Phase(rx, net, passed)
             /\ settled # {} => /\ queue = {} /\ rx.on = FALSE
                                /\ t.csn > net.maxTsa /\ t.csn = net.maxTsu
                                /\ Queued(net, t.csn)
                                /\ \A m \in net.tsus : m.csn <= t.csn
                                /\ \A item \in net.queue : item.csns = {t.csn}
  <2>1. TidyWire(rx.on, net) /\ Phase(rx, net, passed)
    BY <1>7 DEF TidyInv
  <2>2. ASSUME settled # {}
        PROVE  /\ queue = {} /\ rx.on = FALSE /\ t.csn > net.maxTsa /\ t.csn = net.maxTsu
               /\ Queued(net, t.csn)
               /\ \A m \in net.tsus : m.csn <= t.csn
               /\ \A item \in net.queue : item.csns = {t.csn}
    <3>1. PICK item \in net.queue : t.csn \in item.csns
      BY <2>2
    <3>2. PICK c \in item.csns :
             /\ item.csns = {c} /\ c > net.maxTsa /\ c >= net.maxTsu
             /\ \A m \in net.tsus : m.csn <= c
      BY <2>1 DEF TidyWire
    <3>3. net.queue = {item} /\ ~ rx.on
      BY <2>1 DEF TidyWire
    <3>4. c = t.csn
      BY <3>1, <3>2
    <3>5. t.csn = net.maxTsu
      BY <1>3, <3>2, <3>4
    <3>6. queue = {}
      BY <3>1, <3>3 DEF queue
    <3>7. Queued(net, t.csn)
      BY <3>1 DEF Queued
    <3>8. rx.on = FALSE
      BY <1>3, <3>3
    <3>9. QED
      BY <3>2, <3>3, <3>4, <3>5, <3>6, <3>7, <3>8
  <2>3. QED
    BY <2>1, <2>2
<1>8. ASSUME settled # {}, t.csn > net.maxTsa, rx' = MeasureCycleStartByTsa(rx, t),
             net' = Forget([n EXCEPT !.maxTsa = t.csn]), tidy, t.first
      PROVE  TidyWire(rx'.on, net') /\ Phase(rx', net', passed')
  <2> DEFINE g == [n EXCEPT !.maxTsa = t.csn]
  <2>1. /\ TidyWire(rx.on, net) /\ Phase(rx, net, passed)
        /\ queue = {} /\ rx.on = FALSE /\ t.csn = net.maxTsu /\ Queued(net, t.csn)
        /\ \A m \in net.tsus : m.csn <= t.csn
        /\ \A item \in net.queue : item.csns = {t.csn}
    BY <1>7, <1>8
  <2>2. n \in WireType
    BY <1>6 DEF WireOK
  <2>3. g \in WireType /\ g.queue = {} /\ g.tsus = net.tsus /\ g.maxTsu = net.maxTsu /\ g.maxTsa = t.csn
        /\ g.tsas = n.tsas /\ g.nextCsn = n.nextCsn
    BY <1>3, <1>5, <2>1, <2>2 DEF WireType
  <2>4. net' = Forget(g)
    BY <1>8
  <2> HIDE DEF g
  <2>5. WireOK(g)
    <3>1. n.maxTsu = net.maxTsu /\ n.maxTsu < n.nextCsn
      BY <1>5, <1>6 DEF WireOK
    <3>2. QED
      BY <1>6, <1>5, <2>1, <2>3, <3>1 DEF WireOK
  <2>6. TidyWire(TRUE, g)
    <3>1. \A m \in g.tsus : ~ (m.csn > g.maxTsu)
      <4> SUFFICES ASSUME NEW m \in net.tsus
                   PROVE  ~ (m.csn > net.maxTsu)
        BY <2>3
      <4>1. m.csn \in Nat /\ m.csn <= net.maxTsu
        BY <1>3, <2>1 DEF TsuType
      <4>2. QED
        BY <1>3, <4>1
    <3>2. QED
      BY <2>3, <3>1 DEF TidyWire
  <2>7. TidyWire(TRUE, net') /\ net'.queue = {}
    BY <2>3, <2>4, <2>5, <2>6, ForgetTidy
  <2>8. QuietWire(net')
    BY <2>7 DEF QuietWire, Queued
  <2>9. /\ rx'.on /\ ~ rx'.started /\ rx'.startNew = t.new /\ rx'.adj = t.offset
        /\ rx'.cur = rx.cur /\ rx'.last = rx.last /\ rx'.prev = rx.prev /\ rx'.event = rx.event
        /\ RxOK(rx')
    BY <1>3, <1>8, StartByTsaOK DEF TypeInv
  <2>10. rx'.on = TRUE
    BY <2>9 DEF RxOK, RxType
  <2>11. ~ rx'.event
    BY <2>1, <2>9 DEF TypeInv, RxOK, RxPhase
  <2>12. CASE Unreported(rx, net)
    <3>1. t.offset = NoDelay
      BY <1>8, <2>1, <2>12 DEF Unreported, QuietWire
    <3>2. Unreported(rx', net')
      BY <2>8, <2>9, <2>12, <3>1 DEF Unreported
    <3>3. QED
      BY <2>7, <2>10, <3>2 DEF Phase
  <2>13. CASE Levelled(rx, net, passed)
    <3>1. t.offset = NoDelay
      BY <1>8, <2>1, <2>13 DEF Levelled, QuietWire
    <3>2. Levelled(rx', net', passed')
      BY <1>1, <2>8, <2>9, <2>13, <3>1 DEF Levelled
    <3>3. QED
      BY <2>7, <2>10, <3>2 DEF Phase
  <2>14. ~ AwaitsAdoption(rx, net)
    BY <1>3, <2>1 DEF AwaitsAdoption, ReportWire
  <2>15. ~ AwaitsStart(rx, net, passed)
    BY <2>1 DEF AwaitsStart, Queued
  <2>16. CASE AwaitsTsa(rx, net)
    <3>1. t.offset = ToSlowest /\ t.new
      BY <1>8, <2>1, <2>16 DEF AwaitsTsa, AdoptedWire
    <3>2. AwaitsStart(rx', net', passed')
      BY <2>7, <2>9, <2>11, <2>16, <3>1 DEF AwaitsStart, AwaitsTsa
    <3>3. QED
      BY <2>7, <2>10, <3>2 DEF Phase
  <2>17. QED
    BY <2>1, <2>12, <2>13, <2>14, <2>15, <2>16 DEF Phase
<1>9. ASSUME ~ (settled # {} /\ t.csn > net.maxTsa), net' = Forget(n), UNCHANGED <<rx, tidy>>, tidy
      PROVE  TidyWire(rx'.on, net') /\ Phase(rx', net', passed')
  <2>1. TidyWire(rx.on, net) /\ Phase(rx, net, passed) /\ settled = {}
    BY <1>7, <1>9
  <2>2. n.queue = net.queue /\ n.maxTsu = net.maxTsu /\ n.maxTsa = net.maxTsa
    BY <1>5, <2>1 DEF queue
  <2>3. /\ \A x \in n.tsus : \E y \in net.tsus : x.csn = y.csn /\ x.owds = y.owds
        /\ \A x \in n.tsas : x \in net.tsas \/ ~ x.first
    BY <1>4, <1>5
  <2>4. TidyWire(rx.on, Forget(n)) /\ Phase(rx, Forget(n), passed)
    BY <1>3, <1>6, <2>1, <2>2, <2>3, ThinPhase
  <2>5. QED
    BY <1>1, <1>9, <2>4
<1>10. tidy' => TidyWire(rx'.on, net') /\ Phase(rx', net', passed')
  BY <1>2, <1>8, <1>9
<1>11. QED
  BY <1>1, <1>10, SameDelays

\* A TSU without measurements changes no delay.
LEMMA QuietDelays ==
    ASSUME m_emulateDelay \in [Links -> Nat], SomeLinkUndelayed
    PROVE  /\ DelayOffset(NoneMeasured) = NoDelay
           /\ NewDelay(NoneMeasured) = m_emulateDelay
<1> DEFINE owds == NoneMeasured
<1> DEFINE f == RaisedDelay(owds)
<1>1. \A link \in Links : Raise(owds[link]) = 0 /\ m_emulateDelay[link] \in Nat
  BY DEF NoneMeasured, Raise
<1>2. \A link \in Links : f[link] = m_emulateDelay[link]
  BY <1>1 DEF RaisedDelay
<1>3. MinEmulatedDelay(owds) = Smallest({f[link] : link \in Links})
  BY DEF MinEmulatedDelay
<1>4. PICK link \in Links : m_emulateDelay[link] = 0
  BY DEF SomeLinkUndelayed
<1> HIDE DEF owds, f
<1>5. /\ Smallest({f[l] : l \in Links}) \in {f[l] : l \in Links}
      /\ \A l \in Links : Smallest({f[k] : k \in Links}) <= f[l]
  <2>1. \A l \in Links : f[l] \in Int
    BY <1>1, <1>2
  <2>2. QED
    BY <2>1, ExtremeValues
<1>6. MinEmulatedDelay(owds) = 0
  BY <1>1, <1>2, <1>3, <1>4, <1>5
<1>7. DelayOffset(owds) = NoDelay
  BY <1>1, <1>6 DEF DelayOffset, NoDelay
<1>8. NewDelay(owds) = m_emulateDelay
  BY <1>1, <1>2, <1>6 DEF NewDelay, f
<1>9. QED
  BY <1>7, <1>8 DEF owds

\* The first report makes all links as slow as the slowest.
LEMMA FirstDelays ==
    ASSUME base \in [Links -> Nat], CloseLinks, m_emulateDelay = NoDelay
    PROVE  DelayOffset(ToSlowest) = ToSlowest /\ NewDelay(ToSlowest) = ToSlowest
<1> DEFINE f == RaisedDelay(ToSlowest)
<1>1. /\ Slowest \in Nat
      /\ \A link \in Links : /\ base[link] \in Nat /\ base[link] <= Slowest
                             /\ ToSlowest[link] = Slowest - base[link]
                             /\ ToSlowest[link] \in Nat
                             /\ m_emulateDelay[link] = 0
  BY SlowestLink
<1>2. PICK slowest \in Links : base[slowest] = Slowest
  BY SlowestLink
<1>3. \A link \in Links : Raise(ToSlowest[link]) = ToSlowest[link]
  <2> SUFFICES ASSUME NEW link \in Links
               PROVE  Raise(ToSlowest[link]) = ToSlowest[link]
    OBVIOUS
  <2>1. base[slowest] - base[link] <= MaxDelayChangePerTSU
    BY DEF CloseLinks
  <2>2. ToSlowest[link] <= MaxDelayChangePerTSU
    BY <1>1, <1>2, <2>1
  <2>3. ToSlowest[link] # NoOwd
    BY <1>1, CycleAssumption
  <2>4. QED
    BY <2>2, <2>3 DEF Raise
<1>4. \A link \in Links : f[link] = ToSlowest[link]
  BY <1>1, <1>3 DEF RaisedDelay
<1>5. MinEmulatedDelay(ToSlowest) = Smallest({f[link] : link \in Links})
  BY DEF MinEmulatedDelay
<1>6. ToSlowest[slowest] = 0
  BY <1>1, <1>2
<1> HIDE DEF f
<1>7. /\ Smallest({f[l] : l \in Links}) \in {f[l] : l \in Links}
      /\ \A l \in Links : Smallest({f[k] : k \in Links}) <= f[l]
  <2>1. \A l \in Links : f[l] \in Int
    BY <1>1, <1>4
  <2>2. QED
    BY <2>1, ExtremeValues
<1>8. MinEmulatedDelay(ToSlowest) = 0
  BY <1>1, <1>4, <1>5, <1>6, <1>7
<1>9. ToSlowest \in [Links -> Nat]
  BY SlowestLink
<1>10. DelayOffset(ToSlowest) = ToSlowest
  BY <1>1, <1>3, <1>8, <1>9 DEF DelayOffset
<1>11. NewDelay(ToSlowest) = ToSlowest
  BY <1>1, <1>4, <1>8, <1>9 DEF NewDelay, f
<1>12. QED
  BY <1>10, <1>11

\* What depends on the delays of the links only.
LEMMA SameLinks ==
    ASSUME base' = base
    PROVE  Slowest' = Slowest /\ ToSlowest' = ToSlowest /\ AllSlowest' = AllSlowest
           /\ NoDelay' = NoDelay
<1>1. Slowest' = Slowest
  BY DEF Slowest
<1>2. QED
  BY <1>1 DEF ToSlowest, AllSlowest, NoDelay

\* The packets from before the change have all arrived.
LEMMA DrainTidy ==
    ASSUME TypeInv, TidyInv, Drain
    PROVE  TidyInv'
<1>1. /\ UNCHANGED <<base, m_emulateDelay, rx, net, bound, tidy, overtaken>>
      /\ before' = m_emulateDelay
      /\ passed' = Max({Owd(link, TRUE) : link \in Links})
  BY DEF Drain
<1>2. Slowest' = Slowest /\ ToSlowest' = ToSlowest /\ AllSlowest' = AllSlowest
      /\ NoDelay' = NoDelay
  BY <1>1, SameLinks
<1>3. Adopted => passed' >= Slowest
  <2> SUFFICES ASSUME Adopted
               PROVE  passed' >= Slowest
    OBVIOUS
  <2> DEFINE f == [link \in Links |-> Owd(link, TRUE)]
  <2>1. \A link \in Links : f[link] = Slowest
    <3> SUFFICES ASSUME NEW link \in Links
                 PROVE  Owd(link, TRUE) = Slowest
      OBVIOUS
    <3>1. Owd(link, TRUE) = base[link] + ToSlowest[link]
      BY OwdType DEF TypeInv, Adopted
    <3>2. /\ Slowest \in Nat /\ base[link] \in Nat
          /\ ToSlowest[link] = Slowest - base[link]
      BY SlowestLink DEF TypeInv
    <3>3. base[link] + ToSlowest[link] = Slowest
      BY <3>2
    <3>4. QED
      BY <3>1, <3>3, Zenon
  <2>2. {Owd(link, TRUE) : link \in Links} = {f[link] : link \in Links}
    OBVIOUS
  <2> HIDE DEF f
  <2>3. Slowest \in Nat
    BY SlowestLink DEF TypeInv
  <2>4. \A link \in Links : f[link] \in Nat
    BY <2>1, <2>3
  <2>5. \E link \in Links : Max({f[l] : l \in Links}) = f[link]
    BY <2>4, MaxOfLinks, LinksAssumption
  <2>6. passed' = Slowest
    BY <1>1, <2>1, <2>2, <2>5
  <2>7. QED
    BY <2>3, <2>6
<1>4. ASSUME tidy
      PROVE  TidyWire(rx.on, net) /\ Phase(rx, net, passed)'
  <2>1. TidyWire(rx.on, net) /\ Phase(rx, net, passed)
    BY <1>4 DEF TidyInv
  <2>2. Adopted => Adopted'
    BY <1>1, <1>2 DEF Adopted
  <2>3. QuietWire(net) => QuietWire(net)'
    BY <1>1, <1>2 DEF QuietWire
  <2>4. Unreported(rx, net) => Unreported(rx, net)'
    BY <1>1, <1>2, <2>3 DEF Unreported
  <2>5. AwaitsAdoption(rx, net) => AwaitsAdoption(rx, net)'
    BY <1>1, <1>2 DEF AwaitsAdoption, ReportWire
  <2>6. AwaitsTsa(rx, net) => AwaitsTsa(rx, net)'
    BY <1>1, <1>2, <2>2 DEF AwaitsTsa, AdoptedWire
  <2>7. AwaitsStart(rx, net, passed) => AwaitsStart(rx, net, passed)'
    BY <1>1, <1>2, <1>3, <2>2 DEF AwaitsStart
  <2>8. Levelled(rx, net, passed) => Levelled(rx, net, passed)'
    BY <1>1, <1>2, <1>3, <2>2, <2>3 DEF Levelled
  <2>9. QED
    BY <2>1, <2>4, <2>5, <2>6, <2>7, <2>8 DEF Phase
<1>5. TidyWire(rx.on, net) => TidyWire(rx.on, net)'
  BY <1>1 DEF TidyWire
<1>6. QED
  BY <1>1, <1>4, <1>5 DEF TidyInv

\* The adoption of a TSU leaves the wire tidy: the queued TSU is the one adopted.
LEMMA AdoptTidyWire ==
    ASSUME NEW n, WireOK(n), NEW on \in BOOLEAN, TidyWire(on, n), NEW m \in n.tsus, m.csn > n.maxTsu,
           NEW f, f.queue = n.queue, f.maxTsu = m.csn, f.maxTsa = n.maxTsa,
           \A x \in f.tsus : \E y \in n.tsus : x.csn = y.csn /\ x.owds = y.owds
    PROVE  /\ TidyWire(on, f)
           /\ n.queue # {}
           /\ \A item \in n.queue : item.csns = {m.csn} /\ item.owds = m.owds
           /\ \A t \in n.tsas : t.csn # m.csn
           /\ \A c : Queued(n, c) <=> c = m.csn
<1>1. PICK item \in n.queue : m.csn \in item.csns
  BY DEF TidyWire, Queued
<1>2. PICK c \in item.csns :
         /\ item.csns = {c} /\ c > n.maxTsa /\ c >= n.maxTsu
         /\ \A x \in n.tsus : x.csn <= c /\ (x.csn = c => x.owds = item.owds)
  BY DEF TidyWire
<1>3. c = m.csn /\ n.queue = {item} /\ m.owds = item.owds /\ ~ on
  BY <1>1, <1>2 DEF TidyWire
<1>4. n.maxTsu \in Nat /\ m.csn \in Nat /\ \A t \in n.tsas : t.csn \in Nat /\ t.csn <= n.maxTsu
  BY DEF WireOK, WireType, TsuType, TsaType
<1>5. \A x \in f.tsus : x.csn <= c /\ (x.csn = c => x.owds = item.owds)
  BY <1>2
<1>6. \A x \in f.tsus : ~ (x.csn > f.maxTsu)
  <2> SUFFICES ASSUME NEW x \in f.tsus
               PROVE  ~ (x.csn > m.csn)
    OBVIOUS
  <2>1. PICK y \in n.tsus : x.csn = y.csn
    OBVIOUS
  <2>2. y.csn \in Nat /\ y.csn <= m.csn
    BY <1>2, <1>3 DEF WireOK, WireType, TsuType
  <2>3. QED
    BY <1>4, <2>1, <2>2
<1>7. TidyWire(on, f)
  <2>1. f.queue = {item}
    BY <1>3
  <2>2. \A j \in f.queue :
           /\ f.queue = {j}
           /\ \E d \in j.csns :
                 /\ j.csns = {d} /\ d > f.maxTsa /\ d >= f.maxTsu
                 /\ \A x \in f.tsus : x.csn <= d /\ (x.csn = d => x.owds = j.owds)
    <3> SUFFICES ASSUME NEW j \in f.queue
                 PROVE  /\ f.queue = {j}
                        /\ \E d \in j.csns :
                              /\ j.csns = {d} /\ d > f.maxTsa /\ d >= f.maxTsu
                              /\ \A x \in f.tsus : x.csn <= d /\ (x.csn = d => x.owds = j.owds)
      OBVIOUS
    <3>1. j = item
      BY <2>1
    <3>2. c > f.maxTsa /\ c >= f.maxTsu
      BY <1>2, <1>3, <1>4
    <3>3. QED
      BY <1>2, <1>5, <2>1, <3>1, <3>2
  <2>3. f.queue # {}
    BY <2>1
  <2>4. \A x \in f.tsus : x.csn > f.maxTsu => Queued(f, x.csn)
    BY <1>6
  <2>5. QED
    BY <1>3, <2>2, <2>3, <2>4, Zenon DEF TidyWire
<1>8. \A t \in n.tsas : t.csn # m.csn
  BY <1>4
<1>9. \A d : Queued(n, d) <=> d = m.csn
  BY <1>2, <1>3 DEF Queued
<1>10. QED
  BY <1>2, <1>3, <1>7, <1>8, <1>9

\* A TSU: the first copy of the queued one is adopted, any other is answered with zeros.
LEMMA RecvTsuTidy ==
    ASSUME TypeInv, CloseLinks, TidyInv, NEW m \in net.tsus, NEW delayed \in BOOLEAN,
           RecvTsu(m, delayed)
    PROVE  TidyInv'
<1>1. UNCHANGED <<base, bound, tidy>>
  BY DEF RecvTsu
<1>2. /\ net \in WireType /\ net.tsus \in SUBSET TsuType /\ WireOK(net) /\ rx.on \in BOOLEAN
      /\ m \in TsuType /\ m.owds \in Minima
  BY DEF TypeInv, WireOK, WireType, TsuType, RxOK, RxType
<1>3. \A x \in OneLess(net.tsus, m) : \E y \in net.tsus : x.csn = y.csn /\ x.owds = y.owds
  BY <1>2, OneLessIs
<1>4. CASE m.csn > net.maxTsu /\ Adopt(m, delayed)
  <2> DEFINE new == AdoptTsa(m, delayed)
  <2>1. /\ m_emulateDelay' = NewDelay(m.owds) /\ before' = m_emulateDelay
        /\ rx' = Aged(rx)
    BY <1>4, AdoptIs
  <2>2. /\ WireOK(net')
        /\ net'.queue = net.queue /\ net'.maxTsu = m.csn /\ net'.maxTsa = net.maxTsa
        /\ net'.tsus = OneLess(net.tsus, m)
        /\ \A x \in net'.tsas : x = new \/ \E t \in net.tsas : x = [t EXCEPT !.new = FALSE]
        /\ new.csn = m.csn /\ new.offset = DelayOffset(m.owds) /\ new.new = TRUE
    BY <1>4, AdoptIs
  <2>3. SameMinima(rx', rx) /\ rx'.on = rx.on
    <3>1. rx' = [rx EXCEPT !.startNew = FALSE, !.lastNew = FALSE, !.current = {}]
      BY <2>1 DEF Aged
    <3>2. QED
      BY <3>1 DEF TypeInv, RxOK, RxType, SameMinima
  <2>4. Slowest' = Slowest /\ ToSlowest' = ToSlowest /\ AllSlowest' = AllSlowest
        /\ NoDelay' = NoDelay
    BY <1>1, SameLinks
  <2> HIDE DEF new
  <2>5. ASSUME tidy
        PROVE  TidyWire(rx'.on, net') /\ Phase(rx, net, passed)'
    <3>1. TidyWire(rx.on, net) /\ Phase(rx, net, passed)
      BY <2>5 DEF TidyInv
    <3>2. /\ TidyWire(rx.on, net')
          /\ net.queue # {}
          /\ \A item \in net.queue : item.csns = {m.csn} /\ item.owds = m.owds
          /\ \A t \in net.tsas : t.csn # m.csn
          /\ \A c : Queued(net, c) <=> c = m.csn
      <4>1. /\ net'.queue = net.queue /\ net'.maxTsu = m.csn /\ net'.maxTsa = net.maxTsa
            /\ \A x \in net'.tsus : \E y \in net.tsus : x.csn = y.csn /\ x.owds = y.owds
        BY <1>3, <2>2
      <4>2. QED
        BY <1>2, <1>4, <3>1, <4>1, AdoptTidyWire
    <3>3. \A t \in net'.tsas : t.csn = m.csn => t.offset = DelayOffset(m.owds) /\ t.new = TRUE
      <4>1. ASSUME NEW t \in net.tsas
            PROVE  [t EXCEPT !.new = FALSE].csn # m.csn
        <5>1. t \in TsaType
          BY <1>2 DEF WireType
        <5>2. QED
          BY <3>2, <5>1 DEF TsaType
      <4>2. QED
        BY <2>2, <4>1
    <3>4. \A c : Queued(net', c) <=> c = m.csn
      BY <2>2, <3>2 DEF Queued
    <3>5. ASSUME m.owds = NoneMeasured
          PROVE  QuietWire(net)' /\ m_emulateDelay' = m_emulateDelay
      <4>1. DelayOffset(m.owds) = NoDelay /\ NewDelay(m.owds) = m_emulateDelay
        BY <3>5, QuietDelays DEF TypeInv
      <4>2. \A item \in net'.queue : item.owds = NoneMeasured
        BY <2>2, <3>2, <3>5
      <4>3. \A t \in net'.tsas : Queued(net', t.csn) => t.offset = NoDelay
        BY <3>3, <3>4, <4>1
      <4>4. QED
        BY <2>1, <2>4, <4>1, <4>2, <4>3 DEF QuietWire
    <3>6. CASE Unreported(rx, net)
      <4>1. m.owds = NoneMeasured
        BY <3>2, <3>6 DEF Unreported, QuietWire
      <4>2. Unreported(rx, net)'
        BY <1>1, <2>1, <2>3, <2>4, <3>5, <3>6, <4>1 DEF Unreported, SameMinima
      <4>3. QED
        BY <2>3, <3>2, <4>2 DEF Phase
    <3>7. CASE Levelled(rx, net, passed)
      <4>1. m.owds = NoneMeasured
        BY <3>2, <3>7 DEF Levelled, QuietWire
      <4>2. Adopted' /\ before' = ToSlowest'
        BY <2>1, <2>4, <3>5, <3>7, <4>1 DEF Levelled, Adopted
      <4>3. Levelled(rx, net, passed)'
        BY <2>3, <2>4, <3>5, <3>7, <4>1, <4>2 DEF Levelled, SameMinima
      <4>4. QED
        BY <2>3, <3>2, <4>3 DEF Phase
    <3>8. CASE AwaitsAdoption(rx, net)
      <4>1. m.owds = ToSlowest
        BY <3>2, <3>8 DEF AwaitsAdoption, ReportWire
      <4>2. DelayOffset(m.owds) = ToSlowest /\ NewDelay(m.owds) = ToSlowest
        BY <3>8, <4>1, FirstDelays DEF AwaitsAdoption, TypeInv
      <4>3. Adopted'
        BY <2>1, <2>4, <3>8, <4>2 DEF Adopted, AwaitsAdoption
      <4>4. AdoptedWire(net)'
        BY <2>2, <2>4, <3>2, <3>3, <4>2 DEF AdoptedWire
      <4>5. AwaitsTsa(rx, net)'
        BY <1>1, <2>3, <2>4, <3>8, <4>3, <4>4 DEF AwaitsTsa, AwaitsAdoption, SameMinima
      <4>6. QED
        BY <2>3, <3>2, <4>5 DEF Phase
    <3>9. ~ AwaitsTsa(rx, net)
      <4>1. m.csn # net.maxTsu
        BY <1>2, <1>4 DEF TsuType, WireType
      <4>2. QED
        BY <3>2, <4>1 DEF AwaitsTsa, AdoptedWire
    <3>10. ~ AwaitsStart(rx, net, passed)
      BY <3>2 DEF AwaitsStart
    <3>11. QED
      BY <3>1, <3>6, <3>7, <3>8, <3>9, <3>10 DEF Phase
  <2>6. TidyWire(rx'.on, net') => TidyWire(rx.on, net)'
    BY DEF TidyWire
  <2>7. QED
    BY <1>1, <2>5, <2>6 DEF TidyInv
<1>5. CASE /\ m.csn <= net.maxTsu
           /\ net' = Forget([net EXCEPT !.tsus = OneLess(@, m),
                                             !.tsas = @ \cup {[csn |-> m.csn, offset |-> NoDelay,
                                                               delayed |-> FALSE, new |-> TRUE,
                                                               first |-> FALSE]}])
           /\ UNCHANGED <<m_emulateDelay, before, passed, rx, overtaken>>
  <2> DEFINE zero == [csn |-> m.csn, offset |-> NoDelay, delayed |-> FALSE,
                      new |-> TRUE, first |-> FALSE]
  <2> DEFINE g == [net EXCEPT !.tsus = OneLess(net.tsus, m), !.tsas = net.tsas \cup {zero}]
  <2>1. /\ WireOK(g)
        /\ g.queue = net.queue /\ g.maxTsu = net.maxTsu /\ g.maxTsa = net.maxTsa
        /\ g.tsus = OneLess(net.tsus, m) /\ g.tsas = net.tsas \cup {zero}
    BY <1>2, <1>5, AnswerWire
  <2>2. ~ zero.first /\ net' = Forget(g)
    BY <1>5
  <2> HIDE DEF g, zero
  <2>3. /\ \A x \in g.tsus : \E y \in net.tsus : x.csn = y.csn /\ x.owds = y.owds
        /\ \A t \in g.tsas : t \in net.tsas \/ ~ t.first
    BY <1>3, <2>1, <2>2
  <2>4. ASSUME tidy
        PROVE  TidyWire(rx'.on, net') /\ Phase(rx', net', passed')
    <3>1. TidyWire(rx.on, net) /\ Phase(rx, net, passed)
      BY <2>4 DEF TidyInv
    <3>2. TidyWire(rx.on, Forget(g)) /\ Phase(rx, Forget(g), passed)
      <4>1. g.queue = net.queue /\ g.maxTsu = net.maxTsu /\ g.maxTsa = net.maxTsa /\ WireOK(g)
        BY <2>1
      <4>2. QED
        BY <1>2, <2>3, <3>1, <4>1, ThinPhase
    <3>3. QED
      BY <1>5, <2>2, <3>2
  <2>5. QED
    BY <1>1, <1>5, <2>4, SameDelays
<1>6. QED
  BY <1>4, <1>5 DEF RecvTsu

\* The inductive invariant.
CycleInv == TypeInv /\ CloseLinks /\ TidyInv

\* The invariant holds at the start.
LEMMA InitCycleInv == OneTsuIsEnough /\ CycleInit => CycleInv
<1> SUFFICES ASSUME OneTsuIsEnough, CycleInit
             PROVE  CycleInv
  OBVIOUS
<1>1. TypeInv
  BY InitTypeInv
<1>2. CloseLinks
  BY DEF CycleInit, OneTsuIsEnough, CloseLinks
<1>3. /\ net.queue = {} /\ net.tsus = {} /\ net.tsas = {} /\ rx.on
      /\ m_emulateDelay = NoDelay /\ before = NoDelay
      /\ rx.prev = Never /\ rx.adj = NoDelay
      /\ rx.last = NoneMeasured /\ rx.cur = NoneMeasured
  BY DEF CycleInit, NoDelay
<1>4. TidyWire(rx.on, net) /\ QuietWire(net)
  BY <1>3 DEF TidyWire, QuietWire
<1>5. Unreported(rx, net)
  BY <1>3, <1>4 DEF Unreported, NoneMeasured
<1>6. QED
  BY <1>1, <1>2, <1>4, <1>5 DEF CycleInv, TidyInv, Phase

\* Every step keeps the invariant.
LEMMA NextCycleInv == CycleInv /\ [CycleNext]_cycleVars => CycleInv'
<1> SUFFICES ASSUME CycleInv, [CycleNext]_cycleVars
             PROVE  CycleInv'
  OBVIOUS
<1> USE DEF CycleInv
<1>1. TypeInv'
  BY NextTypeInv
<1>2. ASSUME NEW link \in Links, NEW new \in BOOLEAN, NEW inOrder \in BOOLEAN, NEW over \in BOOLEAN,
             NEW converged \in BOOLEAN, NEW update \in BOOLEAN,
             Receive(link, new, inOrder, over, converged, update)
      PROVE  TidyInv' /\ base' = base
  BY <1>2, ReceiveTidy DEF Receive
<1>3. ASSUME NEW link \in Links, NEW new \in BOOLEAN, ReceiveCtrl(link, new)
      PROVE  TidyInv' /\ base' = base
  BY <1>3, ReceiveCtrlTidy DEF ReceiveCtrl
<1>4. ASSUME NEW m \in net.tsus, NEW delayed \in BOOLEAN, RecvTsu(m, delayed)
      PROVE  TidyInv' /\ base' = base
  BY <1>4, RecvTsuTidy DEF RecvTsu
<1>5. ASSUME NEW t \in net.tsas, RecvTsa(t)
      PROVE  TidyInv' /\ base' = base
  BY <1>5, RecvTsaTidy DEF RecvTsa
<1>6. ASSUME DelayedStart
      PROVE  TidyInv' /\ base' = base
  BY <1>6, DelayedStartTidy DEF DelayedStart
<1>7. ASSUME Drain
      PROVE  TidyInv' /\ base' = base
  BY <1>7, DrainTidy DEF Drain
<1>8. ASSUME \/ UpdateIsDue \/ LinkDownTsu \/ Lose
             \/ \E item \in net.queue : RetxCtrlMsgExpires(item)
             \/ UNCHANGED cycleVars
      PROVE  TidyInv' /\ base' = base
  <2>1. base' = base
    BY <1>8 DEF UpdateIsDue, LinkDownTsu, Lose, RetxCtrlMsgExpires, cycleVars
  <2>2. QED
    BY <1>8, <2>1, OtherTidy
<1>9. TidyInv' /\ base' = base
  BY <1>2, <1>3, <1>4, <1>5, <1>6, <1>7, <1>8 DEF CycleNext
<1>10. CloseLinks'
  BY <1>9 DEF CloseLinks
<1>11. QED
  BY <1>1, <1>9, <1>10

\* While an interval runs, the minima are those of the links' own delays, without
\* emulation, or those of the slowest link, with it.
LEMMA TidyIsFresh == CycleInv => NoStaleSample
<1> SUFFICES ASSUME CycleInv, tidy, rx.started,
                    NEW link \in Links, rx.cur[link] # NoOwd
             PROVE  rx.cur[link] >= Owd(link, TRUE)
  BY DEF NoStaleSample
<1>1. TypeInv /\ TidyWire(rx.on, net) /\ Phase(rx, net, passed)
  BY DEF CycleInv, TidyInv
<1>2. rx.on
  BY <1>1 DEF TypeInv, RxOK, RxPhase
<1>3. net.queue = {}
  BY <1>1, <1>2 DEF TidyWire
<1>4. Unreported(rx, net) \/ Levelled(rx, net, passed)
  BY <1>1, <1>3 DEF Phase, AwaitsAdoption, AwaitsTsa, AwaitsStart, ReportWire, AdoptedWire
<1> DEFINE owd == Owd(link, TRUE)
<1>5. owd = base[link] + m_emulateDelay[link]
  BY <1>1, OwdType DEF TypeInv
<1>6. /\ Slowest \in Nat /\ base[link] \in Nat
      /\ ToSlowest[link] = Slowest - base[link] /\ NoDelay[link] = 0
  BY <1>1, SlowestLink DEF TypeInv
<1> HIDE DEF owd
<1>7. ASSUME Unreported(rx, net)
      PROVE  rx.cur[link] >= owd
  BY <1>5, <1>6, <1>7 DEF Unreported
<1>8. ASSUME Levelled(rx, net, passed)
      PROVE  rx.cur[link] >= owd
  BY <1>5, <1>6, <1>8 DEF Levelled, Adopted
<1>9. QED
  BY <1>4, <1>7, <1>8 DEF owd

\* While an interval of the measurement cycle runs, no sample from before the
\* transmitter's last change of delay makes the minimum of a link smaller than the
\* link's delay now, when one TSU makes up for the difference of the links.
THEOREM SamplesAreFresh ==
    OneTsuIsEnough => (CycleSpec => []NoStaleSample)
<1> SUFFICES ASSUME OneTsuIsEnough
             PROVE  CycleSpec => []NoStaleSample
  OBVIOUS
<1>1. CycleInit => CycleInv
  BY InitCycleInv
<1>2. CycleInv /\ [CycleNext]_cycleVars => CycleInv'
  BY NextCycleInv
<1>3. CycleInv => NoStaleSample
  BY TidyIsFresh
<1>4. QED
  BY <1>1, <1>2, <1>3, PTL DEF CycleSpec

=============================================================================
