-------------------------- MODULE GmaReorderProofs --------------------------
(***************************************************************************)
(* Proofs about GmaReorder, for any links, packets and number spaces.      *)
(* Timers, types and "at most once" hold for every scenario; the order of  *)
(* the packets and "only what is lost is skipped" for numbers that do not  *)
(* wrap (Unwrapped).  The last invariants are SplitInv (split mode),       *)
(* PatientInv (split mode, losses only) and SteerInv (steer mode); all     *)
(* rest on NumberedInv, which ties the LSNs to what was sent on each link. *)
(***************************************************************************)
EXTENDS GmaReorder, FiniteSetTheorems, SequenceTheorems, WellFoundedInduction, TLAPS

-----------------------------------------------------------------------------
(***************************************************************************)
(* Loops.  What holds before the first round and is kept by every round    *)
(* holds in the end.                                                       *)
(***************************************************************************)
LEMMA LeastNumber ==
    ASSUME NEW S \in SUBSET Nat, S # {}
    PROVE  \E m \in S : \A n \in S : m <= n
  <1> DEFINE R == OpToRel(<, Nat)
  <1>1. IsWellFoundedOn(R, Nat)
    BY NatLessThanWellFounded, Zenon
  <1>2. \A x, y \in Nat : x < y => <<x, y>> \in R
    BY DEF OpToRel
  <1> HIDE DEF R
  <1>3. PICK m \in S : \A n \in S : <<n, m>> \notin R
    BY <1>1, WFMin
  <1>4. \A n \in S : n \in Nat /\ m \in Nat /\ ~ (n < m)
    BY <1>2, <1>3
  <1>5. \A n \in S : m <= n
    BY <1>4
  <1> QED
    BY <1>5

LEMMA Rounds ==
    ASSUME NEW N \in Nat, NEW P \in SUBSET (0 .. N), 0 \in P,
           \A n \in 0 .. N : (n \in P /\ n < N) => n + 1 \in P
    PROVE  P = 0 .. N
  <1> DEFINE Missing == (0 .. N) \ P
  <1>1. SUFFICES ASSUME Missing # {} PROVE FALSE
    OBVIOUS
  <1>2. PICK least \in Missing : \A n \in Missing : least <= n
    <2>1. Missing \in SUBSET Nat
      OBVIOUS
    <2> HIDE DEF Missing
    <2> QED
      BY <1>1, <2>1, LeastNumber
  <1>3. least # 0 /\ least - 1 \in 0 .. N /\ least - 1 < N
    BY <1>2
  <1>4. least - 1 \in P
    BY <1>2, <1>3
  <1>5. (least - 1) + 1 \in P
    BY <1>3, <1>4
  <1> QED
    BY <1>2, <1>5

\* A loop of N rounds, the n-th of which applies b[n], has a result.
IsLoop(f, S, N, b, r) ==
    f \in [0 .. N -> S] /\ f[0] = r /\ \A n \in 1 .. N : f[n] = b[n][f[n - 1]]

LEMMA LoopExists ==
    ASSUME NEW S, NEW N \in Nat, NEW b \in [1 .. N -> [S -> S]], NEW r \in S
    PROVE  \E f : IsLoop(f, S, N, b, r)
  <1> DEFINE P == {m \in 0 .. N : \E f : IsLoop(f, S, m, b, r)}
  <1>1. 0 \in P
    <2>1. IsLoop([n \in 0 .. 0 |-> r], S, 0, b, r)
      BY DEF IsLoop
    <2> QED
      BY <2>1
  <1>2. \A m \in 0 .. N : (m \in P /\ m < N) => m + 1 \in P
    <2> SUFFICES ASSUME NEW m \in 0 .. N, m \in P, m < N PROVE m + 1 \in P
      OBVIOUS
    <2>1. PICK f : IsLoop(f, S, m, b, r)
      OBVIOUS
    <2> DEFINE g == [n \in 0 .. (m + 1) |-> IF n = m + 1 THEN b[m + 1][f[m]] ELSE f[n]]
    <2>2. b[m + 1] \in [S -> S] /\ f[m] \in S
      BY <2>1 DEF IsLoop
    <2>3. g \in [0 .. (m + 1) -> S]
      BY <2>1, <2>2 DEF IsLoop
    <2>4. g[0] = r
      BY <2>1 DEF IsLoop
    <2>5. ASSUME NEW n \in 1 .. (m + 1) PROVE g[n] = b[n][g[n - 1]]
      <3>1. CASE n = m + 1
        BY <3>1
      <3>2. CASE n # m + 1
        BY <3>2, <2>1 DEF IsLoop
      <3> QED
        BY <3>1, <3>2
    <2>6. IsLoop(g, S, m + 1, b, r)
      <3> HIDE DEF g
      <3> QED
        BY <2>3, <2>4, <2>5 DEF IsLoop
    <2> HIDE DEF g
    <2> QED
      BY <2>6
  <1>3. P \in SUBSET (0 .. N)
    OBVIOUS
  <1> HIDE DEF P
  <1>4. P = 0 .. N
    BY <1>1, <1>2, <1>3, Rounds
  <1>5. N \in P
    BY <1>4
  <1> QED
    BY <1>5 DEF P

-----------------------------------------------------------------------------
(***************************************************************************)
(* The search for the minimum.                                             *)
(***************************************************************************)
Queues == [Links -> Seq(Items)]
Cids == Links \cup {NoCid}

LEMMA LinksAreNumbers ==
    /\ Len(LinkSeq) \in Nat /\ Len(LinkSeq) > 0
    /\ \A n \in 1 .. Len(LinkSeq) : LinkSeq[n] \in Links
    /\ \A cid \in Links : \E n \in 1 .. Len(LinkSeq) : cid = LinkSeq[n]
    /\ Links \in SUBSET Nat /\ NoCid \notin Links
  <1>1. LinkSeq \in Seq(0 .. 254) /\ LinkSeq # << >>
    BY ReorderAssumption
  <1>2. Len(LinkSeq) \in Nat /\ Len(LinkSeq) # 0
    BY <1>1, EmptySeq, LenProperties
  <1>3. \A n \in 1 .. Len(LinkSeq) : LinkSeq[n] \in 0 .. 254
    BY <1>1, ElementOfSeq
  <1>4. \A cid \in Links : cid \in 0 .. 254
    BY <1>3 DEF Links
  <1>5. Links \in SUBSET Nat /\ NoCid \notin Links
    BY <1>4 DEF NoCid
  <1> QED
    BY <1>2, <1>5 DEF Links

\* The search, link by link.
IsSearch(f, queue) ==
    /\ f \in [0 .. Len(LinkSeq) -> Cids]
    /\ f[0] = NoCid
    /\ \A n \in 1 .. Len(LinkSeq) : f[n] = MinOf(queue, f[n - 1], LinkSeq[n])

LEMMA SearchUnfolds ==
    ASSUME NEW queue
    PROVE  \E f : IsSearch(f, queue) /\ MinCid(queue) = f[Len(LinkSeq)]
  <1> DEFINE N == Len(LinkSeq)
  <1> DEFINE b == [n \in 1 .. N |-> [min \in Cids |-> MinOf(queue, min, LinkSeq[n])]]
  <1> DEFINE u == CHOOSE f : f = [n \in 0 .. N |->
                      IF n = 0 THEN NoCid ELSE MinOf(queue, f[n - 1], LinkSeq[n])]
  <1>0. N \in Nat /\ 0 \in 0 .. N /\ NoCid \in Cids
    BY LinksAreNumbers DEF Cids
  <1>a. \A n \in 1 .. N : n \in 0 .. N /\ n # 0 /\ n - 1 \in 0 .. N
    BY <1>0
  <1>1. \A n \in 1 .. N, min \in Cids : MinOf(queue, min, LinkSeq[n]) \in Cids
    BY LinksAreNumbers DEF MinOf, Cids
  <1>2. b \in [1 .. N -> [Cids -> Cids]]
    BY <1>1
  <1>3. PICK f : IsLoop(f, Cids, N, b, NoCid)
    <2> HIDE DEF b, N
    <2> QED
      BY <1>0, <1>2, LoopExists
  <1>4. f \in [0 .. N -> Cids] /\ f[0] = NoCid
    BY <1>3 DEF IsLoop
  <1>5. \A n \in 1 .. N : f[n] = MinOf(queue, f[n - 1], LinkSeq[n])
    <2> SUFFICES ASSUME NEW n \in 1 .. N PROVE f[n] = MinOf(queue, f[n - 1], LinkSeq[n])
      OBVIOUS
    <2>1. f[n] = b[n][f[n - 1]]
      BY <1>3 DEF IsLoop
    <2>2. f[n - 1] \in Cids
      BY <1>4, <1>a
    <2> QED
      BY <2>1, <2>2
  <1>6. f = [n \in 0 .. N |-> IF n = 0 THEN NoCid ELSE MinOf(queue, f[n - 1], LinkSeq[n])]
    <2>1. \A n \in 0 .. N : f[n] = IF n = 0 THEN NoCid ELSE MinOf(queue, f[n - 1], LinkSeq[n])
      <3>1. \A n \in 0 .. N : n # 0 => n \in 1 .. N
        BY <1>0
      <3> HIDE DEF N
      <3> QED
        BY <1>4, <1>5, <3>1, Zenon
    <2>2. f = [n \in 0 .. N |-> f[n]]
      BY <1>4
    <2> HIDE DEF N
    <2> QED
      BY <2>1, <2>2, Zenon
  <1>7. u = [n \in 0 .. N |-> IF n = 0 THEN NoCid ELSE MinOf(queue, u[n - 1], LinkSeq[n])]
    <2> HIDE DEF N
    <2> QED
      BY <1>6, Zenon
  <1>8. MinCid(queue) = u[N]
    BY Zenon DEF MinCid
  <1> HIDE DEF u
  <1>9. u[0] = NoCid
    BY <1>7, <1>0, Zenon
  <1>10. \A n \in 1 .. N : u[n] = MinOf(queue, u[n - 1], LinkSeq[n])
    BY <1>7, <1>a, Zenon
  <1>11. u \in [0 .. N -> Cids]
    <2> DEFINE P == {n \in 0 .. N : u[n] \in Cids}
    <2>1. 0 \in P
      BY <1>0, <1>9
    <2>2. \A n \in 0 .. N : (n \in P /\ n < N) => n + 1 \in P
      <3> SUFFICES ASSUME NEW n \in 0 .. N, n \in P, n < N PROVE n + 1 \in P
        OBVIOUS
      <3>1. n + 1 \in 1 .. N /\ (n + 1) - 1 = n /\ n + 1 \in 0 .. N
        BY <1>0
      <3>2. u[n + 1] = MinOf(queue, u[n], LinkSeq[n + 1])
        BY <1>10, <3>1
      <3> QED
        BY <1>1, <3>1, <3>2
    <2>3. P \in SUBSET (0 .. N)
      OBVIOUS
    <2>4. P = 0 .. N
      <3> HIDE DEF P, N
      <3> QED
        BY <1>0, <2>1, <2>2, <2>3, Rounds
    <2>5. \A n \in 0 .. N : u[n] \in Cids
      BY <2>4
    <2> HIDE DEF N
    <2> QED
      BY <2>5, <1>7, Zenon
  <1> QED
    BY <1>8, <1>9, <1>10, <1>11 DEF IsSearch

\* "cannot be the initial value": the search finds a queue that is not empty, if there
\* is one.
LEMMA MinCidFinds ==
    ASSUME NEW queue
    PROVE  /\ MinCid(queue) \in Cids
           /\ MinCid(queue) # NoCid => queue[MinCid(queue)] # << >>
           /\ MinCid(queue) = NoCid => \A cid \in Links : queue[cid] = << >>
  <1> DEFINE N == Len(LinkSeq)
  <1>1. PICK f : IsSearch(f, queue) /\ MinCid(queue) = f[N]
    BY SearchUnfolds
  <1>2. N \in Nat
    BY LinksAreNumbers
  <1> DEFINE P == {n \in 0 .. N :
                      /\ f[n] # NoCid => queue[f[n]] # << >>
                      /\ f[n] = NoCid => \A i \in 1 .. n : queue[LinkSeq[i]] = << >>}
  <1>3. 0 \in P
    BY <1>1, <1>2 DEF IsSearch
  <1>4. \A n \in 0 .. N : (n \in P /\ n < N) => n + 1 \in P
    <2> SUFFICES ASSUME NEW n \in 0 .. N, n \in P, n < N PROVE n + 1 \in P
      OBVIOUS
    <2>1. n + 1 \in 1 .. N /\ (n + 1) - 1 = n
      BY <1>2
    <2>2. f[n + 1] = MinOf(queue, f[n], LinkSeq[n + 1])
      BY <1>1, <2>1 DEF IsSearch
    <2>3. LinkSeq[n + 1] # NoCid
      BY <2>1, LinksAreNumbers
    <2>4. \A i \in 1 .. (n + 1) : i \in 1 .. n \/ i = n + 1
      OBVIOUS
    <2>5. \/ f[n + 1] = LinkSeq[n + 1] /\ queue[LinkSeq[n + 1]] # << >>
          \/ f[n + 1] = f[n] /\ (f[n] = NoCid => queue[LinkSeq[n + 1]] = << >>)
      BY <2>2 DEF MinOf
    <2>6. (f[n] # NoCid => queue[f[n]] # << >>)
          /\ (f[n] = NoCid => \A i \in 1 .. n : queue[LinkSeq[i]] = << >>)
      OBVIOUS
    <2>7. n + 1 \in 0 .. N
      BY <1>2
    <2>8. f[n + 1] # NoCid => queue[f[n + 1]] # << >>
      BY <2>3, <2>5, <2>6, Zenon
    <2>9. f[n + 1] = NoCid => \A i \in 1 .. (n + 1) : queue[LinkSeq[i]] = << >>
      BY <2>3, <2>4, <2>5, <2>6, Zenon
    <2> QED
      BY <2>7, <2>8, <2>9
  <1>5. P = 0 .. N
    <2>1. P \in SUBSET (0 .. N)
      OBVIOUS
    <2> HIDE DEF P, N
    <2> QED
      BY <1>2, <1>3, <1>4, <2>1, Rounds
  <1>6. N \in P /\ f[N] \in Cids
    BY <1>1, <1>2, <1>5 DEF IsSearch
  <1> QED
    BY <1>1, <1>6, LinksAreNumbers

\* The heads of the queues are so near to each other that SnDiff is their difference, and
\* none is the mark of an empty search.
Narrow(queue) ==
    \A c, d \in Links : (queue[c] # << >> /\ queue[d] # << >>) =>
        /\ Head(queue[c]).sn \in Nat /\ Head(queue[c]).sn # MAX_GMA_SN
        /\ SnDiff(Head(queue[c]).sn, Head(queue[d]).sn) = Head(queue[c]).sn - Head(queue[d]).sn

LEMMA MinCidIsLeast ==
    ASSUME NEW queue, Narrow(queue), NEW cid \in Links, queue[cid] # << >>
    PROVE  /\ MinCid(queue) \in Links /\ queue[MinCid(queue)] # << >>
           /\ Head(queue[MinCid(queue)]).sn <= Head(queue[cid]).sn
  <1> DEFINE N == Len(LinkSeq)
  <1>1. PICK f : IsSearch(f, queue) /\ MinCid(queue) = f[N]
    BY SearchUnfolds
  <1>2. N \in Nat
    BY LinksAreNumbers
  <1> DEFINE Least(n) == \A i \in 1 .. n : queue[LinkSeq[i]] # << >> =>
                            /\ f[n] \in Links /\ queue[f[n]] # << >>
                            /\ Head(queue[f[n]]).sn <= Head(queue[LinkSeq[i]]).sn
  <1> DEFINE P == {n \in 0 .. N : Least(n) /\ (f[n] # NoCid => queue[f[n]] # << >>)}
  <1>3. 0 \in P
    BY <1>1, <1>2 DEF IsSearch
  <1>4. \A n \in 0 .. N : (n \in P /\ n < N) => n + 1 \in P
    <2> SUFFICES ASSUME NEW n \in 0 .. N, n \in P, n < N PROVE n + 1 \in P
      OBVIOUS
    <2> DEFINE next == LinkSeq[n + 1]
    <2>1. n + 1 \in 1 .. N /\ (n + 1) - 1 = n /\ n + 1 \in 0 .. N
      BY <1>2
    <2>2. f[n + 1] = MinOf(queue, f[n], next)
      BY <1>1, <2>1 DEF IsSearch
    <2>3. next \in Links /\ f[n] \in Links \cup {NoCid}
      BY <1>1, <2>1, LinksAreNumbers DEF IsSearch, Cids
    <2>4. \A i \in 1 .. (n + 1) : i \in 1 .. n \/ i = n + 1
      OBVIOUS
    <2>5. \A i \in 1 .. n : LinkSeq[i] \in Links
      BY <1>2, LinksAreNumbers
    <2>6. CASE queue[next] = << >>
      <3>1. f[n + 1] = f[n]
        BY <2>2, <2>6 DEF MinOf
      <3>2. \A i \in 1 .. (n + 1) : queue[LinkSeq[i]] # << >> => i \in 1 .. n
        BY <2>4, <2>6
      <3> QED
        BY <2>1, <3>1, <3>2
    <2>7. CASE queue[next] # << >> /\ f[n] = NoCid
      <3>1. f[n + 1] = next
        BY <2>2, <2>7 DEF MinOf
      <3>2. \A i \in 1 .. n : queue[LinkSeq[i]] = << >>
        BY <2>7, LinksAreNumbers
      <3>3. \A i \in 1 .. (n + 1) : queue[LinkSeq[i]] # << >> => i = n + 1
        BY <2>4, <3>2
      <3>4. Head(queue[next]).sn \in Nat
        BY <2>3, <2>7 DEF Narrow
      <3> QED
        BY <2>1, <2>3, <2>7, <3>1, <3>3, <3>4
    <2>8. CASE queue[next] # << >> /\ f[n] # NoCid
      <3> DEFINE old == f[n]
      <3>1. old \in Links /\ queue[old] # << >>
        BY <2>3, <2>8
      <3>2. /\ Head(queue[old]).sn \in Nat /\ Head(queue[next]).sn \in Nat
            /\ Head(queue[old]).sn # MAX_GMA_SN
            /\ SnDiff(Head(queue[old]).sn, Head(queue[next]).sn)
                   = Head(queue[old]).sn - Head(queue[next]).sn
        BY <2>3, <2>8, <3>1 DEF Narrow
      <3>3. f[n + 1] = IF SnDiff(Head(queue[old]).sn, Head(queue[next]).sn) > 0
                       THEN next ELSE old
        BY <2>2, <2>8, <3>2 DEF MinOf
      <3>4. /\ f[n + 1] \in {next, old}
            /\ Head(queue[f[n + 1]]).sn <= Head(queue[next]).sn
            /\ Head(queue[f[n + 1]]).sn <= Head(queue[old]).sn
        BY <3>2, <3>3
      <3>5. f[n + 1] \in Links /\ queue[f[n + 1]] # << >>
        BY <2>3, <2>8, <3>1, <3>4
      <3>6. ASSUME NEW i \in 1 .. (n + 1), queue[LinkSeq[i]] # << >>
            PROVE  Head(queue[f[n + 1]]).sn <= Head(queue[LinkSeq[i]]).sn
        <4>1. CASE i = n + 1
          BY <4>1, <3>4
        <4>2. CASE i \in 1 .. n
          <5>1. Head(queue[old]).sn <= Head(queue[LinkSeq[i]]).sn
            BY <4>2, <3>6
          <5>2. Head(queue[LinkSeq[i]]).sn \in Nat /\ Head(queue[f[n + 1]]).sn \in Nat
            BY <4>2, <2>5, <3>5, <3>6 DEF Narrow
          <5> QED
            BY <5>1, <5>2, <3>2, <3>4
        <4> QED
          BY <2>4, <4>1, <4>2
      <3> QED
        BY <2>1, <3>5, <3>6
    <2> QED
      BY <2>6, <2>7, <2>8
  <1>5. P = 0 .. N
    <2>1. P \in SUBSET (0 .. N)
      OBVIOUS
    <2> HIDE DEF P, N
    <2> QED
      BY <1>2, <1>3, <1>4, <2>1, Rounds
  <1>6. Least(N)
    BY <1>2, <1>5
  <1>7. PICK i \in 1 .. N : cid = LinkSeq[i]
    BY LinksAreNumbers
  <1> QED
    BY <1>1, <1>6, <1>7

-----------------------------------------------------------------------------
(***************************************************************************)
(* m_totalQueueSize.                                                       *)
(***************************************************************************)
Places(queue) == UNION {{cid} \X (1 .. Len(queue[cid])) : cid \in Links}

LEMMA InPlaces ==
    ASSUME NEW queue, NEW p
    PROVE  p \in Places(queue)
             <=> \E cid \in Links : \E i \in 1 .. Len(queue[cid]) : p = <<cid, i>>
  BY DEF Places

LEMMA PlacesAreFinite ==
    ASSUME NEW queue \in Queues
    PROVE  IsFiniteSet(Places(queue))
  <1> DEFINE column == [n \in 1 .. Len(LinkSeq) |-> {LinkSeq[n]} \X (1 .. Len(queue[LinkSeq[n]]))]
  <1> DEFINE T == {{cid} \X (1 .. Len(queue[cid])) : cid \in Links}
  <1>1. \A cid \in Links : Len(queue[cid]) \in Nat
    BY LenProperties DEF Queues
  <1>2. IsFiniteSet(1 .. Len(LinkSeq))
    BY FS_Interval, LinksAreNumbers
  <1>3. column \in Surjection(1 .. Len(LinkSeq), T)
    <2>1. \A n \in 1 .. Len(LinkSeq) : column[n] \in T
      BY LinksAreNumbers
    <2>2. \A t \in T : \E n \in 1 .. Len(LinkSeq) : column[n] = t
      <3> SUFFICES ASSUME NEW cid \in Links
                   PROVE  \E n \in 1 .. Len(LinkSeq) : column[n] = {cid} \X (1 .. Len(queue[cid]))
        OBVIOUS
      <3>1. PICK n \in 1 .. Len(LinkSeq) : cid = LinkSeq[n]
        BY LinksAreNumbers
      <3> QED
        BY <3>1
    <2> HIDE DEF T
    <2> QED
      BY <2>1, <2>2 DEF Surjection
  <1>4. IsFiniteSet(T)
    <2> HIDE DEF T, column
    <2> QED
      BY <1>2, <1>3, FS_Surjection
  <1>5. \A t \in T : IsFiniteSet(t)
    <2> SUFFICES ASSUME NEW cid \in Links PROVE IsFiniteSet({cid} \X (1 .. Len(queue[cid])))
      OBVIOUS
    <2>1. IsFiniteSet({cid}) /\ IsFiniteSet(1 .. Len(queue[cid]))
      <3>1. IsFiniteSet({cid})
        BY FS_Singleton, Zenon
      <3>2. IsFiniteSet(1 .. Len(queue[cid]))
        BY <1>1, FS_Interval
      <3> QED
        BY <3>1, <3>2
    <2>2. \A A, B : (IsFiniteSet(A) /\ IsFiniteSet(B)) => IsFiniteSet(A \X B)
      BY FS_Product
    <2> QED
      BY <2>1, <2>2, Zenon
  <1> HIDE DEF T
  <1>6. IsFiniteSet(UNION T)
    BY <1>4, <1>5, FS_UNION
  <1> QED
    BY <1>6 DEF T, Places

LEMMA TotalIsNumber ==
    ASSUME NEW queue \in Queues
    PROVE  /\ TotalQueueSize(queue) \in Nat
           /\ TotalQueueSize(queue) = 0 <=> \A cid \in Links : queue[cid] = << >>
  <1>1. TotalQueueSize(queue) = Cardinality(Places(queue))
    BY DEF TotalQueueSize, Places
  <1>2. TotalQueueSize(queue) \in Nat /\ (TotalQueueSize(queue) = 0 <=> Places(queue) = {})
    BY <1>1, PlacesAreFinite, FS_CardinalityType, FS_EmptySet
  <1>3. Places(queue) = {} <=> \A cid \in Links : queue[cid] = << >>
    <2>1. ASSUME NEW cid \in Links, queue[cid] # << >> PROVE Places(queue) # {}
      <3>1. 1 \in 1 .. Len(queue[cid])
        BY <2>1, EmptySeq DEF Queues
      <3>2. <<cid, 1>> \in Places(queue)
        BY <3>1, InPlaces
      <3> QED
        BY <3>2
    <2>2. ASSUME NEW p \in Places(queue) PROVE \E cid \in Links : queue[cid] # << >>
      <3>1. PICK cid \in Links : \E i \in 1 .. Len(queue[cid]) : p = <<cid, i>>
        BY InPlaces
      <3>2. Len(<< >>) = 0
        BY EmptySeq
      <3>3. queue[cid] # << >>
        BY <3>1, <3>2
      <3> QED
        BY <3>3
    <2> QED
      BY <2>1, <2>2
  <1> QED
    BY <1>2, <1>3

LEMMA TotalAfterPop ==
    ASSUME NEW queue \in Queues, NEW cid \in Links, queue[cid] # << >>
    PROVE  /\ [queue EXCEPT ![cid] = Tail(@)] \in Queues
           /\ TotalQueueSize([queue EXCEPT ![cid] = Tail(@)]) = TotalQueueSize(queue) - 1
  <1> DEFINE rest == [queue EXCEPT ![cid] = Tail(@)]
  <1>1. rest \in Queues
    BY HeadTailProperties DEF Queues
  <1>2. Len(rest[cid]) = Len(queue[cid]) - 1 /\ \A c \in Links : c # cid => rest[c] = queue[c]
    BY HeadTailProperties DEF Queues
  <1> DEFINE last == Len(queue[cid])
  <1>3. last \in Nat \ {0}
    BY EmptySeq DEF Queues
  <1> HIDE DEF rest
  <1>4. Places(rest) = Places(queue) \ {<<cid, last>>}
    <2>1. ASSUME NEW p PROVE p \in Places(rest) <=> p \in Places(queue) \ {<<cid, last>>}
      <3>1. \A i : i \in 1 .. Len(rest[cid]) <=> i \in 1 .. last /\ i # last
        BY <1>2, <1>3
      <3>2. (\E c \in Links : \E i \in 1 .. Len(rest[c]) : p = <<c, i>>)
              <=> (\E c \in Links : \E i \in 1 .. Len(queue[c]) : p = <<c, i>>) /\ p # <<cid, last>>
        <4>1. ASSUME NEW c \in Links, NEW i PROVE
                  i \in 1 .. Len(rest[c]) <=> i \in 1 .. Len(queue[c]) /\ <<c, i>> # <<cid, last>>
          BY <1>2, <3>1
        <4> QED
          BY <4>1
      <3> QED
        BY <3>2, InPlaces
    <2> QED
      BY <2>1
  <1>5. <<cid, last>> \in Places(queue)
    <2>1. last \in 1 .. Len(queue[cid])
      BY <1>3
    <2> QED
      BY <2>1, InPlaces
  <1>6. Cardinality(Places(rest)) = Cardinality(Places(queue)) - 1
    <2>1. PICK x : x = <<cid, last>>
      OBVIOUS
    <2>2. PICK S : S = Places(queue)
      OBVIOUS
    <2>3. IsFiniteSet(S) /\ x \in S
      BY <1>5, <2>1, <2>2, PlacesAreFinite
    <2>4. Cardinality(S \ {x}) = Cardinality(S) - 1
      BY <2>3, FS_RemoveElement
    <2> QED
      BY <1>4, <2>1, <2>2, <2>4
  <1>7. \A q : TotalQueueSize(q) = Cardinality(Places(q))
    BY DEF TotalQueueSize, Places
  <1>8. TotalQueueSize(rest) = TotalQueueSize(queue) - 1
    BY <1>6, <1>7
  <1> QED
    BY <1>1, <1>8 DEF rest

-----------------------------------------------------------------------------
(***************************************************************************)
(* The rounds of the release loops.                                        *)
(***************************************************************************)
Receivers ==
    [queue : Queues, expected : Sns, out : Seq(Nat), on : BOOLEAN, newLink : Cids,
     stop : BOOLEAN, expired : Nat]

\* A set of receivers that ReleaseAllStep does not leave holds every round of
\* ReleaseAllPackets.
LEMMA AllRounds ==
    ASSUME NEW G \in SUBSET Receivers, NEW r \in G, \A s \in G : ReleaseAllStep(s) \in G
    PROVE  LET N == TotalQueueSize(r.queue)
           IN  \E f \in [0 .. N -> G] :
                  /\ f[0] = r /\ f[N] = ReleaseAllPackets(r)
                  /\ \A n \in 1 .. N : f[n] = ReleaseAllStep(f[n - 1])
  <1> DEFINE N == TotalQueueSize(r.queue)
  <1> DEFINE b == [n \in 1 .. N |-> [s \in G |-> ReleaseAllStep(s)]]
  <1> DEFINE u == CHOOSE f : f = [n \in 0 .. N |-> IF n = 0 THEN r ELSE ReleaseAllStep(f[n - 1])]
  <1>0. N \in Nat
    <2>1. r.queue \in Queues
      BY DEF Receivers
    <2> QED
      BY <2>1, TotalIsNumber
  <1>1. u[N] = ReleaseAllPackets(r)
    BY Zenon DEF ReleaseAllPackets
  <1> HIDE DEF N
  <1>2. 0 \in 0 .. N /\ N \in 0 .. N /\ \A n \in 1 .. N : n \in 0 .. N /\ n # 0 /\ n - 1 \in 0 .. N
    BY <1>0
  <1>3. b \in [1 .. N -> [G -> G]]
    OBVIOUS
  <1>4. PICK f : IsLoop(f, G, N, b, r)
    <2> HIDE DEF b
    <2> QED
      BY <1>0, <1>3, LoopExists
  <1>5. f \in [0 .. N -> G] /\ f[0] = r
    BY <1>4 DEF IsLoop
  <1>6. \A n \in 1 .. N : f[n] = ReleaseAllStep(f[n - 1])
    <2> SUFFICES ASSUME NEW n \in 1 .. N PROVE f[n] = ReleaseAllStep(f[n - 1])
      OBVIOUS
    <2>1. f[n] = b[n][f[n - 1]] /\ f[n - 1] \in G
      BY <1>2, <1>4, <1>5 DEF IsLoop
    <2> QED
      BY <2>1
  <1>7. f = [n \in 0 .. N |-> IF n = 0 THEN r ELSE ReleaseAllStep(f[n - 1])]
    <2>1. \A n \in 0 .. N : n # 0 => n \in 1 .. N
      BY <1>0
    <2>2. \A n \in 0 .. N : f[n] = IF n = 0 THEN r ELSE ReleaseAllStep(f[n - 1])
      BY <1>5, <1>6, <2>1, Zenon
    <2>3. f = [n \in 0 .. N |-> f[n]]
      BY <1>5
    <2> QED
      BY <2>2, <2>3, Zenon
  <1>8. u = [n \in 0 .. N |-> IF n = 0 THEN r ELSE ReleaseAllStep(u[n - 1])]
    BY <1>7, Zenon
  <1> HIDE DEF u
  <1>9. u[0] = r
    BY <1>2, <1>8, Zenon
  <1>10. \A n \in 1 .. N : u[n] = ReleaseAllStep(u[n - 1])
    BY <1>2, <1>8, Zenon
  <1>11. u \in [0 .. N -> G]
    <2> DEFINE P == {n \in 0 .. N : u[n] \in G}
    <2>1. 0 \in P
      BY <1>2, <1>9
    <2>2. \A n \in 0 .. N : (n \in P /\ n < N) => n + 1 \in P
      <3> SUFFICES ASSUME NEW n \in 0 .. N, n \in P, n < N PROVE n + 1 \in P
        OBVIOUS
      <3>1. n + 1 \in 1 .. N /\ (n + 1) - 1 = n /\ n + 1 \in 0 .. N
        BY <1>0
      <3>2. u[n + 1] = ReleaseAllStep(u[n])
        BY <1>10, <3>1
      <3> QED
        BY <3>1, <3>2
    <2>3. P \in SUBSET (0 .. N)
      OBVIOUS
    <2>4. P = 0 .. N
      <3> HIDE DEF P
      <3> QED
        BY <1>0, <2>1, <2>2, <2>3, Rounds
    <2>5. \A n \in 0 .. N : u[n] \in G
      BY <2>4
    <2> QED
      BY <1>8, <2>5, Zenon
  <1> QED
    BY <1>1, <1>9, <1>10, <1>11 DEF N

LEMMA AllKeeps ==
    ASSUME NEW G \in SUBSET Receivers, NEW r \in G, \A s \in G : ReleaseAllStep(s) \in G
    PROVE  ReleaseAllPackets(r) \in G
  <1> DEFINE N == TotalQueueSize(r.queue)
  <1>1. PICK f \in [0 .. N -> G] : f[N] = ReleaseAllPackets(r)
    BY AllRounds
  <1>2. r.queue \in Queues
    BY DEF Receivers
  <1>3. N \in 0 .. N
    BY <1>2, TotalIsNumber
  <1> HIDE DEF N
  <1> QED
    BY <1>1, <1>3

\* A set of receivers that ReleaseMinStep does not leave holds every round of
\* ReleaseMinSnPacket.
LEMMA MinRounds ==
    ASSUME NEW G \in SUBSET Receivers, NEW r \in G, \A s \in G : ReleaseMinStep(s) \in G
    PROVE  LET N == TotalQueueSize(r.queue)
           IN  \E f \in [0 .. N -> G] :
                  /\ f[0] = r /\ f[N] = ReleaseMinSnPacket(r)
                  /\ \A n \in 1 .. N : f[n] = ReleaseMinStep(f[n - 1])
  <1> DEFINE N == TotalQueueSize(r.queue)
  <1> DEFINE b == [n \in 1 .. N |-> [s \in G |-> ReleaseMinStep(s)]]
  <1> DEFINE u == CHOOSE f : f = [n \in 0 .. N |-> IF n = 0 THEN r ELSE ReleaseMinStep(f[n - 1])]
  <1>0. N \in Nat
    <2>1. r.queue \in Queues
      BY DEF Receivers
    <2> QED
      BY <2>1, TotalIsNumber
  <1>1. u[N] = ReleaseMinSnPacket(r)
    BY Zenon DEF ReleaseMinSnPacket
  <1> HIDE DEF N
  <1>2. 0 \in 0 .. N /\ N \in 0 .. N /\ \A n \in 1 .. N : n \in 0 .. N /\ n # 0 /\ n - 1 \in 0 .. N
    BY <1>0
  <1>3. b \in [1 .. N -> [G -> G]]
    OBVIOUS
  <1>4. PICK f : IsLoop(f, G, N, b, r)
    <2> HIDE DEF b
    <2> QED
      BY <1>0, <1>3, LoopExists
  <1>5. f \in [0 .. N -> G] /\ f[0] = r
    BY <1>4 DEF IsLoop
  <1>6. \A n \in 1 .. N : f[n] = ReleaseMinStep(f[n - 1])
    <2> SUFFICES ASSUME NEW n \in 1 .. N PROVE f[n] = ReleaseMinStep(f[n - 1])
      OBVIOUS
    <2>1. f[n] = b[n][f[n - 1]] /\ f[n - 1] \in G
      BY <1>2, <1>4, <1>5 DEF IsLoop
    <2> QED
      BY <2>1
  <1>7. f = [n \in 0 .. N |-> IF n = 0 THEN r ELSE ReleaseMinStep(f[n - 1])]
    <2>1. \A n \in 0 .. N : n # 0 => n \in 1 .. N
      BY <1>0
    <2>2. \A n \in 0 .. N : f[n] = IF n = 0 THEN r ELSE ReleaseMinStep(f[n - 1])
      BY <1>5, <1>6, <2>1, Zenon
    <2>3. f = [n \in 0 .. N |-> f[n]]
      BY <1>5
    <2> QED
      BY <2>2, <2>3, Zenon
  <1>8. u = [n \in 0 .. N |-> IF n = 0 THEN r ELSE ReleaseMinStep(u[n - 1])]
    BY <1>7, Zenon
  <1> HIDE DEF u
  <1>9. u[0] = r
    BY <1>2, <1>8, Zenon
  <1>10. \A n \in 1 .. N : u[n] = ReleaseMinStep(u[n - 1])
    BY <1>2, <1>8, Zenon
  <1>11. u \in [0 .. N -> G]
    <2> DEFINE P == {n \in 0 .. N : u[n] \in G}
    <2>1. 0 \in P
      BY <1>2, <1>9
    <2>2. \A n \in 0 .. N : (n \in P /\ n < N) => n + 1 \in P
      <3> SUFFICES ASSUME NEW n \in 0 .. N, n \in P, n < N PROVE n + 1 \in P
        OBVIOUS
      <3>1. n + 1 \in 1 .. N /\ (n + 1) - 1 = n /\ n + 1 \in 0 .. N
        BY <1>0
      <3>2. u[n + 1] = ReleaseMinStep(u[n])
        BY <1>10, <3>1
      <3> QED
        BY <3>1, <3>2
    <2>3. P \in SUBSET (0 .. N)
      OBVIOUS
    <2>4. P = 0 .. N
      <3> HIDE DEF P
      <3> QED
        BY <1>0, <2>1, <2>2, <2>3, Rounds
    <2>5. \A n \in 0 .. N : u[n] \in G
      BY <2>4
    <2> QED
      BY <1>8, <2>5, Zenon
  <1> QED
    BY <1>1, <1>9, <1>10, <1>11 DEF N

LEMMA MinKeeps ==
    ASSUME NEW G \in SUBSET Receivers, NEW r \in G, \A s \in G : ReleaseMinStep(s) \in G
    PROVE  ReleaseMinSnPacket(r) \in G
  <1> DEFINE N == TotalQueueSize(r.queue)
  <1>1. PICK f \in [0 .. N -> G] : f[N] = ReleaseMinSnPacket(r)
    BY MinRounds
  <1>2. r.queue \in Queues
    BY DEF Receivers
  <1>3. N \in 0 .. N
    BY <1>2, TotalIsNumber
  <1> HIDE DEF N
  <1> QED
    BY <1>1, <1>3

\* A set of receivers that ReleaseInOrderStep does not leave holds every round of
\* ReleaseInOrderPackets.
LEMMA InOrderRounds ==
    ASSUME NEW G \in SUBSET Receivers, NEW r \in G, \A s \in G : ReleaseInOrderStep(s) \in G
    PROVE  LET N == TotalQueueSize(r.queue)
           IN  \E f \in [0 .. N -> G] :
                  /\ f[0] = r /\ f[N] = ReleaseInOrderPackets(r)
                  /\ \A n \in 1 .. N : f[n] = ReleaseInOrderStep(f[n - 1])
  <1> DEFINE N == TotalQueueSize(r.queue)
  <1> DEFINE b == [n \in 1 .. N |-> [s \in G |-> ReleaseInOrderStep(s)]]
  <1> DEFINE u == CHOOSE f : f = [n \in 0 .. N |-> IF n = 0 THEN r ELSE ReleaseInOrderStep(f[n - 1])]
  <1>0. N \in Nat
    <2>1. r.queue \in Queues
      BY DEF Receivers
    <2> QED
      BY <2>1, TotalIsNumber
  <1>1. u[N] = ReleaseInOrderPackets(r)
    BY Zenon DEF ReleaseInOrderPackets
  <1> HIDE DEF N
  <1>2. 0 \in 0 .. N /\ N \in 0 .. N /\ \A n \in 1 .. N : n \in 0 .. N /\ n # 0 /\ n - 1 \in 0 .. N
    BY <1>0
  <1>3. b \in [1 .. N -> [G -> G]]
    OBVIOUS
  <1>4. PICK f : IsLoop(f, G, N, b, r)
    <2> HIDE DEF b
    <2> QED
      BY <1>0, <1>3, LoopExists
  <1>5. f \in [0 .. N -> G] /\ f[0] = r
    BY <1>4 DEF IsLoop
  <1>6. \A n \in 1 .. N : f[n] = ReleaseInOrderStep(f[n - 1])
    <2> SUFFICES ASSUME NEW n \in 1 .. N PROVE f[n] = ReleaseInOrderStep(f[n - 1])
      OBVIOUS
    <2>1. f[n] = b[n][f[n - 1]] /\ f[n - 1] \in G
      BY <1>2, <1>4, <1>5 DEF IsLoop
    <2> QED
      BY <2>1
  <1>7. f = [n \in 0 .. N |-> IF n = 0 THEN r ELSE ReleaseInOrderStep(f[n - 1])]
    <2>1. \A n \in 0 .. N : n # 0 => n \in 1 .. N
      BY <1>0
    <2>2. \A n \in 0 .. N : f[n] = IF n = 0 THEN r ELSE ReleaseInOrderStep(f[n - 1])
      BY <1>5, <1>6, <2>1, Zenon
    <2>3. f = [n \in 0 .. N |-> f[n]]
      BY <1>5
    <2> QED
      BY <2>2, <2>3, Zenon
  <1>8. u = [n \in 0 .. N |-> IF n = 0 THEN r ELSE ReleaseInOrderStep(u[n - 1])]
    BY <1>7, Zenon
  <1> HIDE DEF u
  <1>9. u[0] = r
    BY <1>2, <1>8, Zenon
  <1>10. \A n \in 1 .. N : u[n] = ReleaseInOrderStep(u[n - 1])
    BY <1>2, <1>8, Zenon
  <1>11. u \in [0 .. N -> G]
    <2> DEFINE P == {n \in 0 .. N : u[n] \in G}
    <2>1. 0 \in P
      BY <1>2, <1>9
    <2>2. \A n \in 0 .. N : (n \in P /\ n < N) => n + 1 \in P
      <3> SUFFICES ASSUME NEW n \in 0 .. N, n \in P, n < N PROVE n + 1 \in P
        OBVIOUS
      <3>1. n + 1 \in 1 .. N /\ (n + 1) - 1 = n /\ n + 1 \in 0 .. N
        BY <1>0
      <3>2. u[n + 1] = ReleaseInOrderStep(u[n])
        BY <1>10, <3>1
      <3> QED
        BY <3>1, <3>2
    <2>3. P \in SUBSET (0 .. N)
      OBVIOUS
    <2>4. P = 0 .. N
      <3> HIDE DEF P
      <3> QED
        BY <1>0, <2>1, <2>2, <2>3, Rounds
    <2>5. \A n \in 0 .. N : u[n] \in G
      BY <2>4
    <2> QED
      BY <1>8, <2>5, Zenon
  <1> QED
    BY <1>1, <1>9, <1>10, <1>11 DEF N

LEMMA InOrderKeeps ==
    ASSUME NEW G \in SUBSET Receivers, NEW r \in G, \A s \in G : ReleaseInOrderStep(s) \in G
    PROVE  ReleaseInOrderPackets(r) \in G
  <1> DEFINE N == TotalQueueSize(r.queue)
  <1>1. PICK f \in [0 .. N -> G] : f[N] = ReleaseInOrderPackets(r)
    BY InOrderRounds
  <1>2. r.queue \in Queues
    BY DEF Receivers
  <1>3. N \in 0 .. N
    BY <1>2, TotalIsNumber
  <1> HIDE DEF N
  <1> QED
    BY <1>1, <1>3

-----------------------------------------------------------------------------
(***************************************************************************)
(* One packet is released.                                                 *)
(***************************************************************************)
SameFlags(s, r) ==
    s.on = r.on /\ s.newLink = r.newLink /\ s.stop = r.stop /\ s.expired = r.expired

\* `s` is `r` after the head of the queue of `cid` was forwarded.
IsPop(s, r, cid) ==
    /\ s \in Receivers
    /\ s.queue = [r.queue EXCEPT ![cid] = Tail(@)]
    /\ \A c \in Links : c # cid => s.queue[c] = r.queue[c]
    /\ Len(s.queue[cid]) = Len(r.queue[cid]) - 1
    /\ \A i \in 1 .. Len(s.queue[cid]) : s.queue[cid][i] = r.queue[cid][i + 1]
    /\ Len(s.out) = Len(r.out) + 1
    /\ \A k \in 1 .. Len(r.out) : s.out[k] = r.out[k]
    /\ s.out[Len(r.out) + 1] = Head(r.queue[cid]).id
    /\ SameFlags(s, r)

LEMMA QueueTypes ==
    ASSUME NEW r \in Receivers, NEW cid \in Links
    PROVE  /\ r.queue \in Queues /\ r.queue[cid] \in Seq(Items)
           /\ Len(r.queue[cid]) \in Nat
           /\ r.queue[cid] # << >> <=> Len(r.queue[cid]) > 0
           /\ r.queue[cid] # << >> =>
                 /\ Head(r.queue[cid]) = r.queue[cid][1]
                 /\ Head(r.queue[cid]) \in Items
           /\ \A i \in 1 .. Len(r.queue[cid]) : r.queue[cid][i] \in Items
           /\ r.out \in Seq(Nat) /\ Len(r.out) \in Nat
           /\ \A k \in 1 .. Len(r.out) : r.out[k] \in Nat
  <1>1. r.queue \in Queues /\ r.queue[cid] \in Seq(Items) /\ r.out \in Seq(Nat)
    BY DEF Receivers, Queues
  <1>2. Len(r.queue[cid]) \in Nat /\ Len(r.out) \in Nat
    BY <1>1, LenProperties
  <1>3. r.queue[cid] # << >> <=> Len(r.queue[cid]) > 0
    BY <1>1, <1>2, EmptySeq
  <1>4. \A i \in 1 .. Len(r.queue[cid]) : r.queue[cid][i] \in Items
    BY <1>1, ElementOfSeq
  <1>5. \A k \in 1 .. Len(r.out) : r.out[k] \in Nat
    BY <1>1, ElementOfSeq
  <1>6. r.queue[cid] # << >> => /\ Head(r.queue[cid]) = r.queue[cid][1]
                                /\ Head(r.queue[cid]) \in Items
    BY <1>1, <1>2, <1>3, <1>4
  <1> QED
    BY <1>1, <1>2, <1>3, <1>4, <1>5, <1>6

LEMMA NextSnIsSn ==
    ASSUME NEW sn \in Sns
    PROVE  NextSn(sn) \in Sns /\ NextSn(sn) = IF sn = MAX_GMA_SN THEN 0 ELSE sn + 1
  <1>1. MAX_GMA_SN \in Nat /\ sn \in 0 .. MAX_GMA_SN
    BY ReorderAssumption DEF Sns
  <1> QED
    BY <1>1 DEF NextSn, Sns

LEMMA PopPops ==
    ASSUME NEW r \in Receivers, NEW cid \in Links, r.queue[cid] # << >>
    PROVE  /\ IsPop(Pop(r, cid), r, cid)
           /\ Pop(r, cid).expected = r.expected
           /\ IsPop(PopAndExpectNext(r, cid), r, cid)
           /\ PopAndExpectNext(r, cid).expected = NextSn(Head(r.queue[cid]).sn)
  <1> DEFINE s == Pop(r, cid)
  <1> DEFINE t == PopAndExpectNext(r, cid)
  <1> DEFINE q == [r.queue EXCEPT ![cid] = Tail(@)]
  <1> DEFINE o == Append(r.out, Head(r.queue[cid]).id)
  <1> DEFINE e == NextSn(Head(r.queue[cid]).sn)
  <1>1. /\ r.queue \in Queues /\ r.queue[cid] \in Seq(Items) /\ r.out \in Seq(Nat)
        /\ r.expected \in Sns /\ r.on \in BOOLEAN /\ r.newLink \in Cids
        /\ r.stop \in BOOLEAN /\ r.expired \in Nat
    BY DEF Receivers, Queues
  <1>2. /\ s = [[r EXCEPT !.queue = q] EXCEPT !.out = o]
        /\ t = [s EXCEPT !.expected = e]
    BY DEF Pop, PopAndExpectNext
  <1>5. Head(r.queue[cid]) \in Items
    BY QueueTypes
  <1>6. e \in Sns /\ Head(r.queue[cid]).id \in Nat
    BY <1>5, NextSnIsSn DEF Items
  <1>7. /\ q \in Queues
        /\ \A c \in Links : c # cid => q[c] = r.queue[c]
        /\ Len(q[cid]) = Len(r.queue[cid]) - 1
        /\ \A i \in 1 .. Len(q[cid]) : q[cid][i] = r.queue[cid][i + 1]
    BY <1>1, HeadTailProperties DEF Queues
  <1>8. /\ o \in Seq(Nat)
        /\ Len(o) = Len(r.out) + 1
        /\ \A k \in 1 .. Len(r.out) : o[k] = r.out[k]
        /\ o[Len(r.out) + 1] = Head(r.queue[cid]).id
    BY <1>1, <1>6, AppendProperties
  <1> HIDE DEF s, t, q, o, e
  <1>9. s \in Receivers /\ t \in Receivers
    BY <1>1, <1>2, <1>6, <1>7, <1>8 DEF Receivers
  <1>10. /\ s.queue = q /\ s.out = o /\ s.expected = r.expected /\ SameFlags(s, r)
         /\ t.queue = q /\ t.out = o /\ t.expected = e /\ SameFlags(t, r)
    BY <1>2 DEF SameFlags, Receivers
  <1>11. IsPop(s, r, cid) /\ IsPop(t, r, cid)
    BY <1>7, <1>8, <1>9, <1>10 DEF IsPop, q
  <1> QED
    BY <1>10, <1>11 DEF s, t, e

\* The packet with the least SN is released, and the next one is expected.
Advances(s, r, cid) ==
    /\ cid = MinCid(r.queue) /\ cid \in Links /\ r.queue[cid] # << >>
    /\ IsPop(s, r, cid)
    /\ s.expected = NextSn(Head(r.queue[cid]).sn)

IsEmpty(r) == \A cid \in Links : r.queue[cid] = << >>

LEMMA MinCidCases ==
    ASSUME NEW r \in Receivers
    PROVE  \/ MinCid(r.queue) = NoCid /\ IsEmpty(r)
           \/ /\ MinCid(r.queue) # NoCid
              /\ MinCid(r.queue) \in Links /\ r.queue[MinCid(r.queue)] # << >>
              /\ ~ IsEmpty(r)
              /\ Advances(PopAndExpectNext(r, MinCid(r.queue)), r, MinCid(r.queue))
  <1>1. CASE MinCid(r.queue) = NoCid
    BY <1>1, MinCidFinds DEF IsEmpty
  <1>2. CASE MinCid(r.queue) # NoCid
    <2>1. MinCid(r.queue) \in Links /\ r.queue[MinCid(r.queue)] # << >>
      BY <1>2, MinCidFinds DEF Cids
    <2> QED
      BY <1>2, <2>1, PopPops DEF Advances, IsEmpty
  <1> QED
    BY <1>1, <1>2

LEMMA AllStepCases ==
    ASSUME NEW r \in Receivers
    PROVE  \/ ReleaseAllStep(r) = r /\ IsEmpty(r)
           \/ Advances(ReleaseAllStep(r), r, MinCid(r.queue)) /\ ~ IsEmpty(r)
  BY MinCidCases DEF ReleaseAllStep

\* ReleaseAllPackets leaves nothing in the queues.
LEMMA ReleaseAllEmpties ==
    ASSUME NEW r \in Receivers
    PROVE  /\ ReleaseAllPackets(r) \in Receivers
           /\ IsEmpty(ReleaseAllPackets(r))
           /\ SameFlags(ReleaseAllPackets(r), r)
  <1> DEFINE N == TotalQueueSize(r.queue)
  <1>1. \A s \in Receivers : ReleaseAllStep(s) \in Receivers
    BY AllStepCases DEF Advances, IsPop
  <1>2. PICK f \in [0 .. N -> Receivers] :
            /\ f[0] = r /\ f[N] = ReleaseAllPackets(r)
            /\ \A n \in 1 .. N : f[n] = ReleaseAllStep(f[n - 1])
    BY <1>1, AllRounds
  <1>3. N \in Nat
    BY TotalIsNumber DEF Receivers
  <1> DEFINE P == {n \in 0 .. N : TotalQueueSize(f[n].queue) = N - n /\ SameFlags(f[n], r)}
  <1>4. 0 \in P
    <2>1. SameFlags(r, r) /\ 0 \in 0 .. N /\ N - 0 = N
      BY <1>3 DEF SameFlags
    <2> QED
      BY <1>2, <2>1
  <1>5. \A n \in 0 .. N : (n \in P /\ n < N) => n + 1 \in P
    <2> SUFFICES ASSUME NEW n \in 0 .. N, n \in P, n < N PROVE n + 1 \in P
      OBVIOUS
    <2> DEFINE s == f[n]
    <2> DEFINE t == f[n + 1]
    <2>1. n + 1 \in 1 .. N /\ (n + 1) - 1 = n /\ n + 1 \in 0 .. N /\ N - n > 0
      BY <1>3
    <2>2. t = ReleaseAllStep(s) /\ s \in Receivers
      BY <1>2, <2>1
    <2>3. TotalQueueSize(s.queue) = N - n /\ SameFlags(s, r)
      OBVIOUS
    <2> HIDE DEF s, t, N
    <2>4. s.queue \in Queues
      BY <2>2 DEF Receivers
    <2>5. ~ IsEmpty(s)
      BY <2>1, <2>3, <2>4, TotalIsNumber DEF IsEmpty
    <2>6. Advances(t, s, MinCid(s.queue))
      BY <2>2, <2>5, AllStepCases
    <2>7. TotalQueueSize(t.queue) = TotalQueueSize(s.queue) - 1
      BY <2>4, <2>6, TotalAfterPop DEF Advances, IsPop
    <2>8. SameFlags(t, r)
      BY <2>3, <2>6 DEF Advances, IsPop, SameFlags
    <2>9. TotalQueueSize(t.queue) = N - (n + 1)
      BY <1>3, <2>3, <2>7
    <2> QED
      BY <2>1, <2>8, <2>9 DEF t
  <1>6. P = 0 .. N
    <2>1. P \in SUBSET (0 .. N)
      OBVIOUS
    <2> HIDE DEF P, N
    <2> QED
      BY <1>3, <1>4, <1>5, <2>1, Rounds
  <1>7. N \in 0 .. N /\ N - N = 0
    BY <1>3
  <1>8. f[N] \in Receivers /\ TotalQueueSize(f[N].queue) = 0 /\ SameFlags(f[N], r)
    <2> HIDE DEF N
    <2> QED
      BY <1>6, <1>7, <1>2
  <1>9. f[N].queue \in Queues
    BY <1>8 DEF Receivers
  <1>10. IsEmpty(f[N])
    BY <1>8, <1>9, TotalIsNumber DEF IsEmpty
  <1> QED
    BY <1>2, <1>8, <1>10

\* The flags of StopReordering.
Stopped(r) == IF r.on THEN [r EXCEPT !.on = FALSE, !.newLink = NoCid, !.stop = FALSE] ELSE r

SameContents(s, r) == s.queue = r.queue /\ s.out = r.out

LEMMA StoppedFacts ==
    ASSUME NEW r \in Receivers
    PROVE  /\ StopReordering(r) = ReleaseAllPackets(Stopped(r))
           /\ Stopped(r) \in Receivers /\ SameContents(Stopped(r), r)
           /\ Stopped(r).on = FALSE /\ Stopped(r).expected = r.expected
           /\ Stopped(r).expired = r.expired
           /\ r.on => Stopped(r).newLink = NoCid
           /\ ~ r.on => Stopped(r) = r
  <1>1. r.on \in BOOLEAN /\ NoCid \in Cids
    BY DEF Receivers, Cids
  <1>2. StopReordering(r) = ReleaseAllPackets(Stopped(r))
    BY DEF StopReordering, Stopped
  <1>3. Stopped(r) \in Receivers
    BY <1>1 DEF Stopped, Receivers
  <1>4. /\ SameContents(Stopped(r), r)
        /\ Stopped(r).on = FALSE /\ Stopped(r).expected = r.expected
        /\ Stopped(r).expired = r.expired
        /\ r.on => Stopped(r).newLink = NoCid
        /\ ~ r.on => Stopped(r) = r
    BY <1>1 DEF Stopped, Receivers, SameContents
  <1> QED
    BY <1>2, <1>3, <1>4

LEMMA StopReorderingEmpties ==
    ASSUME NEW r \in Receivers
    PROVE  /\ StopReordering(r) \in Receivers
           /\ IsEmpty(StopReordering(r))
           /\ StopReordering(r).on = FALSE
           /\ StopReordering(r).expired = r.expired
           /\ r.on => StopReordering(r).newLink = NoCid
  <1>1. PICK s \in Receivers : s = Stopped(r)
    BY StoppedFacts
  <1>2. /\ StopReordering(r) = ReleaseAllPackets(s)
        /\ s.on = FALSE /\ s.expired = r.expired
        /\ r.on => s.newLink = NoCid
    BY <1>1, StoppedFacts
  <1>3. /\ ReleaseAllPackets(s) \in Receivers
        /\ IsEmpty(ReleaseAllPackets(s))
        /\ SameFlags(ReleaseAllPackets(s), s)
    BY ReleaseAllEmpties
  <1> QED
    BY <1>2, <1>3 DEF SameFlags

-----------------------------------------------------------------------------
(***************************************************************************)
(* Sets of receivers that the release loops do not leave.                  *)
(***************************************************************************)
Closed(G) ==
    \A s \in G : /\ ReleaseMinStep(s) \in G
                 /\ ReleaseInOrderStep(s) \in G
                 /\ s.newLink # NoCid => StopReordering(s) \in G

\* Whether a receiver is in the set depends on its queues and on what it forwarded
\* only, and forwarding the head of a queue does not leave the set.
Movable(G) ==
    /\ \A s \in G : \A t \in Receivers : SameContents(t, s) => t \in G
    /\ \A s \in G : \A t \in Receivers : \A cid \in Links :
          (s.queue[cid] # << >> /\ IsPop(t, s, cid)) => t \in G

LEMMA MinStepCases ==
    ASSUME NEW r \in Receivers
    PROVE  \/ ReleaseMinStep(r) = r
           \/ /\ MinCid(r.queue) \in Links /\ r.queue[MinCid(r.queue)] # << >>
              /\ Head(r.queue[MinCid(r.queue)]).sn # MAX_GMA_SN
              /\ \A link \in up : r.queue[link] # << >>
              /\ SnDiff(Head(r.queue[MinCid(r.queue)]).sn, r.expected) >= 0
                     => ReleaseMinStep(r) = PopAndExpectNext(r, MinCid(r.queue))
              /\ ~ (SnDiff(Head(r.queue[MinCid(r.queue)]).sn, r.expected) >= 0)
                     => ReleaseMinStep(r) = Pop(r, MinCid(r.queue))
  <1>1. CASE ReleaseMinStep(r) = r
    BY <1>1
  <1>2. CASE ReleaseMinStep(r) # r
    <2>1. /\ ~ \E link \in up : r.queue[link] = << >>
          /\ MinCid(r.queue) # NoCid
          /\ Head(r.queue[MinCid(r.queue)]).sn # MAX_GMA_SN
      BY <1>2 DEF ReleaseMinStep
    <2>2. MinCid(r.queue) \in Links /\ r.queue[MinCid(r.queue)] # << >>
      BY <2>1, MinCidCases
    <2>3. ReleaseMinStep(r) =
             IF SnDiff(Head(r.queue[MinCid(r.queue)]).sn, r.expected) >= 0
             THEN PopAndExpectNext(r, MinCid(r.queue)) ELSE Pop(r, MinCid(r.queue))
      BY <2>1 DEF ReleaseMinStep
    <2> QED
      BY <2>1, <2>2, <2>3
  <1> QED
    BY <1>1, <1>2

LEMMA InOrderStepCases ==
    ASSUME NEW r \in Receivers
    PROVE  LET cid == MinCid(r.queue)
               head == Head(r.queue[cid])
               next == PopAndExpectNext(r, cid)
           IN  \/ ReleaseInOrderStep(r) = r
               \/ /\ cid \in Links /\ r.queue[cid] # << >>
                  /\ \/ head.sn = r.expected /\ r.newLink = cid
                        /\ ReleaseInOrderStep(r) = StopReordering(next)
                     \/ head.sn = r.expected /\ r.newLink # cid
                        /\ ReleaseInOrderStep(r) = next
                     \/ head.sn # r.expected /\ SnDiff(head.sn, r.expected) < 0
                        /\ ReleaseInOrderStep(r) = Pop(r, cid)
                     \/ head.sn # r.expected /\ ~ (SnDiff(head.sn, r.expected) < 0)
                        /\ head.inOrder /\ ReleaseInOrderStep(r) = next
                     \/ head.sn # r.expected /\ ~ (SnDiff(head.sn, r.expected) < 0)
                        /\ r.expired > 0
                        /\ ReleaseInOrderStep(r) = [next EXCEPT !.expired = @ - 1]
  <1> DEFINE cid == MinCid(r.queue)
  <1> DEFINE head == Head(r.queue[cid])
  <1> DEFINE next == PopAndExpectNext(r, cid)
  <1>1. CASE ReleaseInOrderStep(r) = r
    BY <1>1
  <1>2. CASE ReleaseInOrderStep(r) # r
    <2>1. cid # NoCid
      BY <1>2 DEF ReleaseInOrderStep
    <2>2. cid \in Links /\ r.queue[cid] # << >>
      BY <2>1, MinCidCases
    <2>3. ReleaseInOrderStep(r) =
            IF head.sn = r.expected
            THEN IF r.newLink = cid THEN StopReordering(next) ELSE next
            ELSE IF SnDiff(head.sn, r.expected) < 0 THEN Pop(r, cid)
            ELSE IF head.inOrder THEN next
            ELSE IF r.expired > 0 THEN [next EXCEPT !.expired = @ - 1]
            ELSE r
      BY <2>1 DEF ReleaseInOrderStep
    <2> HIDE DEF cid, head, next
    <2> QED
      BY <1>2, <2>2, <2>3 DEF cid, head, next
  <1> QED
    BY <1>1, <1>2

LEMMA MovableKeepsAll ==
    ASSUME NEW G \in SUBSET Receivers, Movable(G), NEW r \in G
    PROVE  ReleaseAllPackets(r) \in G /\ StopReordering(r) \in G
  <1>1. \A s \in G : ReleaseAllStep(s) \in G
    BY AllStepCases DEF Movable, Advances, IsPop
  <1>2. \A s \in G : ReleaseAllPackets(s) \in G
    BY <1>1, AllKeeps
  <1>3. PICK t \in Receivers : t = Stopped(r)
    BY StoppedFacts
  <1>4. SameContents(t, r) /\ StopReordering(r) = ReleaseAllPackets(t)
    BY <1>3, StoppedFacts
  <1>5. t \in G
    BY <1>4 DEF Movable
  <1> QED
    BY <1>2, <1>4, <1>5

LEMMA LessExpired ==
    ASSUME NEW r \in Receivers, r.expired > 0
    PROVE  /\ [r EXCEPT !.expired = @ - 1] \in Receivers
           /\ SameContents([r EXCEPT !.expired = @ - 1], r)
           /\ [r EXCEPT !.expired = @ - 1].expected = r.expected
           /\ [r EXCEPT !.expired = @ - 1].on = r.on
           /\ [r EXCEPT !.expired = @ - 1].newLink = r.newLink
           /\ [r EXCEPT !.expired = @ - 1].stop = r.stop
  <1>1. r.expired \in Nat /\ r.expired - 1 \in Nat
    BY DEF Receivers
  <1> DEFINE x == r.expired - 1
  <1>2. x \in Nat
    BY <1>1
  <1> HIDE DEF x
  <1>3. [r EXCEPT !.expired = x] \in Receivers
    BY <1>2 DEF Receivers
  <1>4. /\ SameContents([r EXCEPT !.expired = x], r)
        /\ [r EXCEPT !.expired = x].expected = r.expected
        /\ [r EXCEPT !.expired = x].on = r.on
        /\ [r EXCEPT !.expired = x].newLink = r.newLink
        /\ [r EXCEPT !.expired = x].stop = r.stop
    BY DEF Receivers, SameContents
  <1> QED
    BY <1>3, <1>4 DEF x

LEMMA MovableIsClosed ==
    ASSUME NEW G \in SUBSET Receivers, Movable(G)
    PROVE  Closed(G)
  <1> SUFFICES ASSUME NEW r \in G
               PROVE  /\ ReleaseMinStep(r) \in G
                      /\ ReleaseInOrderStep(r) \in G
                      /\ r.newLink # NoCid => StopReordering(r) \in G
    BY DEF Closed
  <1> DEFINE cid == MinCid(r.queue)
  <1> DEFINE next == PopAndExpectNext(r, cid)
  <1>1. (cid \in Links /\ r.queue[cid] # << >>) => /\ Pop(r, cid) \in G
                                                   /\ next \in G
                                                   /\ next.expired = r.expired
    <2> SUFFICES ASSUME NEW c \in Links, c = cid, r.queue[c] # << >>
                 PROVE  Pop(r, c) \in G /\ PopAndExpectNext(r, c) \in G
                        /\ PopAndExpectNext(r, c).expired = r.expired
      OBVIOUS
    <2>1. PICK s, t : s = Pop(r, c) /\ t = PopAndExpectNext(r, c)
      OBVIOUS
    <2>2. IsPop(s, r, c) /\ IsPop(t, r, c)
      BY <2>1, PopPops
    <2>3. s \in Receivers /\ t \in Receivers /\ t.expired = r.expired
      BY <2>2 DEF IsPop, SameFlags
    <2>4. s \in G /\ t \in G
      BY <2>2, <2>3 DEF Movable
    <2> QED
      BY <2>1, <2>3, <2>4
  <1>2. ReleaseMinStep(r) \in G
    BY <1>1, MinStepCases
  <1>3. next \in G => StopReordering(next) \in G
    BY MovableKeepsAll
  <1>4. \A t \in G : t.expired > 0 => [t EXCEPT !.expired = @ - 1] \in G
    <2> SUFFICES ASSUME NEW t \in G, t.expired > 0 PROVE [t EXCEPT !.expired = @ - 1] \in G
      OBVIOUS
    <2>1. PICK v \in Receivers : v = [t EXCEPT !.expired = @ - 1]
      BY LessExpired
    <2>2. SameContents(v, t)
      BY <2>1, LessExpired
    <2> QED
      BY <2>1, <2>2 DEF Movable
  <1>5. ReleaseInOrderStep(r) \in G
    BY <1>1, <1>3, <1>4, InOrderStepCases
  <1> QED
    BY <1>2, <1>5, MovableKeepsAll

LEMMA ClosedKeeps ==
    ASSUME NEW G \in SUBSET Receivers, Closed(G), NEW r \in G
    PROVE  /\ ReleaseMinSnPacket(r) \in G
           /\ ReleaseInOrderPackets(r) \in G
  <1>1. \A s \in G : ReleaseMinStep(s) \in G /\ ReleaseInOrderStep(s) \in G
    BY DEF Closed
  <1> QED
    BY <1>1, MinKeeps, InOrderKeeps

LEMMA ReceiversAreMovable == Movable(Receivers)
  BY DEF Movable

-----------------------------------------------------------------------------
(***************************************************************************)
(* A packet arrives.                                                       *)
(***************************************************************************)
Delivered(r, pkt) == [r EXCEPT !.out = Append(@, pkt.id), !.expected = NextSn(pkt.sn)]

Queued(r, pkt, cid, inOrder) ==
    [r EXCEPT !.queue[cid] = Append(@, [sn |-> pkt.sn, id |-> pkt.id, inOrder |-> inOrder]),
              !.stop = @ \/ (~ inOrder /\ r.newLink = cid)]

IsDelivered(s, r, pkt) ==
    /\ s \in Receivers
    /\ s.queue = r.queue
    /\ s.expected = NextSn(pkt.sn)
    /\ Len(s.out) = Len(r.out) + 1
    /\ \A k \in 1 .. Len(r.out) : s.out[k] = r.out[k]
    /\ s.out[Len(r.out) + 1] = pkt.id
    /\ SameFlags(s, r)

IsQueued(s, r, pkt, cid, inOrder) ==
    /\ s \in Receivers
    /\ s.out = r.out /\ s.expected = r.expected
    /\ s.on = r.on /\ s.newLink = r.newLink /\ s.expired = r.expired
    /\ s.stop = (r.stop \/ (~ inOrder /\ r.newLink = cid))
    /\ \A c \in Links : c # cid => s.queue[c] = r.queue[c]
    /\ Len(s.queue[cid]) = Len(r.queue[cid]) + 1
    /\ \A i \in 1 .. Len(r.queue[cid]) : s.queue[cid][i] = r.queue[cid][i]
    /\ s.queue[cid][Len(s.queue[cid])] = [sn |-> pkt.sn, id |-> pkt.id, inOrder |-> inOrder]

LEMMA DeliveredIsDelivered ==
    ASSUME NEW r \in Receivers, NEW pkt \in DataPackets
    PROVE  IsDelivered(Delivered(r, pkt), r, pkt)
  <1> DEFINE o == Append(r.out, pkt.id)
  <1> DEFINE e == NextSn(pkt.sn)
  <1> DEFINE s == Delivered(r, pkt)
  <1>1. s = [[r EXCEPT !.out = o] EXCEPT !.expected = e]
    BY DEF Delivered
  <1>2. r.out \in Seq(Nat) /\ pkt.id \in Nat /\ pkt.sn \in Sns
    BY DEF Receivers, DataPackets
  <1>3. /\ o \in Seq(Nat)
        /\ Len(o) = Len(r.out) + 1
        /\ \A k \in 1 .. Len(r.out) : o[k] = r.out[k]
        /\ o[Len(r.out) + 1] = pkt.id
    BY <1>2, AppendProperties
  <1>4. e \in Sns
    BY <1>2, NextSnIsSn
  <1> HIDE DEF o, e, s
  <1>5. s \in Receivers
    BY <1>1, <1>3, <1>4 DEF Receivers
  <1>6. s.queue = r.queue /\ s.out = o /\ s.expected = e /\ SameFlags(s, r)
    BY <1>1 DEF Receivers, SameFlags
  <1> QED
    BY <1>3, <1>5, <1>6 DEF IsDelivered, e, s

LEMMA QueuedIsQueued ==
    ASSUME NEW r \in Receivers, NEW pkt \in DataPackets, NEW cid \in Links,
           NEW inOrder \in BOOLEAN
    PROVE  IsQueued(Queued(r, pkt, cid, inOrder), r, pkt, cid, inOrder)
  <1> DEFINE item == [sn |-> pkt.sn, id |-> pkt.id, inOrder |-> inOrder]
  <1> DEFINE q == [r.queue EXCEPT ![cid] = Append(@, item)]
  <1> DEFINE b == r.stop \/ (~ inOrder /\ r.newLink = cid)
  <1> DEFINE s == Queued(r, pkt, cid, inOrder)
  <1>1. s = [[r EXCEPT !.queue = q] EXCEPT !.stop = b]
    BY DEF Queued
  <1>2. r.queue \in Queues /\ r.queue[cid] \in Seq(Items) /\ item \in Items
    BY DEF Receivers, DataPackets, Items, Queues
  <1> HIDE DEF item
  <1>3. /\ Append(r.queue[cid], item) \in Seq(Items)
        /\ Len(Append(r.queue[cid], item)) = Len(r.queue[cid]) + 1
        /\ \A i \in 1 .. Len(r.queue[cid]) : Append(r.queue[cid], item)[i] = r.queue[cid][i]
        /\ Append(r.queue[cid], item)[Len(r.queue[cid]) + 1] = item
    BY <1>2, AppendProperties
  <1>4. /\ q \in Queues /\ q[cid] = Append(r.queue[cid], item)
        /\ \A c \in Links : c # cid => q[c] = r.queue[c]
    BY <1>2, <1>3 DEF Queues
  <1>5. b \in BOOLEAN
    BY DEF Receivers
  <1> HIDE DEF q, b, s
  <1>6. s \in Receivers
    BY <1>1, <1>4, <1>5 DEF Receivers
  <1>7. /\ s.queue = q /\ s.stop = b /\ s.out = r.out /\ s.expected = r.expected
        /\ s.on = r.on /\ s.newLink = r.newLink /\ s.expired = r.expired
    BY <1>1 DEF Receivers
  <1>8. /\ Len(s.queue[cid]) = Len(r.queue[cid]) + 1
        /\ \A i \in 1 .. Len(r.queue[cid]) : s.queue[cid][i] = r.queue[cid][i]
        /\ s.queue[cid][Len(s.queue[cid])] = item
        /\ \A c \in Links : c # cid => s.queue[c] = r.queue[c]
    BY <1>3, <1>4, <1>7
  <1> QED
    BY <1>6, <1>7, <1>8 DEF IsQueued, b, s, item

\* The receivers with which InOrderDelivery enters the release loops are in G.
Accepts(G, r, pkt, cid, lost) ==
    LET ahead == pkt.sn # r.expected /\ ~ (SnDiff(pkt.sn, r.expected) < 0)
        direct == lost /\ r.queue[cid] = << >>
    IN  /\ (pkt.sn = r.expected \/ (ahead /\ direct)) => Delivered(r, pkt) \in G
        /\ (ahead /\ ~ direct) => Queued(r, pkt, cid, lost) \in G

LEMMA TotalOfReceiver ==
    ASSUME NEW r \in Receivers
    PROVE  (TotalQueueSize(r.queue) > 0) = (~ IsEmpty(r))
  <1>1. r.queue \in Queues
    BY DEF Receivers
  <1>2. TotalQueueSize(r.queue) \in Nat /\ (TotalQueueSize(r.queue) = 0 <=> IsEmpty(r))
    BY <1>1, TotalIsNumber DEF IsEmpty
  <1> QED
    BY <1>2

\* Whatever InOrderDelivery does with a packet, the receiver stays in G; a packet
\* that is behind the expected one is thrown away and changes nothing.
LEMMA ArrivalStays ==
    ASSUME NEW G \in SUBSET Receivers, Closed(G), NEW r \in Receivers,
           NEW pkt \in DataPackets, NEW cid \in Links,
           Accepts(G, r, pkt, cid, GapIsLost(pkt, cid)),
           InOrderDelivery(r, pkt, cid)
    PROVE  \/ /\ \E s \in G : /\ Becomes(s)
                              /\ ~ m_reorderingTimeoutEvent' => IsEmpty(s)
              /\ m_reorderingTimeoutEvent' \in BOOLEAN
              /\ UNCHANGED discarded
           \/ /\ pkt.sn # r.expected /\ SnDiff(pkt.sn, r.expected) < 0
              /\ Becomes(r)
              /\ UNCHANGED m_reorderingTimeoutEvent
              /\ discarded' = discarded \cup {pkt.id}
  <1> DEFINE lost == GapIsLost(pkt, cid)
  <1> DEFINE ahead == pkt.sn # r.expected /\ ~ (SnDiff(pkt.sn, r.expected) < 0)
  <1> DEFINE direct == lost /\ r.queue[cid] = << >>
  <1> DEFINE Result == /\ \E s \in G : /\ Becomes(s)
                                       /\ ~ m_reorderingTimeoutEvent' => IsEmpty(s)
                       /\ m_reorderingTimeoutEvent' \in BOOLEAN
                       /\ UNCHANGED discarded
  <1>1. ASSUME Delivered(r, pkt) \in G, Deliver(r, pkt, cid) PROVE Result
    <2>1. PICK next \in G : next = ReleaseInOrderPackets(Delivered(r, pkt))
      BY <1>1, ClosedKeeps
    <2>2. /\ Becomes(IF next.newLink = cid THEN StopReordering(next) ELSE next)
          /\ m_reorderingTimeoutEvent' = (TotalQueueSize(next.queue) > 0)
          /\ UNCHANGED discarded
      BY <1>1, <2>1 DEF Deliver, Delivered
    <2>3. (TotalQueueSize(next.queue) > 0) = (~ IsEmpty(next))
      BY TotalOfReceiver
    <2>4. m_reorderingTimeoutEvent' \in BOOLEAN
          /\ (~ m_reorderingTimeoutEvent' => IsEmpty(next))
      <3>1. m_reorderingTimeoutEvent' = (~ IsEmpty(next))
        BY <2>2, <2>3, Zenon
      <3> QED
        BY <3>1, Zenon
    <2>5. CASE next.newLink = cid
      <3>1. cid # NoCid
        BY LinksAreNumbers
      <3>2. StopReordering(next) \in G /\ IsEmpty(StopReordering(next))
        BY <2>5, <3>1, StopReorderingEmpties DEF Closed
      <3> QED
        BY <2>2, <2>4, <2>5, <3>2
    <2>6. CASE next.newLink # cid
      BY <2>2, <2>4, <2>6
    <2> QED
      BY <2>5, <2>6
  <1>2. ASSUME Queued(r, pkt, cid, lost) \in G, Enqueue(r, pkt, cid, lost) PROVE Result
    <2>1. PICK s \in G : s = ReleaseMinSnPacket(Queued(r, pkt, cid, lost))
      BY <1>2, ClosedKeeps
    <2>2. PICK t \in G : t = ReleaseInOrderPackets(s)
      BY ClosedKeeps
    <2>3. BecomesWithTimer(t) /\ UNCHANGED discarded
      BY <1>2, <2>1, <2>2 DEF Enqueue, Queued
    <2>4. (TotalQueueSize(t.queue) > 0) = (~ IsEmpty(t))
      BY TotalOfReceiver
    <2>5. m_reorderingTimeoutEvent' = (~ IsEmpty(t))
      BY <2>3, <2>4, Zenon DEF BecomesWithTimer
    <2> QED
      BY <2>3, <2>5, Zenon DEF BecomesWithTimer
  <1>3. /\ (pkt.sn = r.expected \/ (ahead /\ direct)) => Delivered(r, pkt) \in G
        /\ (ahead /\ ~ direct) => Queued(r, pkt, cid, lost) \in G
    BY DEF Accepts
  <1>4. IF pkt.sn = r.expected THEN Deliver(r, pkt, cid)
        ELSE IF SnDiff(pkt.sn, r.expected) < 0
        THEN /\ Becomes(r)
             /\ UNCHANGED m_reorderingTimeoutEvent
             /\ discarded' = discarded \cup {pkt.id}
        ELSE IF direct THEN Deliver(r, pkt, cid)
        ELSE Enqueue(r, pkt, cid, lost)
    BY DEF InOrderDelivery
  <1> HIDE DEF Result, lost
  <1> QED
    BY <1>1, <1>2, <1>3, <1>4, Zenon DEF Result, lost

-----------------------------------------------------------------------------
(***************************************************************************)
(* The state of the receiver, and its type.                                *)
(***************************************************************************)
LEMMA ReceiverIsReceiver ==
    ASSUME TypeOK, NEW x \in Nat
    PROVE  /\ Receiver(x) \in Receivers
           /\ Receiver(x).queue = m_reorderingQueue /\ Receiver(x).out = forwarded
           /\ Receiver(x).expected = m_gmaRxExpectedSn /\ Receiver(x).on = m_enableReordering
           /\ Receiver(x).newLink = m_newLinkCid /\ Receiver(x).stop = m_stopReorderEvent
           /\ Receiver(x).expired = x
  BY DEF TypeOK, Receiver, Receivers, Queues, Cids

LEMMA DefaultCidIsLink ==
    ASSUME NEW x \in Scenarios, x = scenario
    PROVE  /\ DefaultCid \in scenario.links /\ scenario.links \subseteq Links
           /\ scenario.firstSn \in 0 .. MAX_GMA_SN /\ scenario.maxPackets \in Nat
           /\ scenario.mode \in {"split", "steer", "duplicate"}
  <1>1. scenario \in ScenarioType
    BY ReorderAssumption
  <1>2. /\ scenario.links \subseteq Links /\ scenario.links # {}
        /\ scenario.firstSn \in 0 .. MAX_GMA_SN /\ scenario.maxPackets \in Nat
        /\ scenario.mode \in {"split", "steer", "duplicate"}
    BY <1>1 DEF ScenarioType
  <1>3. scenario.links \in SUBSET Nat
    BY <1>2, LinksAreNumbers
  <1>4. \E cid \in scenario.links : \A link \in scenario.links : cid <= link
    BY <1>2, <1>3, LeastNumber
  <1> QED
    BY <1>2, <1>4 DEF DefaultCid

LEMMA ExpirationsAreNumbers ==
    ASSUME TypeOK
    PROVE  Expirations \subseteq Nat
  <1>1. scenario.maxPackets \in Nat
    BY DefaultCidIsLink DEF TypeOK
  <1> QED
    BY <1>1 DEF Expirations

LEMMA OnArrivalFacts ==
    ASSUME NEW r \in Receivers, NEW cid \in Links
    PROVE  /\ OnArrival(r, cid) \in Receivers
           /\ SameContents(OnArrival(r, cid), r)
           /\ OnArrival(r, cid).expected = r.expected
           /\ OnArrival(r, cid).stop = r.stop /\ OnArrival(r, cid).expired = r.expired
           /\ r.on => OnArrival(r, cid).on
           /\ scenario.mode = "split" => OnArrival(r, cid) = r
           /\ scenario.mode = "steer" =>
                 /\ OnArrival(r, cid).newLink =
                       IF r.newLink = NoCid \/ ~ r.on THEN cid ELSE r.newLink
                 /\ OnArrival(r, cid).on = (r.on \/ r.newLink \notin {NoCid, cid})
  <1>1. cid \in Cids /\ r.on \in BOOLEAN /\ cid # NoCid
    BY LinksAreNumbers DEF Cids, Receivers
  <1> DEFINE a == [r EXCEPT !.newLink = cid]
  <1> DEFINE b == [r EXCEPT !.newLink = cid, !.on = TRUE]
  <1> DEFINE c == [r EXCEPT !.on = TRUE]
  <1>2. a \in Receivers /\ b \in Receivers /\ c \in Receivers
    BY <1>1 DEF Receivers
  <1>3. /\ SameContents(a, r) /\ a.expected = r.expected /\ a.stop = r.stop
        /\ a.expired = r.expired /\ a.on = r.on /\ a.newLink = cid
        /\ SameContents(b, r) /\ b.expected = r.expected /\ b.stop = r.stop
        /\ b.expired = r.expired /\ b.on = TRUE /\ b.newLink = cid
        /\ SameContents(c, r) /\ c.expected = r.expected /\ c.stop = r.stop
        /\ c.expired = r.expired /\ c.on = TRUE /\ c.newLink = r.newLink
    BY DEF Receivers, SameContents
  <1> HIDE DEF a, b, c
  <1>4. CASE scenario.mode = "steer" /\ r.newLink = NoCid
    <2>1. OnArrival(r, cid) = a
      BY <1>4 DEF OnArrival, a
    <2> QED
      BY <1>1, <1>2, <1>3, <1>4, <2>1
  <1>5. CASE scenario.mode = "steer" /\ r.newLink \notin {NoCid, cid} /\ ~ r.on
    <2>1. OnArrival(r, cid) = b
      BY <1>5 DEF OnArrival, b
    <2> QED
      BY <1>1, <1>2, <1>3, <1>5, <2>1
  <1>6. CASE scenario.mode = "duplicate"
    <2>1. OnArrival(r, cid) = c
      BY <1>6 DEF OnArrival, c
    <2> QED
      BY <1>1, <1>2, <1>3, <1>6, <2>1
  <1>7. CASE /\ scenario.mode # "duplicate"
             /\ ~ (scenario.mode = "steer" /\ r.newLink = NoCid)
             /\ ~ (scenario.mode = "steer" /\ r.newLink \notin {NoCid, cid} /\ ~ r.on)
    <2>1. OnArrival(r, cid) = r
      BY <1>7 DEF OnArrival
    <2> QED
      BY <1>1, <1>7, <2>1 DEF SameContents
  <1> QED
    BY <1>4, <1>5, <1>6, <1>7

\* What ReceiveData does: the packet leaves the wire, and is delivered or handled
\* by InOrderDelivery.
LEMMA ReceiveDataCases ==
    ASSUME TypeOK, NEW cid \in Links, ReceiveData(cid)
    PROVE  /\ wire[cid] # << >> /\ Head(wire[cid]) \in DataPackets
           /\ wire' = [wire EXCEPT ![cid] = Tail(@)]
           /\ m_useLsnReordering' \in BOOLEAN
           /\ UNCHANGED <<up, sent, m_gmaTxLocalSn, deliveryLink, steers>>
           /\ \E x \in Expirations : \E r \in Receivers :
                 /\ r = OnArrival(Receiver(x), cid)
                 /\ \/ r.on /\ InOrderDelivery(r, Head(wire[cid]), cid)
                    \/ /\ ~ r.on /\ Becomes(Delivered(r, Head(wire[cid])))
                       /\ UNCHANGED <<m_gmaRxLast, m_reorderingTimeoutEvent, discarded>>
  <1>1. wire[cid] # << >> /\ Head(wire[cid]).type = "data"
        /\ wire[cid] \in Seq(DataPackets \cup EndMarkers)
    BY DEF ReceiveData, TypeOK
  <1>2. Head(wire[cid]) \in DataPackets \cup EndMarkers
    BY <1>1, HeadTailProperties
  <1>3. Head(wire[cid]) \in DataPackets
    BY <1>1, <1>2 DEF EndMarkers
  <1>4. m_useLsnReordering' \in BOOLEAN
    BY DEF ReceiveData, TypeOK
  <1>5. PICK x \in Expirations :
           LET pkt == Head(wire[cid])
               r == OnArrival(Receiver(x), cid)
           IN  IF r.on THEN InOrderDelivery(r, pkt, cid)
               ELSE /\ Becomes([r EXCEPT !.expected = NextSn(pkt.sn), !.out = Append(@, pkt.id)])
                    /\ UNCHANGED <<m_gmaRxLast, m_reorderingTimeoutEvent, discarded>>
    BY DEF ReceiveData
  <1>6. Receiver(x) \in Receivers
    BY ExpirationsAreNumbers, ReceiverIsReceiver
  <1>7. PICK r \in Receivers : r = OnArrival(Receiver(x), cid)
    BY <1>6, OnArrivalFacts
  <1>8. [r EXCEPT !.expected = NextSn(Head(wire[cid]).sn), !.out = Append(@, Head(wire[cid]).id)]
          = Delivered(r, Head(wire[cid]))
    BY DEF Delivered, Receivers
  <1>9. \/ r.on /\ InOrderDelivery(r, Head(wire[cid]), cid)
        \/ /\ ~ r.on /\ Becomes(Delivered(r, Head(wire[cid])))
           /\ UNCHANGED <<m_gmaRxLast, m_reorderingTimeoutEvent, discarded>>
    BY <1>5, <1>7, <1>8
  <1> QED
    BY <1>1, <1>3, <1>4, <1>7, <1>9 DEF ReceiveData

\* What Becomes sets.
RxType ==
    /\ m_reorderingQueue \in [Links -> Seq(Items)]
    /\ m_gmaRxExpectedSn \in Sns
    /\ forwarded \in Seq(Nat)
    /\ m_enableReordering \in BOOLEAN
    /\ m_newLinkCid \in Links \cup {NoCid}
    /\ m_stopReorderEvent \in BOOLEAN

LEMMA BecomesType ==
    ASSUME NEW r \in Receivers, Becomes(r)
    PROVE  RxType'
  BY DEF Becomes, RxType, Receivers, Queues, Cids

LEMMA ReceiverType ==
    ASSUME TypeOK, NEW cid \in Links, ReceiveData(cid)
    PROVE  /\ RxType' /\ m_reorderingTimeoutEvent' \in BOOLEAN
           /\ m_gmaRxLast' \in [Links -> [sn : Sns, lsn : Lsns]]
  <1>1. PICK x \in Expirations : \E r \in Receivers :
           /\ r = OnArrival(Receiver(x), cid)
           /\ \/ r.on /\ InOrderDelivery(r, Head(wire[cid]), cid)
              \/ /\ ~ r.on /\ Becomes(Delivered(r, Head(wire[cid])))
                 /\ UNCHANGED <<m_gmaRxLast, m_reorderingTimeoutEvent, discarded>>
    BY ReceiveDataCases
  <1>2. PICK r \in Receivers :
           \/ r.on /\ InOrderDelivery(r, Head(wire[cid]), cid)
           \/ /\ ~ r.on /\ Becomes(Delivered(r, Head(wire[cid])))
              /\ UNCHANGED <<m_gmaRxLast, m_reorderingTimeoutEvent, discarded>>
    BY <1>1
  <1>3. PICK pkt \in DataPackets : pkt = Head(wire[cid])
    BY ReceiveDataCases
  <1>4. m_gmaRxLast \in [Links -> [sn : Sns, lsn : Lsns]] /\ m_reorderingTimeoutEvent \in BOOLEAN
    BY DEF TypeOK
  <1>5. CASE InOrderDelivery(r, pkt, cid)
    <2>1. Closed(Receivers)
      BY ReceiversAreMovable, MovableIsClosed
    <2>2. GapIsLost(pkt, cid) \in BOOLEAN
      BY DEF GapIsLost
    <2>3. Delivered(r, pkt) \in Receivers /\ Queued(r, pkt, cid, GapIsLost(pkt, cid)) \in Receivers
      BY <2>2, DeliveredIsDelivered, QueuedIsQueued DEF IsDelivered, IsQueued
    <2>4. Accepts(Receivers, r, pkt, cid, GapIsLost(pkt, cid))
      BY <2>3 DEF Accepts
    <2>5. \/ (\E s \in Receivers : Becomes(s)) /\ m_reorderingTimeoutEvent' \in BOOLEAN
          \/ Becomes(r) /\ UNCHANGED m_reorderingTimeoutEvent
      BY <1>5, <2>1, <2>4, ArrivalStays
    <2>6. RxType' /\ m_reorderingTimeoutEvent' \in BOOLEAN
      BY <1>4, <2>5, BecomesType
    <2>7. m_gmaRxLast' = [m_gmaRxLast EXCEPT ![cid] = [sn |-> pkt.sn, lsn |-> pkt.lsn]]
      BY <1>5 DEF InOrderDelivery
    <2>8. [sn |-> pkt.sn, lsn |-> pkt.lsn] \in [sn : Sns, lsn : Lsns]
      BY DEF DataPackets
    <2> QED
      BY <1>4, <2>6, <2>7, <2>8
  <1>6. CASE /\ Becomes(Delivered(r, pkt))
             /\ UNCHANGED <<m_gmaRxLast, m_reorderingTimeoutEvent, discarded>>
    <2>1. Delivered(r, pkt) \in Receivers
      BY DeliveredIsDelivered DEF IsDelivered
    <2> QED
      BY <1>4, <1>6, <2>1, BecomesType
  <1> QED
    BY <1>2, <1>3, <1>5, <1>6

LEMMA StopType ==
    ASSUME NEW r \in Receivers
    PROVE  StopReordering(r) \in Receivers /\ ReleaseInOrderPackets(r) \in Receivers
  <1>1. Closed(Receivers)
    BY ReceiversAreMovable, MovableIsClosed
  <1> QED
    BY <1>1, ClosedKeeps, StopReorderingEmpties

\* The receiver with which ReceiveEndMarker ends.
LEMMA EndMarkerCases ==
    ASSUME TypeOK, NEW cid \in Links, ReceiveEndMarker(cid)
    PROVE  \E s \in Receivers :
              /\ Becomes(s)
              /\ \/ m_newLinkCid = NoCid /\ s = Receiver(0)
                 \/ m_newLinkCid = cid /\ s = [Receiver(0) EXCEPT !.newLink = NoCid]
                 \/ m_newLinkCid \notin {NoCid, cid} /\ s = StopReordering(Receiver(0))
  <1>1. PICK r \in Receivers : r = Receiver(0)
    BY ReceiverIsReceiver
  <1>2. StopReordering(r) \in Receivers
    BY StopType
  <1>3. [r EXCEPT !.newLink = NoCid] \in Receivers
    BY DEF Receivers, Cids
  <1>4. Becomes(CASE m_newLinkCid = NoCid -> r
                  [] m_newLinkCid = cid   -> [r EXCEPT !.newLink = NoCid]
                  [] OTHER                -> StopReordering(r))
    BY <1>1 DEF ReceiveEndMarker
  <1>5. cid # NoCid
    BY LinksAreNumbers
  <1>6. CASE m_newLinkCid = NoCid
    <2>1. Becomes(r)
      BY <1>4, <1>5, <1>6
    <2> QED
      BY <1>1, <1>6, <2>1
  <1>7. CASE m_newLinkCid = cid
    <2>1. Becomes([r EXCEPT !.newLink = NoCid])
      BY <1>4, <1>5, <1>7
    <2> QED
      BY <1>1, <1>3, <1>7, <2>1
  <1>8. CASE m_newLinkCid \notin {NoCid, cid}
    <2>1. Becomes(StopReordering(r))
      BY <1>4, <1>8
    <2> QED
      BY <1>1, <1>2, <1>8, <2>1
  <1> QED
    BY <1>6, <1>7, <1>8

\* The receivers with which the two timers end.
LEMMA TimeoutCases ==
    ASSUME TypeOK
    PROVE  /\ \A x \in Expirations : ReorderingTimeout(x) =>
                 \E s \in Receivers :
                    /\ s = ReleaseInOrderPackets(Receiver(x)) /\ Becomes(s)
                    /\ m_reorderingTimeoutEvent' = (~ IsEmpty(s))
           /\ StopReorderTimeout =>
                 \E r, s \in Receivers :
                    /\ r = [Receiver(0) EXCEPT !.stop = FALSE]
                    /\ s = StopReordering(r) /\ Becomes(s)
  <1>1. ASSUME NEW x \in Expirations, ReorderingTimeout(x)
        PROVE  \E s \in Receivers :
                  /\ s = ReleaseInOrderPackets(Receiver(x)) /\ Becomes(s)
                  /\ m_reorderingTimeoutEvent' = (~ IsEmpty(s))
    <2>1. PICK r \in Receivers : r = Receiver(x)
      BY ExpirationsAreNumbers, ReceiverIsReceiver
    <2>2. PICK s \in Receivers : s = ReleaseInOrderPackets(r)
      BY StopType
    <2>3. BecomesWithTimer(s)
      BY <1>1, <2>1, <2>2 DEF ReorderingTimeout
    <2>4. (TotalQueueSize(s.queue) > 0) = (~ IsEmpty(s))
      BY TotalOfReceiver
    <2>5. m_reorderingTimeoutEvent' = (~ IsEmpty(s))
      BY <2>3, <2>4, Zenon DEF BecomesWithTimer
    <2> QED
      BY <2>1, <2>2, <2>3, <2>5, Zenon DEF BecomesWithTimer
  <1>2. ASSUME StopReorderTimeout
        PROVE  \E r, s \in Receivers :
                  /\ r = [Receiver(0) EXCEPT !.stop = FALSE]
                  /\ s = StopReordering(r) /\ Becomes(s)
    <2>1. Receiver(0) \in Receivers
      BY ReceiverIsReceiver
    <2>2. PICK r \in Receivers : r = [Receiver(0) EXCEPT !.stop = FALSE]
      BY <2>1 DEF Receivers
    <2>3. StopReordering(r) \in Receivers
      BY StopType
    <2>4. Becomes(StopReordering(r))
      BY <1>2, <2>2 DEF StopReorderTimeout
    <2> QED
      BY <2>2, <2>3, <2>4
  <1> QED
    BY <1>1, <1>2

LEMMA InitType == Init => TypeOK
  <1> SUFFICES ASSUME Init PROVE TypeOK
    OBVIOUS
  <1>1. /\ scenario \in Scenarios
        /\ DefaultCid \in scenario.links /\ scenario.links \subseteq Links
        /\ scenario.firstSn \in 0 .. MAX_GMA_SN /\ scenario.maxPackets \in Nat
    BY DefaultCidIsLink DEF Init
  <1>2. MAX_GMA_SN \in Nat /\ MAX_GMA_LSN \in Nat /\ UseLsnReordering \in BOOLEAN
    BY ReorderAssumption
  <1>3. m_reorderingQueue \in [Links -> Seq(Items)] /\ wire \in [Links -> Seq(DataPackets \cup EndMarkers)]
    BY EmptySeq DEF Init
  <1>4. m_gmaRxExpectedSn \in Sns /\ sent \in 0 .. scenario.maxPackets
    BY <1>1 DEF Init, Sns
  <1>5. \A n \in Nat : n % (MAX_GMA_LSN + 1) \in Lsns
    BY <1>2 DEF Lsns
  <1>6. m_gmaRxLast \in [Links -> [sn : Sns, lsn : Lsns]]
    <2>1. MAX_GMA_SN \in Sns /\ MAX_GMA_LSN \in Lsns
      BY <1>2 DEF Sns, Lsns
    <2>2. scenario.firstSn > 0 => /\ scenario.firstSn - 1 \in Sns
                                  /\ scenario.firstSn - 1 \in Nat
      BY <1>1, <1>2 DEF Sns
    <2>3. scenario.firstSn > 0 => (scenario.firstSn - 1) % (MAX_GMA_LSN + 1) \in Lsns
      BY <1>5, <2>2
    <2> DEFINE old == [sn |-> scenario.firstSn - 1,
                       lsn |-> (scenario.firstSn - 1) % (MAX_GMA_LSN + 1)]
    <2> DEFINE none == [sn |-> MAX_GMA_SN, lsn |-> MAX_GMA_LSN]
    <2>4. none \in [sn : Sns, lsn : Lsns]
          /\ (scenario.firstSn > 0 => old \in [sn : Sns, lsn : Lsns])
      BY <2>1, <2>2, <2>3
    <2>5. m_gmaRxLast = [cid \in Links |-> IF scenario.firstSn > 0 /\ cid = DefaultCid
                                           THEN old ELSE none]
      BY DEF Init
    <2> HIDE DEF old, none
    <2> QED
      BY <2>4, <2>5
  <1>7. m_gmaTxLocalSn \in [Links -> Lsns]
    <2>1. scenario.firstSn \in Nat /\ 0 \in Lsns
      BY <1>1, <1>2 DEF Lsns
    <2>2. scenario.firstSn % (MAX_GMA_LSN + 1) \in Lsns
      BY <1>5, <2>1
    <2> DEFINE l == scenario.firstSn % (MAX_GMA_LSN + 1)
    <2>3. m_gmaTxLocalSn = [cid \in Links |-> IF cid = DefaultCid THEN l ELSE 0]
      BY DEF Init
    <2> HIDE DEF l
    <2> QED
      BY <2>1, <2>2, <2>3 DEF l
  <1>8. m_enableReordering \in BOOLEAN /\ m_useLsnReordering \in BOOLEAN
    BY <1>2, Zenon DEF Init
  <1>9. m_newLinkCid \in Links \cup {NoCid}
    BY <1>1 DEF Init
  <1>10. forwarded \in Seq(Nat)
    BY EmptySeq DEF Init
  <1> QED
    BY <1>1, <1>3, <1>4, <1>6, <1>7, <1>8, <1>9, <1>10 DEF Init, TypeOK

LEMMA TypeNext == ASSUME TypeOK, [Next]_vars PROVE TypeOK'
  <1>1. CASE UNCHANGED vars
    BY <1>1 DEF TypeOK, vars, rxVars, txVars
  <1>2. CASE Next
    <2> USE <1>2
    <2>0. scenario' = scenario /\ scenario \in Scenarios
      BY DEF Next, TypeOK
    <2>1. /\ scenario.links \subseteq Links /\ scenario.maxPackets \in Nat
          /\ scenario.firstSn \in Nat /\ MAX_GMA_SN \in Nat /\ MAX_GMA_LSN \in Nat
      BY DefaultCidIsLink, ReorderAssumption, <2>0
    <2>2. ASSUME NEW cids \in SUBSET Links, Transmit(cids) PROVE TypeOK'
      <3> DEFINE sn == (scenario.firstSn + sent) % (MAX_GMA_SN + 1)
      <3> DEFINE pkt(cid) == [type |-> "data", sn |-> sn, lsn |-> m_gmaTxLocalSn[cid], id |-> sent]
      <3>1. /\ sent < scenario.maxPackets /\ sent' = sent + 1
            /\ wire' = [cid \in Links |-> IF cid \in cids THEN Append(wire[cid], pkt(cid))
                                                          ELSE wire[cid]]
            /\ m_gmaTxLocalSn' = [cid \in Links |->
                  IF cid \in cids THEN (m_gmaTxLocalSn[cid] + 1) % (MAX_GMA_LSN + 1)
                                  ELSE m_gmaTxLocalSn[cid]]
            /\ UNCHANGED <<rxVars, deliveryLink, steers, discarded>>
        BY <2>2 DEF Transmit
      <3>2. sent \in Nat /\ sent' \in 0 .. scenario.maxPackets
        BY <2>1, <3>1 DEF TypeOK
      <3>3. sn \in Sns
        <4>1. scenario.firstSn + sent \in Nat
          BY <2>1, <3>2
        <4> QED
          BY <2>1, <4>1 DEF Sns
      <3> HIDE DEF sn
      <3>4. \A cid \in Links : pkt(cid) \in DataPackets
        BY <3>2, <3>3 DEF DataPackets, TypeOK
      <3> HIDE DEF pkt
      <3>5. \A cid \in Links : Append(wire[cid], pkt(cid)) \in Seq(DataPackets \cup EndMarkers)
        BY <3>4, AppendProperties DEF TypeOK
      <3>6. wire' \in [Links -> Seq(DataPackets \cup EndMarkers)]
        BY <3>1, <3>5 DEF TypeOK
      <3>7. \A n \in Lsns : (n + 1) % (MAX_GMA_LSN + 1) \in Lsns
        BY <2>1 DEF Lsns
      <3>8. m_gmaTxLocalSn' \in [Links -> Lsns]
        BY <3>1, <3>7 DEF TypeOK
      <3> QED
        BY <2>0, <3>1, <3>2, <3>6, <3>8 DEF TypeOK, rxVars
    <2>3. \A cid \in Links : wire[cid] # << >> => Tail(wire[cid]) \in Seq(DataPackets \cup EndMarkers)
      BY HeadTailProperties DEF TypeOK
    <2>4. ASSUME NEW cid \in scenario.links, Steer(cid) PROVE TypeOK'
      <3>1. deliveryLink \in Links /\ [type |-> "end"] \in DataPackets \cup EndMarkers
        BY <2>1 DEF TypeOK, EndMarkers
      <3>2. Append(wire[deliveryLink], [type |-> "end"]) \in Seq(DataPackets \cup EndMarkers)
        BY <3>1, AppendProperties DEF TypeOK
      <3>3. wire' \in [Links -> Seq(DataPackets \cup EndMarkers)]
        BY <2>4, <3>2 DEF Steer, TypeOK
      <3>4. steers' \in Nat
        BY <2>4 DEF Steer, TypeOK
      <3> QED
        BY <2>0, <2>4, <3>3, <3>4 DEF TypeOK, Steer, rxVars
    <2>5. ASSUME NEW cid \in scenario.links, Lose(cid) PROVE TypeOK'
      <3>1. wire' \in [Links -> Seq(DataPackets \cup EndMarkers)]
        BY <2>1, <2>3, <2>5 DEF Lose, TypeOK
      <3> QED
        BY <2>0, <2>5, <3>1 DEF TypeOK, Lose, rxVars
    <2>6. ASSUME NEW cid \in scenario.links, ReceiveData(cid) PROVE TypeOK'
      <3>1. cid \in Links
        BY <2>1
      <3>2. /\ RxType' /\ m_reorderingTimeoutEvent' \in BOOLEAN
            /\ m_gmaRxLast' \in [Links -> [sn : Sns, lsn : Lsns]]
        BY <2>6, <3>1, ReceiverType
      <3>3. wire' \in [Links -> Seq(DataPackets \cup EndMarkers)]
        BY <2>3, <2>6, <3>1 DEF ReceiveData, TypeOK
      <3>4. m_useLsnReordering' \in BOOLEAN
        BY <2>6 DEF ReceiveData, TypeOK
      <3>5. UNCHANGED <<up, sent, m_gmaTxLocalSn, deliveryLink, steers>>
        BY <2>6 DEF ReceiveData
      <3> QED
        BY <2>0, <3>2, <3>3, <3>4, <3>5 DEF TypeOK, RxType
    <2>7. ASSUME NEW cid \in scenario.links, ReceiveEndMarker(cid) PROVE TypeOK'
      <3>1. cid \in Links
        BY <2>1
      <3>2. RxType'
        BY <2>7, <3>1, EndMarkerCases, BecomesType
      <3>3. wire' \in [Links -> Seq(DataPackets \cup EndMarkers)]
        BY <2>3, <2>7, <3>1 DEF ReceiveEndMarker, TypeOK
      <3>4. UNCHANGED <<m_gmaRxLast, m_useLsnReordering, m_reorderingTimeoutEvent, up,
                        sent, m_gmaTxLocalSn, deliveryLink, steers, discarded>>
        BY <2>7 DEF ReceiveEndMarker
      <3> QED
        BY <2>0, <3>2, <3>3, <3>4 DEF TypeOK, RxType
    <2>8. ASSUME NEW cid \in scenario.links, LinkChanges(cid) PROVE TypeOK'
      <3>1. up' \subseteq Links
        BY <2>1, <2>8 DEF LinkChanges, TypeOK
      <3> QED
        BY <2>0, <2>8, <3>1 DEF TypeOK, LinkChanges, txVars
    <2>9. ASSUME NEW x \in Expirations, ReorderingTimeout(x) PROVE TypeOK'
      <3>1. RxType' /\ m_reorderingTimeoutEvent' \in BOOLEAN
        BY <2>9, TimeoutCases, BecomesType, Zenon
      <3> QED
        BY <2>0, <2>9, <3>1 DEF TypeOK, RxType, ReorderingTimeout, txVars
    <2>10. ASSUME StopReorderTimeout PROVE TypeOK'
      <3>1. RxType'
        BY <2>10, TimeoutCases, BecomesType
      <3> QED
        BY <2>0, <2>10, <3>1 DEF TypeOK, RxType, StopReorderTimeout, txVars
    <2>11. ASSUME SendTsu PROVE TypeOK'
      BY <2>0, <2>11 DEF TypeOK, SendTsu, txVars
    <2> QED
      BY <2>2, <2>4, <2>5, <2>6, <2>7, <2>8, <2>9, <2>10, <2>11 DEF Next, Step
  <1> QED
    BY <1>1, <1>2

\* The queues, the numbers and the flags of the receiver always have their types,
\* through every release loop and every action (Receive, InOrderDelivery,
\* ReleaseInOrderPackets, StopReordering).
THEOREM TypeCorrect == Spec => []TypeOK
  <1>1. Init => TypeOK
    BY InitType
  <1>2. TypeOK /\ [Next]_vars => TypeOK'
    BY TypeNext
  <1> QED
    BY <1>1, <1>2, PTL DEF Spec

-----------------------------------------------------------------------------
(***************************************************************************)
(* What is queued has a timer.                                             *)
(***************************************************************************)
QueuesEmpty == \A cid \in Links : m_reorderingQueue[cid] = << >>

\* The inductive invariant: without reordering, and without the timer, nothing is queued.
TimerInv ==
    /\ m_enableReordering \/ QueuesEmpty
    /\ m_reorderingTimeoutEvent \/ QueuesEmpty

Orderly == {s \in Receivers : s.on \/ IsEmpty(s)}

LEMMA OrderlyIsClosed == Closed(Orderly)
  <1> SUFFICES ASSUME NEW r \in Orderly
               PROVE  /\ ReleaseMinStep(r) \in Orderly
                      /\ ReleaseInOrderStep(r) \in Orderly
                      /\ StopReordering(r) \in Orderly
    BY DEF Closed
  <1>0. r \in Receivers /\ (r.on \/ IsEmpty(r))
    BY DEF Orderly
  <1>1. StopReordering(r) \in Orderly
    BY <1>0, StopReorderingEmpties DEF Orderly
  <1>2. CASE IsEmpty(r)
    <2>1. MinCid(r.queue) = NoCid
      BY <1>0, <1>2, MinCidCases
    <2>2. ReleaseMinStep(r) = r /\ ReleaseInOrderStep(r) = r
      BY <2>1 DEF ReleaseMinStep, ReleaseInOrderStep
    <2> QED
      BY <1>1, <2>2
  <1>3. CASE r.on
    <2> DEFINE cid == MinCid(r.queue)
    <2>1. ASSUME cid \in Links, r.queue[cid] # << >>
          PROVE  /\ Pop(r, cid) \in Receivers /\ Pop(r, cid).on = r.on
                 /\ PopAndExpectNext(r, cid) \in Receivers /\ PopAndExpectNext(r, cid).on = r.on
                 /\ PopAndExpectNext(r, cid).expired = r.expired
      <3>1. PICK c \in Links : c = cid
        BY <2>1
      <3> HIDE DEF cid
      <3>2. IsPop(Pop(r, c), r, c) /\ IsPop(PopAndExpectNext(r, c), r, c)
        BY <1>0, <2>1, <3>1, PopPops
      <3> QED
        BY <3>1, <3>2 DEF IsPop, SameFlags
    <2>2. ReleaseMinStep(r) \in Orderly
      BY <1>0, <1>3, <2>1, MinStepCases DEF Orderly
    <2>3. \A t \in Receivers : StopReordering(t) \in Orderly
      BY StopReorderingEmpties DEF Orderly
    <2>4. \A t \in Receivers : (t.on /\ t.expired > 0) => [t EXCEPT !.expired = @ - 1] \in Orderly
      BY LessExpired DEF Orderly
    <2>5. ReleaseInOrderStep(r) \in Orderly
      <3>1. ReleaseInOrderStep(r) = r => ReleaseInOrderStep(r) \in Orderly
        OBVIOUS
      <3> HIDE DEF cid
      <3>2. (cid \in Links /\ r.queue[cid] # << >>) =>
               /\ Pop(r, cid) \in Orderly
               /\ PopAndExpectNext(r, cid) \in Orderly
               /\ StopReordering(PopAndExpectNext(r, cid)) \in Orderly
               /\ r.expired > 0 => [PopAndExpectNext(r, cid) EXCEPT !.expired = @ - 1] \in Orderly
        BY <1>3, <2>1, <2>3, <2>4 DEF Orderly
      <3> QED
        BY <1>0, <3>1, <3>2, InOrderStepCases DEF cid
    <2> QED
      BY <1>1, <2>2, <2>5
  <1> QED
    BY <1>0, <1>2, <1>3

LEMMA InitTimer == Init => TimerInv
  BY DEF Init, TimerInv, QueuesEmpty

LEMMA TimerReceive ==
    ASSUME TypeOK, TimerInv, NEW cid \in Links, ReceiveData(cid)
    PROVE  TimerInv'
  <1>0. PICK pkt \in DataPackets : pkt = Head(wire[cid])
    BY ReceiveDataCases
  <1>1. PICK x \in Expirations : \E r \in Receivers :
           /\ r = OnArrival(Receiver(x), cid)
           /\ \/ r.on /\ InOrderDelivery(r, pkt, cid)
              \/ /\ ~ r.on /\ Becomes(Delivered(r, pkt))
                 /\ UNCHANGED <<m_gmaRxLast, m_reorderingTimeoutEvent, discarded>>
    BY <1>0, ReceiveDataCases
  <1>2. PICK r \in Receivers :
           /\ r = OnArrival(Receiver(x), cid)
           /\ \/ r.on /\ InOrderDelivery(r, pkt, cid)
              \/ /\ ~ r.on /\ Becomes(Delivered(r, pkt))
                 /\ UNCHANGED <<m_gmaRxLast, m_reorderingTimeoutEvent, discarded>>
    BY <1>1
  <1>3. PICK p \in Receivers : /\ p = Receiver(x) /\ p.queue = m_reorderingQueue
                               /\ p.on = m_enableReordering
    BY ExpirationsAreNumbers, ReceiverIsReceiver
  <1>4. r.queue = m_reorderingQueue /\ (m_enableReordering => r.on)
    BY <1>2, <1>3, OnArrivalFacts DEF SameContents
  <1>5. CASE r.on /\ InOrderDelivery(r, pkt, cid)
    <2>1. Delivered(r, pkt) \in Receivers /\ Delivered(r, pkt).on = r.on
      BY DeliveredIsDelivered DEF IsDelivered, SameFlags
    <2>2. PICK lost \in BOOLEAN : lost = GapIsLost(pkt, cid)
      BY DEF GapIsLost
    <2>3. Queued(r, pkt, cid, lost) \in Receivers /\ Queued(r, pkt, cid, lost).on = r.on
      <3>1. IsQueued(Queued(r, pkt, cid, lost), r, pkt, cid, lost)
        BY QueuedIsQueued
      <3> QED
        BY <3>1 DEF IsQueued
    <2>4. Accepts(Orderly, r, pkt, cid, lost)
      BY <1>5, <2>1, <2>3 DEF Accepts, Orderly
    <2>5. Orderly \in SUBSET Receivers
      BY DEF Orderly
    <2>6. \/ \E s \in Orderly : Becomes(s) /\ (~ m_reorderingTimeoutEvent' => IsEmpty(s))
          \/ Becomes(r) /\ UNCHANGED m_reorderingTimeoutEvent
      BY <1>5, <2>2, <2>4, <2>5, OrderlyIsClosed, ArrivalStays
    <2>7. CASE \E s \in Orderly : Becomes(s) /\ (~ m_reorderingTimeoutEvent' => IsEmpty(s))
      BY <2>7 DEF Becomes, Orderly, IsEmpty, TimerInv, QueuesEmpty
    <2>8. CASE Becomes(r) /\ UNCHANGED m_reorderingTimeoutEvent
      BY <1>4, <1>5, <2>8 DEF Becomes, TimerInv, QueuesEmpty
    <2> QED
      BY <2>6, <2>7, <2>8
  <1>6. CASE /\ ~ r.on /\ Becomes(Delivered(r, pkt))
             /\ UNCHANGED <<m_gmaRxLast, m_reorderingTimeoutEvent, discarded>>
    <2>1. Delivered(r, pkt).queue = r.queue
      BY DeliveredIsDelivered DEF IsDelivered
    <2>2. QueuesEmpty
      BY <1>4, <1>6 DEF TimerInv
    <2> QED
      BY <1>4, <1>6, <2>1, <2>2 DEF Becomes, TimerInv, QueuesEmpty
  <1> QED
    BY <1>2, <1>5, <1>6

LEMMA TimerNext ==
    ASSUME TypeOK, TimerInv, [Next]_vars
    PROVE  TimerInv'
  <1> USE DEF TimerInv, QueuesEmpty
  <1>1. CASE UNCHANGED vars
    BY <1>1 DEF vars, rxVars
  <1>2. CASE Next
    <2> USE <1>2
    <2>1. scenario.links \subseteq Links
      BY DefaultCidIsLink DEF TypeOK
    <2>2. ASSUME NEW cids \in SUBSET Links, Transmit(cids) PROVE TimerInv'
      BY <2>2 DEF Transmit, rxVars
    <2>3. ASSUME NEW cid \in scenario.links, Steer(cid) \/ Lose(cid) PROVE TimerInv'
      BY <2>3 DEF Steer, Lose, rxVars
    <2>4. ASSUME NEW cid \in scenario.links, ReceiveData(cid) PROVE TimerInv'
      BY <2>1, <2>4, TimerReceive
    <2>5. PICK r \in Receivers : /\ r = Receiver(0) /\ r.queue = m_reorderingQueue
                                 /\ r.on = m_enableReordering
      BY ReceiverIsReceiver
    <2>6. ASSUME NEW cid \in scenario.links, ReceiveEndMarker(cid) PROVE TimerInv'
      <3>1. PICK s \in Receivers :
               /\ Becomes(s)
               /\ s = r \/ s = [r EXCEPT !.newLink = NoCid] \/ s = StopReordering(r)
        BY <2>1, <2>5, <2>6, EndMarkerCases
      <3>2. (s.queue = r.queue /\ s.on = r.on) \/ IsEmpty(s)
        BY <3>1, StopReorderingEmpties DEF Receivers
      <3>3. UNCHANGED m_reorderingTimeoutEvent
        BY <2>6 DEF ReceiveEndMarker
      <3> QED
        BY <2>5, <3>1, <3>2, <3>3 DEF Becomes, IsEmpty
    <2>7. ASSUME NEW cid \in scenario.links, LinkChanges(cid) PROVE TimerInv'
      BY <2>7 DEF LinkChanges
    <2>8. ASSUME NEW x \in Expirations, ReorderingTimeout(x) PROVE TimerInv'
      <3>1. PICK s \in Receivers : /\ s = ReleaseInOrderPackets(Receiver(x)) /\ Becomes(s)
                                   /\ m_reorderingTimeoutEvent' = (~ IsEmpty(s))
        BY <2>8, TimeoutCases
      <3>2. /\ Receiver(x) \in Receivers /\ Receiver(x).queue = m_reorderingQueue
            /\ Receiver(x).on = m_enableReordering
        BY ExpirationsAreNumbers, ReceiverIsReceiver
      <3>3. Receiver(x) \in Orderly /\ Orderly \in SUBSET Receivers
        BY <3>2 DEF Orderly, IsEmpty
      <3>4. s \in Orderly
        BY <3>1, <3>3, OrderlyIsClosed, ClosedKeeps
      <3>5. m_reorderingTimeoutEvent' \/ IsEmpty(s)
        BY <3>1, Zenon
      <3>6. Becomes(s)
        BY <3>1
      <3> QED
        BY <3>4, <3>5, <3>6 DEF Becomes, IsEmpty, Orderly
    <2>9. ASSUME StopReorderTimeout PROVE TimerInv'
      <3>1. PICK q \in Receivers, s \in Receivers : s = StopReordering(q) /\ Becomes(s)
        BY <2>9, TimeoutCases
      <3>2. IsEmpty(s)
        BY <3>1, StopReorderingEmpties
      <3> QED
        BY <3>1, <3>2 DEF Becomes, IsEmpty
    <2>10. ASSUME SendTsu PROVE TimerInv'
      BY <2>10 DEF SendTsu
    <2> QED
      BY <2>2, <2>3, <2>4, <2>6, <2>7, <2>8, <2>9, <2>10 DEF Next, Step
  <1> QED
    BY <1>1, <1>2

LEMMA TimerInvariant == Spec => []TimerInv
  <1>1. Init => TimerInv
    BY InitTimer
  <1>2. TypeOK /\ TimerInv /\ [Next]_vars => TimerInv'
    BY TimerNext
  <1> QED
    BY <1>1, <1>2, TypeCorrect, PTL DEF Spec

\* Whatever arrives, is lost, expires or fails: a packet in a queue of the receiver
\* is there while reordering is on and while m_reorderingTimeoutEvent, which will
\* release it, is running.  StopReordering, which switches the reordering off,
\* leaves nothing behind (ReleaseAllPackets).
THEOREM QueuedHaveTimer == Spec => []QueuedPacketsHaveTimer
  <1>1. TypeOK /\ TimerInv => QueuedPacketsHaveTimer
    <2> SUFFICES ASSUME TypeOK, TimerInv PROVE QueuedPacketsHaveTimer
      OBVIOUS
    <2>1. m_reorderingQueue \in Queues
      BY DEF TypeOK, Queues
    <2>2. TotalQueueSize(m_reorderingQueue) > 0 => ~ QueuesEmpty
      BY <2>1, TotalIsNumber DEF QueuesEmpty
    <2> QED
      BY <2>2 DEF TimerInv, QueuedPacketsHaveTimer
  <1> QED
    BY <1>1, TypeCorrect, TimerInvariant, PTL

-----------------------------------------------------------------------------
(***************************************************************************)
(* No packet is forwarded twice.                                           *)
(***************************************************************************)

\* No packet is twice in the queues and in what was forwarded.
Distinct(q, o) ==
    /\ \A c \in Links : \A i \in 1 .. Len(q[c]) : \A d \in Links : \A j \in 1 .. Len(q[d]) :
          q[c][i].id = q[d][j].id => c = d /\ i = j
    /\ \A c \in Links : \A i \in 1 .. Len(q[c]) : \A k \in 1 .. Len(o) : q[c][i].id # o[k]
    /\ \A k \in 1 .. Len(o) : \A l \in 1 .. Len(o) : o[k] = o[l] => k = l

\* What is queued and what was forwarded is in S.
Held(q, o, S) ==
    /\ \A c \in Links : \A i \in 1 .. Len(q[c]) : q[c][i].id \in S
    /\ \A k \in 1 .. Len(o) : o[k] \in S

Once(S) == {s \in Receivers : Distinct(s.queue, s.out) /\ Held(s.queue, s.out, S)}

LEMMA OncePop ==
    ASSUME NEW S, NEW r \in Once(S), NEW s \in Receivers, NEW cid \in Links,
           r.queue[cid] # << >>, IsPop(s, r, cid)
    PROVE  s \in Once(S)
  <1>0. r \in Receivers /\ Distinct(r.queue, r.out) /\ Held(r.queue, r.out, S)
    BY DEF Once
  <1>1. /\ Len(r.out) \in Nat /\ Len(s.out) = Len(r.out) + 1
        /\ \A k \in 1 .. Len(r.out) : s.out[k] = r.out[k]
        /\ s.out[Len(r.out) + 1] = r.queue[cid][1].id
        /\ 1 \in 1 .. Len(r.queue[cid])
    BY <1>0, QueueTypes DEF IsPop
  <1>2. \A c \in Links : \A i \in 1 .. Len(s.queue[c]) :
           /\ c # cid => i \in 1 .. Len(r.queue[c]) /\ s.queue[c][i] = r.queue[c][i]
           /\ c = cid => i + 1 \in 1 .. Len(r.queue[c]) /\ s.queue[c][i] = r.queue[c][i + 1]
    BY <1>0, QueueTypes DEF IsPop
  <1>3. \A k \in 1 .. Len(s.out) : \/ k \in 1 .. Len(r.out) /\ s.out[k] = r.out[k]
                                   \/ k = Len(r.out) + 1 /\ s.out[k] = r.queue[cid][1].id
    BY <1>1
  <1>4. Held(s.queue, s.out, S)
    <2>1. ASSUME NEW c \in Links, NEW i \in 1 .. Len(s.queue[c])
          PROVE  s.queue[c][i].id \in S
      BY <1>0, <1>2, <2>1 DEF Held
    <2>2. ASSUME NEW k \in 1 .. Len(s.out) PROVE s.out[k] \in S
      BY <1>0, <1>1, <1>3 DEF Held
    <2> QED
      BY <2>1, <2>2 DEF Held
  <1>5. Distinct(s.queue, s.out)
    <2>1. ASSUME NEW c \in Links, NEW i \in 1 .. Len(s.queue[c]),
                 NEW d \in Links, NEW j \in 1 .. Len(s.queue[d]),
                 s.queue[c][i].id = s.queue[d][j].id
          PROVE  c = d /\ i = j
      <3>1. PICK a \in 1 .. Len(r.queue[c]) : /\ s.queue[c][i] = r.queue[c][a]
                                              /\ a = IF c = cid THEN i + 1 ELSE i
        BY <1>2
      <3>2. PICK b \in 1 .. Len(r.queue[d]) : /\ s.queue[d][j] = r.queue[d][b]
                                              /\ b = IF d = cid THEN j + 1 ELSE j
        BY <1>2
      <3>3. c = d /\ a = b
        BY <1>0, <2>1, <3>1, <3>2 DEF Distinct
      <3> QED
        BY <3>1, <3>2, <3>3
    <2>2. ASSUME NEW c \in Links, NEW i \in 1 .. Len(s.queue[c]), NEW k \in 1 .. Len(s.out)
          PROVE  s.queue[c][i].id # s.out[k]
      <3>1. PICK a \in 1 .. Len(r.queue[c]) : /\ s.queue[c][i] = r.queue[c][a]
                                              /\ a = IF c = cid THEN i + 1 ELSE i
        BY <1>2
      <3>2. CASE k \in 1 .. Len(r.out) /\ s.out[k] = r.out[k]
        BY <1>0, <3>1, <3>2 DEF Distinct
      <3>3. CASE s.out[k] = r.queue[cid][1].id
        <4>1. r.queue[c][a].id = r.queue[cid][1].id => c = cid /\ a = 1
          BY <1>0, <1>1, <3>1 DEF Distinct
        <4> QED
          BY <3>1, <3>3, <4>1
      <3> QED
        BY <1>3, <3>2, <3>3
    <2>3. ASSUME NEW k \in 1 .. Len(s.out), NEW l \in 1 .. Len(s.out), s.out[k] = s.out[l]
          PROVE  k = l
      <3>1. \A n \in 1 .. Len(r.out) : r.queue[cid][1].id # r.out[n]
        BY <1>0, <1>1 DEF Distinct
      <3>2. \A m, n \in 1 .. Len(r.out) : r.out[m] = r.out[n] => m = n
        BY <1>0 DEF Distinct
      <3> QED
        BY <1>3, <2>3, <3>1, <3>2
    <2> QED
      BY <2>1, <2>2, <2>3 DEF Distinct
  <1> QED
    BY <1>4, <1>5 DEF Once

LEMMA OnceIsClosed ==
    ASSUME NEW S
    PROVE  Once(S) \in SUBSET Receivers /\ Movable(Once(S)) /\ Closed(Once(S))
  <1>1. Once(S) \in SUBSET Receivers
    BY DEF Once
  <1>2. Movable(Once(S))
    <2>1. \A s \in Once(S) : \A t \in Receivers : SameContents(t, s) => t \in Once(S)
      BY DEF Once, SameContents
    <2> QED
      BY <2>1, OncePop DEF Movable
  <1> QED
    BY <1>1, <1>2, MovableIsClosed

LEMMA OnceDelivered ==
    ASSUME NEW S, NEW T, S \subseteq T, NEW r \in Once(S), NEW pkt \in DataPackets,
           pkt.id \in T \ S
    PROVE  Delivered(r, pkt) \in Once(T)
  <1>0. r \in Receivers /\ Distinct(r.queue, r.out) /\ Held(r.queue, r.out, S)
    BY DEF Once
  <1>1. PICK s \in Receivers : s = Delivered(r, pkt) /\ IsDelivered(s, r, pkt)
    BY <1>0, DeliveredIsDelivered DEF IsDelivered
  <1>2. /\ s.queue = r.queue /\ Len(r.out) \in Nat /\ Len(s.out) = Len(r.out) + 1
        /\ \A k \in 1 .. Len(r.out) : s.out[k] = r.out[k]
        /\ s.out[Len(r.out) + 1] = pkt.id
    BY <1>0, <1>1, LenProperties DEF IsDelivered, Receivers
  <1>3. \A k \in 1 .. Len(s.out) : \/ k \in 1 .. Len(r.out) /\ s.out[k] = r.out[k]
                                   \/ k = Len(r.out) + 1 /\ s.out[k] = pkt.id
    BY <1>2
  <1>4. Held(s.queue, s.out, T)
    BY <1>0, <1>2, <1>3 DEF Held
  <1>5. \A k \in 1 .. Len(r.out) : r.out[k] # pkt.id
    BY <1>0 DEF Held
  <1>6. \A c \in Links : \A i \in 1 .. Len(r.queue[c]) : r.queue[c][i].id # pkt.id
    BY <1>0 DEF Held
  <1>7. \A k \in 1 .. Len(s.out) : \A l \in 1 .. Len(s.out) : s.out[k] = s.out[l] => k = l
    <2>1. \A m, n \in 1 .. Len(r.out) : r.out[m] = r.out[n] => m = n
      BY <1>0 DEF Distinct
    <2> QED
      BY <1>3, <1>5, <2>1
  <1>8. Distinct(s.queue, s.out)
    BY <1>0, <1>2, <1>3, <1>6, <1>7 DEF Distinct
  <1> QED
    BY <1>1, <1>4, <1>8 DEF Once

LEMMA OnceQueued ==
    ASSUME NEW S, NEW T, S \subseteq T, NEW r \in Once(S), NEW pkt \in DataPackets,
           pkt.id \in T \ S, NEW cid \in Links, NEW lost \in BOOLEAN
    PROVE  Queued(r, pkt, cid, lost) \in Once(T)
  <1>0. r \in Receivers /\ Distinct(r.queue, r.out) /\ Held(r.queue, r.out, S)
    BY DEF Once
  <1>1. PICK s : s = Queued(r, pkt, cid, lost) /\ IsQueued(s, r, pkt, cid, lost)
    BY <1>0, QueuedIsQueued
  <1>a. Len(r.queue[cid]) \in Nat
    BY <1>0, QueueTypes
  <1>2. /\ s \in Receivers /\ s.out = r.out /\ Len(r.queue[cid]) \in Nat
        /\ Len(s.queue[cid]) = Len(r.queue[cid]) + 1
        /\ s.queue[cid][Len(r.queue[cid]) + 1].id = pkt.id
    BY <1>1, <1>a DEF IsQueued
  <1>3. \A c \in Links : \A i \in 1 .. Len(s.queue[c]) :
           \/ i \in 1 .. Len(r.queue[c]) /\ s.queue[c][i] = r.queue[c][i]
           \/ c = cid /\ i = Len(s.queue[cid]) /\ s.queue[c][i].id = pkt.id
    <2> SUFFICES ASSUME NEW c \in Links, NEW i \in 1 .. Len(s.queue[c])
                 PROVE  \/ i \in 1 .. Len(r.queue[c]) /\ s.queue[c][i] = r.queue[c][i]
                        \/ c = cid /\ i = Len(s.queue[cid]) /\ s.queue[c][i].id = pkt.id
      OBVIOUS
    <2>1. CASE c # cid
      BY <1>1, <2>1 DEF IsQueued
    <2>2. CASE c = cid /\ i \in 1 .. Len(r.queue[cid])
      BY <1>1, <2>2 DEF IsQueued
    <2>3. CASE c = cid /\ i = Len(r.queue[cid]) + 1
      BY <1>2, <2>3
    <2>4. c = cid => (i \in 1 .. Len(r.queue[cid]) \/ i = Len(r.queue[cid]) + 1)
      BY <1>2
    <2> QED
      BY <2>1, <2>2, <2>3, <2>4
  <1>4. Held(s.queue, s.out, T)
    <2>1. \A c \in Links : \A i \in 1 .. Len(s.queue[c]) : s.queue[c][i].id \in T
      BY <1>0, <1>3 DEF Held
    <2> QED
      BY <1>0, <1>2, <2>1 DEF Held
  <1>5. \A k \in 1 .. Len(r.out) : r.out[k] # pkt.id
    BY <1>0 DEF Held
  <1>6. \A c \in Links : \A i \in 1 .. Len(r.queue[c]) : r.queue[c][i].id # pkt.id
    BY <1>0 DEF Held
  <1>7. \A c \in Links : \A i \in 1 .. Len(s.queue[c]) :
           \A d \in Links : \A j \in 1 .. Len(s.queue[d]) :
              s.queue[c][i].id = s.queue[d][j].id => c = d /\ i = j
    <2> SUFFICES ASSUME NEW c \in Links, NEW i \in 1 .. Len(s.queue[c]),
                        NEW d \in Links, NEW j \in 1 .. Len(s.queue[d]),
                        s.queue[c][i].id = s.queue[d][j].id
                 PROVE  c = d /\ i = j
      OBVIOUS
    <2>1. CASE i \in 1 .. Len(r.queue[c]) /\ s.queue[c][i] = r.queue[c][i]
               /\ j \in 1 .. Len(r.queue[d]) /\ s.queue[d][j] = r.queue[d][j]
      BY <1>0, <2>1 DEF Distinct
    <2>2. CASE i \in 1 .. Len(r.queue[c]) /\ s.queue[c][i] = r.queue[c][i]
               /\ d = cid /\ j = Len(s.queue[cid]) /\ s.queue[d][j].id = pkt.id
      BY <1>6, <2>2
    <2>3. CASE c = cid /\ i = Len(s.queue[cid]) /\ s.queue[c][i].id = pkt.id
               /\ j \in 1 .. Len(r.queue[d]) /\ s.queue[d][j] = r.queue[d][j]
      BY <1>6, <2>3
    <2>4. CASE c = cid /\ i = Len(s.queue[cid]) /\ d = cid /\ j = Len(s.queue[cid])
      BY <2>4
    <2> QED
      BY <1>3, <2>1, <2>2, <2>3, <2>4
  <1>8. Distinct(s.queue, s.out)
    <2>1. \A c \in Links : \A i \in 1 .. Len(s.queue[c]) : \A k \in 1 .. Len(s.out) :
             s.queue[c][i].id # s.out[k]
      <3>1. \A c \in Links : \A i \in 1 .. Len(r.queue[c]) : \A k \in 1 .. Len(r.out) :
               r.queue[c][i].id # r.out[k]
        BY <1>0 DEF Distinct
      <3> SUFFICES ASSUME NEW c \in Links, NEW i \in 1 .. Len(s.queue[c]),
                          NEW k \in 1 .. Len(r.out)
                   PROVE  s.queue[c][i].id # r.out[k]
        BY <1>2
      <3>2. CASE i \in 1 .. Len(r.queue[c]) /\ s.queue[c][i] = r.queue[c][i]
        BY <3>1, <3>2
      <3>3. CASE s.queue[c][i].id = pkt.id
        BY <1>5, <3>3
      <3> QED
        BY <1>3, <3>2, <3>3
    <2>2. \A k \in 1 .. Len(s.out) : \A l \in 1 .. Len(s.out) : s.out[k] = s.out[l] => k = l
      BY <1>0, <1>2 DEF Distinct
    <2> QED
      BY <1>7, <2>1, <2>2 DEF Distinct
  <1> QED
    BY <1>1, <1>2, <1>4, <1>8 DEF Once

-----------------------------------------------------------------------------
(***************************************************************************)
(* What is in flight.                                                      *)
(***************************************************************************)
Packets == DataPackets \cup EndMarkers
Wires == [Links -> Seq(Packets)]
IsData(p) == p.type = "data"
SnOf(id) == (scenario.firstSn + id) % (MAX_GMA_SN + 1)

\* The packets in flight over a link were sent, with the SN of their place in the
\* flow, and are in the order in which they were sent.
WireOK(w, n) ==
    \A c \in Links : \A i \in 1 .. Len(w[c]) : IsData(w[c][i]) =>
       /\ w[c][i].id < n /\ w[c][i].sn = SnOf(w[c][i].id)
       /\ \A j \in 1 .. Len(w[c]) : (IsData(w[c][j]) /\ i < j) => w[c][i].id < w[c][j].id

\* No packet is in flight over two links.
Apart(w) ==
    \A c \in Links : \A d \in Links \ {c} :
       \A i \in 1 .. Len(w[c]) : \A j \in 1 .. Len(w[d]) :
          (IsData(w[c][i]) /\ IsData(w[d][j])) => w[c][i].id # w[d][j].id

\* The packets that were sent and are no longer in flight.
Arrived(w, n) ==
    {id \in 0 .. n - 1 : \A c \in Links : \A i \in 1 .. Len(w[c]) :
                            IsData(w[c][i]) => w[c][i].id # id}

\* The link `c` gets one more packet, loses its first one.
Grows(v, w, c, p) ==
    /\ Len(v[c]) = Len(w[c]) + 1
    /\ \A i \in 1 .. Len(w[c]) : v[c][i] = w[c][i]
    /\ v[c][Len(w[c]) + 1] = p

Shifts(v, w, c) ==
    /\ Len(w[c]) > 0 /\ Len(v[c]) = Len(w[c]) - 1
    /\ \A i \in 1 .. Len(v[c]) : v[c][i] = w[c][i + 1]

LEMMA WireTypes ==
    ASSUME NEW w \in Wires, NEW c \in Links
    PROVE  /\ Len(w[c]) \in Nat
           /\ w[c] # << >> <=> Len(w[c]) > 0
           /\ w[c] # << >> => Head(w[c]) = w[c][1]
           /\ \A i \in 1 .. Len(w[c]) : /\ w[c][i] \in Packets
                                        /\ IsData(w[c][i]) => w[c][i] \in DataPackets
                                        /\ IsData(w[c][i]) => w[c][i].id \in Nat
                                        /\ ~ IsData(w[c][i]) => w[c][i].type = "end"
  <1>1. w[c] \in Seq(Packets)
    BY DEF Wires
  <1>2. Len(w[c]) \in Nat /\ (w[c] # << >> <=> Len(w[c]) > 0)
    BY <1>1, LenProperties, EmptySeq
  <1>3. w[c] # << >> => Head(w[c]) = w[c][1]
    BY <1>1
  <1>4. \A i \in 1 .. Len(w[c]) : w[c][i] \in Packets
    BY <1>1, ElementOfSeq
  <1>5. \A p \in Packets : /\ IsData(p) => p \in DataPackets
                           /\ IsData(p) => p.id \in Nat
                           /\ ~ IsData(p) => p.type = "end"
    BY DEF Packets, IsData, DataPackets, EndMarkers
  <1> QED
    BY <1>2, <1>3, <1>4, <1>5

LEMMA WireTail ==
    ASSUME TypeOK, NEW cid \in Links, wire[cid] # << >>,
           wire' = [wire EXCEPT ![cid] = Tail(@)]
    PROVE  /\ wire \in Wires /\ wire' \in Wires
           /\ Shifts(wire', wire, cid)
           /\ \A c \in Links : c # cid => wire'[c] = wire[c]
  <1>1. wire \in Wires
    BY DEF TypeOK, Wires, Packets
  <1>2. wire[cid] \in Seq(Packets)
    BY <1>1 DEF Wires
  <1>3. /\ Tail(wire[cid]) \in Seq(Packets)
        /\ Len(wire[cid]) > 0 /\ Len(Tail(wire[cid])) = Len(wire[cid]) - 1
        /\ \A i \in 1 .. Len(Tail(wire[cid])) : Tail(wire[cid])[i] = wire[cid][i + 1]
    BY <1>2, HeadTailProperties, EmptySeq, LenProperties
  <1>4. wire'[cid] = Tail(wire[cid]) /\ \A c \in Links : c # cid => wire'[c] = wire[c]
    BY <1>1 DEF Wires
  <1>5. wire' \in Wires
    BY <1>1, <1>3 DEF Wires
  <1>6. Shifts(wire', wire, cid)
    BY <1>3, <1>4 DEF Shifts
  <1> QED
    BY <1>1, <1>4, <1>5, <1>6

LEMMA WireTransmit ==
    ASSUME TypeOK, NEW cids \in SUBSET Links, Transmit(cids)
    PROVE  /\ wire \in Wires /\ wire' \in Wires
           /\ \A c \in Links \ cids : wire'[c] = wire[c]
           /\ \A c \in cids : Grows(wire', wire, c,
                 [type |-> "data", sn |-> SnOf(sent), lsn |-> m_gmaTxLocalSn[c], id |-> sent])
           /\ scenario.mode # "duplicate" => \E c \in scenario.links : cids = {c}
           /\ cids \subseteq scenario.links
  <1> DEFINE pkt(c) == [type |-> "data", sn |-> SnOf(sent), lsn |-> m_gmaTxLocalSn[c], id |-> sent]
  <1>0. /\ scenario.mode \in {"split", "steer", "duplicate"} /\ scenario.firstSn \in Nat
        /\ MAX_GMA_SN \in Nat /\ sent \in Nat
    BY DefaultCidIsLink, ReorderAssumption DEF TypeOK
  <1>1. wire \in Wires
    BY DEF TypeOK, Wires, Packets
  <1>2. wire' = [c \in Links |-> IF c \in cids THEN Append(wire[c], pkt(c)) ELSE wire[c]]
    BY DEF Transmit, SnOf
  <1>3. SnOf(sent) \in Sns
    <2>1. scenario.firstSn + sent \in Nat
      BY <1>0
    <2> QED
      BY <1>0, <2>1 DEF SnOf, Sns
  <1>4. \A c \in Links : pkt(c) \in Packets
    BY <1>0, <1>3 DEF Packets, DataPackets, TypeOK
  <1> HIDE DEF pkt
  <1>5. \A c \in Links : /\ Append(wire[c], pkt(c)) \in Seq(Packets)
                         /\ Len(Append(wire[c], pkt(c))) = Len(wire[c]) + 1
                         /\ \A i \in 1 .. Len(wire[c]) : Append(wire[c], pkt(c))[i] = wire[c][i]
                         /\ Append(wire[c], pkt(c))[Len(wire[c]) + 1] = pkt(c)
    BY <1>1, <1>4, AppendProperties DEF Wires
  <1>6. \A c \in Links : wire'[c] = IF c \in cids THEN Append(wire[c], pkt(c)) ELSE wire[c]
    BY <1>2
  <1>7. \A c \in Links : wire'[c] \in Seq(Packets)
    BY <1>1, <1>5, <1>6 DEF Wires
  <1>8. wire' \in Wires
    BY <1>2, <1>6, <1>7 DEF Wires
  <1>9. \A c \in cids : Grows(wire', wire, c, pkt(c))
    BY <1>5, <1>6 DEF Grows
  <1>10. CASE scenario.mode = "split"
    BY <1>1, <1>6, <1>8, <1>9, <1>10 DEF Transmit, pkt
  <1>11. CASE scenario.mode = "steer"
    BY <1>1, <1>6, <1>8, <1>9, <1>11 DEF Transmit, TypeOK, pkt
  <1>12. CASE scenario.mode = "duplicate"
    BY <1>1, <1>6, <1>8, <1>9, <1>12 DEF Transmit, pkt
  <1> QED
    BY <1>0, <1>10, <1>11, <1>12

LEMMA WireSteer ==
    ASSUME TypeOK, NEW cid \in scenario.links, Steer(cid)
    PROVE  /\ wire \in Wires /\ wire' \in Wires
           /\ deliveryLink \in Links
           /\ \A c \in Links : c # deliveryLink => wire'[c] = wire[c]
           /\ Grows(wire', wire, deliveryLink, [type |-> "end"])
  <1>0. deliveryLink \in Links
    BY DefaultCidIsLink DEF TypeOK
  <1>1. wire \in Wires
    BY DEF TypeOK, Wires, Packets
  <1> DEFINE a == Append(wire[deliveryLink], [type |-> "end"])
  <1>2. [type |-> "end"] \in Packets
    BY DEF Packets, EndMarkers
  <1>3. /\ a \in Seq(Packets)
        /\ Len(a) = Len(wire[deliveryLink]) + 1
        /\ \A i \in 1 .. Len(wire[deliveryLink]) : a[i] = wire[deliveryLink][i]
        /\ a[Len(wire[deliveryLink]) + 1] = [type |-> "end"]
    BY <1>0, <1>1, <1>2, AppendProperties DEF Wires
  <1>4. wire' = [wire EXCEPT ![deliveryLink] = a]
    BY DEF Steer
  <1> HIDE DEF a
  <1>5. wire' \in Wires /\ wire'[deliveryLink] = a
    BY <1>0, <1>1, <1>3, <1>4 DEF Wires
  <1>6. \A c \in Links : c # deliveryLink => wire'[c] = wire[c]
    BY <1>1, <1>4 DEF Wires
  <1> QED
    BY <1>0, <1>1, <1>3, <1>5, <1>6 DEF Grows

\* A packet at the end of a link, and the places before it.
LEMMA GrowsCases ==
    ASSUME NEW v \in Wires, NEW w \in Wires, NEW c \in Links, NEW p, Grows(v, w, c, p),
           NEW i \in 1 .. Len(v[c])
    PROVE  \/ i \in 1 .. Len(w[c]) /\ v[c][i] = w[c][i]
           \/ i = Len(w[c]) + 1 /\ v[c][i] = p
  <1>1. Len(w[c]) \in Nat
    BY WireTypes
  <1> QED
    BY <1>1 DEF Grows

LEMMA ShiftsCases ==
    ASSUME NEW v \in Wires, NEW w \in Wires, NEW c \in Links, Shifts(v, w, c),
           NEW i \in 1 .. Len(v[c])
    PROVE  i + 1 \in 2 .. Len(w[c]) /\ v[c][i] = w[c][i + 1]
  <1>1. Len(w[c]) \in Nat
    BY WireTypes
  <1> QED
    BY <1>1 DEF Shifts

LEMMA WireOKSend ==
    ASSUME NEW n \in Nat, NEW w \in Wires, NEW v \in Wires, NEW cids \in SUBSET Links,
           WireOK(w, n),
           \A c \in Links \ cids : v[c] = w[c],
           \A c \in cids : \E p : /\ IsData(p) /\ p.id = n /\ p.sn = SnOf(n)
                                  /\ Grows(v, w, c, p)
    PROVE  WireOK(v, n + 1)
  <1> SUFFICES ASSUME NEW c \in Links, NEW i \in 1 .. Len(v[c]), IsData(v[c][i])
               PROVE  /\ v[c][i].id < n + 1 /\ v[c][i].sn = SnOf(v[c][i].id)
                      /\ \A j \in 1 .. Len(v[c]) : (IsData(v[c][j]) /\ i < j)
                            => v[c][i].id < v[c][j].id
    BY DEF WireOK
  <1>1. \A k \in 1 .. Len(w[c]) : IsData(w[c][k]) =>
           /\ w[c][k].id \in Nat /\ w[c][k].id < n /\ w[c][k].sn = SnOf(w[c][k].id)
           /\ \A j \in 1 .. Len(w[c]) : (IsData(w[c][j]) /\ k < j) => w[c][k].id < w[c][j].id
    BY WireTypes DEF WireOK
  <1>2. CASE c \notin cids
    BY <1>1, <1>2
  <1>3. CASE c \in cids
    <2>1. PICK p : IsData(p) /\ p.id = n /\ p.sn = SnOf(n) /\ Grows(v, w, c, p)
      BY <1>3
    <2>2. \A k \in 1 .. Len(v[c]) : \/ k \in 1 .. Len(w[c]) /\ v[c][k] = w[c][k]
                                    \/ k = Len(w[c]) + 1 /\ v[c][k] = p
      BY <2>1, GrowsCases
    <2>3. Len(w[c]) \in Nat
      BY WireTypes
    <2>4. v[c][i].id < n + 1 /\ v[c][i].sn = SnOf(v[c][i].id)
      BY <1>1, <2>1, <2>2
    <2>5. ASSUME NEW j \in 1 .. Len(v[c]), IsData(v[c][j]), i < j
          PROVE  v[c][i].id < v[c][j].id
      <3>1. i \in 1 .. Len(w[c]) /\ v[c][i] = w[c][i]
        BY <2>2, <2>3, <2>5 DEF Grows
      <3>2. CASE j \in 1 .. Len(w[c]) /\ v[c][j] = w[c][j]
        BY <1>1, <2>5, <3>1, <3>2
      <3>3. CASE v[c][j] = p
        BY <1>1, <2>1, <3>1, <3>3
      <3> QED
        BY <2>2, <3>2, <3>3
    <2> QED
      BY <2>4, <2>5
  <1> QED
    BY <1>2, <1>3

LEMMA WireOKEnd ==
    ASSUME NEW n \in Nat, NEW w \in Wires, NEW v \in Wires, NEW d \in Links,
           WireOK(w, n), \A c \in Links : c # d => v[c] = w[c],
           NEW p, ~ IsData(p), Grows(v, w, d, p)
    PROVE  WireOK(v, n)
  <1>1. \A c \in Links : \A i \in 1 .. Len(v[c]) : IsData(v[c][i]) =>
           i \in 1 .. Len(w[c]) /\ v[c][i] = w[c][i]
    BY GrowsCases
  <1> SUFFICES ASSUME NEW c \in Links, NEW i \in 1 .. Len(v[c]), IsData(v[c][i])
               PROVE  /\ v[c][i].id < n /\ v[c][i].sn = SnOf(v[c][i].id)
                      /\ \A j \in 1 .. Len(v[c]) : (IsData(v[c][j]) /\ i < j)
                            => v[c][i].id < v[c][j].id
    BY DEF WireOK
  <1>2. i \in 1 .. Len(w[c]) /\ v[c][i] = w[c][i]
    BY <1>1
  <1>3. /\ w[c][i].id < n /\ w[c][i].sn = SnOf(w[c][i].id)
        /\ \A j \in 1 .. Len(w[c]) : (IsData(w[c][j]) /\ i < j) => w[c][i].id < w[c][j].id
    BY <1>2 DEF WireOK
  <1> QED
    BY <1>1, <1>2, <1>3

LEMMA WireOKTail ==
    ASSUME NEW n \in Nat, NEW w \in Wires, NEW v \in Wires, NEW d \in Links,
           WireOK(w, n), \A c \in Links : c # d => v[c] = w[c], Shifts(v, w, d)
    PROVE  WireOK(v, n)
  <1> SUFFICES ASSUME NEW c \in Links, NEW i \in 1 .. Len(v[c]), IsData(v[c][i])
               PROVE  /\ v[c][i].id < n /\ v[c][i].sn = SnOf(v[c][i].id)
                      /\ \A j \in 1 .. Len(v[c]) : (IsData(v[c][j]) /\ i < j)
                            => v[c][i].id < v[c][j].id
    BY DEF WireOK
  <1>1. CASE c # d
    BY <1>1 DEF WireOK
  <1>2. CASE c = d
    <2>1. \A k \in 1 .. Len(v[c]) : k + 1 \in 1 .. Len(w[c]) /\ v[c][k] = w[c][k + 1]
      BY <1>2, ShiftsCases
    <2>2. v[c][i].id < n /\ v[c][i].sn = SnOf(v[c][i].id)
      BY <2>1 DEF WireOK
    <2>3. ASSUME NEW j \in 1 .. Len(v[c]), IsData(v[c][j]), i < j
          PROVE  v[c][i].id < v[c][j].id
      <3>1. i + 1 < j + 1
        BY <2>3
      <3> QED
        BY <2>1, <2>3, <3>1 DEF WireOK
    <2> QED
      BY <2>2, <2>3
  <1> QED
    BY <1>1, <1>2

\* Nothing new is in flight: Apart is kept.
Within(v, w) ==
    \A c \in Links : \A i \in 1 .. Len(v[c]) : IsData(v[c][i]) =>
       \E j \in 1 .. Len(w[c]) : v[c][i] = w[c][j]

LEMMA ApartWithin ==
    ASSUME NEW v, NEW w, Within(v, w), Apart(w), NEW n \in Nat
    PROVE  Apart(v) /\ Arrived(w, n) \subseteq Arrived(v, n)
  <1>1. Apart(v)
    <2> SUFFICES ASSUME NEW c \in Links, NEW d \in Links \ {c}, NEW i \in 1 .. Len(v[c]),
                        NEW j \in 1 .. Len(v[d]), IsData(v[c][i]), IsData(v[d][j])
                 PROVE  v[c][i].id # v[d][j].id
      BY DEF Apart
    <2>1. PICK a \in 1 .. Len(w[c]) : v[c][i] = w[c][a]
      BY DEF Within
    <2>2. PICK b \in 1 .. Len(w[d]) : v[d][j] = w[d][b]
      BY DEF Within
    <2> QED
      BY <2>1, <2>2 DEF Apart
  <1>2. Arrived(w, n) \subseteq Arrived(v, n)
    BY DEF Within, Arrived
  <1> QED
    BY <1>1, <1>2

LEMMA TailArrives ==
    ASSUME NEW n \in Nat, NEW w \in Wires, NEW v \in Wires, NEW d \in Links,
           WireOK(w, n), Apart(w), \A c \in Links : c # d => v[c] = w[c], Shifts(v, w, d)
    PROVE  /\ Apart(v) /\ Arrived(w, n) \subseteq Arrived(v, n)
           /\ IsData(w[d][1]) => w[d][1].id \in Arrived(v, n) \ Arrived(w, n)
  <1>1. \A k \in 1 .. Len(v[d]) : k + 1 \in 2 .. Len(w[d]) /\ v[d][k] = w[d][k + 1]
    BY ShiftsCases
  <1>2. Len(w[d]) \in Nat /\ 1 \in 1 .. Len(w[d])
    BY WireTypes DEF Shifts
  <1>3. Within(v, w)
    <2> SUFFICES ASSUME NEW c \in Links, NEW i \in 1 .. Len(v[c])
                 PROVE  \E j \in 1 .. Len(w[c]) : v[c][i] = w[c][j]
      BY DEF Within
    <2>1. CASE c # d
      BY <2>1
    <2>2. CASE c = d
      <3>1. i + 1 \in 1 .. Len(w[d]) /\ v[d][i] = w[d][i + 1]
        BY <1>1, <1>2, <2>2
      <3> QED
        BY <2>2, <3>1
    <2> QED
      BY <2>1, <2>2
  <1>4. ASSUME IsData(w[d][1])
        PROVE  w[d][1].id \in Arrived(v, n) \ Arrived(w, n)
    <2>1. w[d][1].id \in 0 .. n - 1
      BY <1>2, <1>4, WireTypes DEF WireOK
    <2>2. w[d][1].id \notin Arrived(w, n)
      BY <1>2, <1>4 DEF Arrived
    <2>3. ASSUME NEW c \in Links, NEW i \in 1 .. Len(v[c]), IsData(v[c][i])
          PROVE  v[c][i].id # w[d][1].id
      <3>1. CASE c # d
        BY <1>2, <1>4, <2>3, <3>1 DEF Apart
      <3>2. CASE c = d
        <4>1. /\ i + 1 \in 1 .. Len(w[d]) /\ 1 < i + 1 /\ v[c][i] = w[d][i + 1]
              /\ IsData(w[d][i + 1])
          BY <1>1, <1>2, <2>3, <3>2
        <4>2. w[d][1].id < w[d][i + 1].id /\ w[d][i + 1].id \in Nat
          BY <1>2, <1>4, <4>1, WireTypes DEF WireOK
        <4> QED
          BY <2>1, <4>1, <4>2
      <3> QED
        BY <3>1, <3>2
    <2> QED
      BY <2>1, <2>2, <2>3 DEF Arrived
  <1> QED
    BY <1>3, <1>4, ApartWithin

LEMMA SendIsApart ==
    ASSUME NEW n \in Nat, NEW w \in Wires, NEW v \in Wires, NEW d \in Links,
           WireOK(w, n), Apart(w), \A c \in Links : c # d => v[c] = w[c],
           NEW p, IsData(p), p.id = n, Grows(v, w, d, p)
    PROVE  Apart(v) /\ Arrived(w, n) \subseteq Arrived(v, n + 1)
  <1>1. \A c \in Links : \A i \in 1 .. Len(v[c]) :
           \/ i \in 1 .. Len(w[c]) /\ v[c][i] = w[c][i]
           \/ c = d /\ v[c][i] = p
    BY GrowsCases
  <1>2. \A c \in Links : \A i \in 1 .. Len(w[c]) : IsData(w[c][i]) =>
           w[c][i].id # n
    BY WireTypes DEF WireOK
  <1>3. Apart(v)
    <2> SUFFICES ASSUME NEW c \in Links, NEW e \in Links \ {c}, NEW i \in 1 .. Len(v[c]),
                        NEW j \in 1 .. Len(v[e]), IsData(v[c][i]), IsData(v[e][j])
                 PROVE  v[c][i].id # v[e][j].id
      BY DEF Apart
    <2>1. CASE /\ i \in 1 .. Len(w[c]) /\ v[c][i] = w[c][i]
               /\ j \in 1 .. Len(w[e]) /\ v[e][j] = w[e][j]
      BY <2>1 DEF Apart
    <2>2. CASE i \in 1 .. Len(w[c]) /\ v[c][i] = w[c][i] /\ v[e][j] = p
      BY <1>2, <2>2
    <2>3. CASE v[c][i] = p /\ j \in 1 .. Len(w[e]) /\ v[e][j] = w[e][j]
      BY <1>2, <2>3
    <2>4. ~ (c = d /\ e = d)
      OBVIOUS
    <2> QED
      BY <1>1, <2>1, <2>2, <2>3, <2>4
  <1>4. ASSUME NEW id \in Arrived(w, n) PROVE id \in Arrived(v, n + 1)
    <2>1. id \in 0 .. n - 1 /\ id \in 0 .. (n + 1) - 1 /\ id # n
      BY DEF Arrived
    <2>2. \A c \in Links : \A i \in 1 .. Len(v[c]) : IsData(v[c][i]) => v[c][i].id # id
      BY <1>1, <2>1 DEF Arrived
    <2> QED
      BY <2>1, <2>2 DEF Arrived
  <1> QED
    BY <1>3, <1>4

LEMMA EndIsApart ==
    ASSUME NEW n \in Nat, NEW w \in Wires, NEW v \in Wires, NEW d \in Links,
           Apart(w), \A c \in Links : c # d => v[c] = w[c],
           NEW p, ~ IsData(p), Grows(v, w, d, p)
    PROVE  Apart(v) /\ Arrived(w, n) \subseteq Arrived(v, n)
  <1>1. Within(v, w)
    BY GrowsCases DEF Within
  <1> QED
    BY <1>1, ApartWithin

\* The packets in flight, in every mode and with every fault.
WireInv ==
    /\ WireOK(wire, sent)
    /\ scenario.mode # "duplicate" => Apart(wire)
    /\ \A c \in Links \ scenario.links : wire[c] = << >>

\* The ways in which a step changes what is in flight.
LEMMA WireCases ==
    ASSUME TypeOK, Next
    PROVE  \/ UNCHANGED <<wire, sent>>
           \/ \E cids \in SUBSET Links : Transmit(cids)
           \/ \E cid \in scenario.links : Steer(cid)
           \/ \E cid \in scenario.links : /\ cid \in Links /\ wire[cid] # << >>
                                          /\ wire' = [wire EXCEPT ![cid] = Tail(@)]
                                          /\ sent' = sent
  <1>1. scenario.links \subseteq Links
    BY DefaultCidIsLink DEF TypeOK
  <1>2. ASSUME NEW cid \in scenario.links, ReceiveData(cid) \/ ReceiveEndMarker(cid) \/ Lose(cid)
        PROVE  cid \in Links /\ wire[cid] # << >> /\ wire' = [wire EXCEPT ![cid] = Tail(@)]
               /\ sent' = sent
    BY <1>1, <1>2 DEF ReceiveData, ReceiveEndMarker, Lose
  <1>3. ASSUME NEW cid \in scenario.links, LinkChanges(cid) PROVE UNCHANGED <<wire, sent>>
    BY <1>3 DEF LinkChanges, txVars
  <1>4. ASSUME NEW x \in Expirations, ReorderingTimeout(x) PROVE UNCHANGED <<wire, sent>>
    BY <1>4 DEF ReorderingTimeout, txVars
  <1>5. ASSUME StopReorderTimeout \/ SendTsu PROVE UNCHANGED <<wire, sent>>
    BY <1>5 DEF StopReorderTimeout, SendTsu, txVars
  <1>6. Step
    BY DEF Next
  <1> QED
    BY <1>2, <1>3, <1>4, <1>5, <1>6 DEF Step

LEMMA WireInvInit == Init => WireInv
  <1> SUFFICES ASSUME Init PROVE WireInv
    OBVIOUS
  <1>1. \A c \in Links : wire[c] = << >> /\ Len(wire[c]) = 0
    BY DEF Init
  <1>2. 1 .. 0 = {}
    OBVIOUS
  <1> QED
    BY <1>1, <1>2 DEF WireInv, WireOK, Apart

LEMMA WireInvNext ==
    ASSUME TypeOK, WireInv, [Next]_vars
    PROVE  WireInv'
  <1>0. /\ sent \in Nat /\ wire \in Wires /\ scenario.links \subseteq Links
        /\ scenario' = scenario /\ scenario.mode' = scenario.mode
    BY DefaultCidIsLink DEF TypeOK, Wires, Packets, Next, vars
  <1>a. WireOK(wire, sent) /\ (scenario.mode # "duplicate" => Apart(wire))
    BY DEF WireInv
  <1>b. ASSUME WireOK(wire', sent'), scenario.mode # "duplicate" => Apart(wire'),
               \A c \in Links \ scenario.links : wire'[c] = << >>
        PROVE  WireInv'
    BY <1>0, <1>b DEF WireInv, WireOK, Apart, SnOf
  <1>1. CASE UNCHANGED <<wire, sent>>
    BY <1>0, <1>1 DEF WireInv, WireOK, Apart, SnOf
  <1>2. ASSUME NEW cids \in SUBSET Links, Transmit(cids) PROVE WireInv'
    <2>1. /\ wire' \in Wires
          /\ \A c \in Links \ cids : wire'[c] = wire[c]
          /\ \A c \in cids : Grows(wire', wire, c,
                [type |-> "data", sn |-> SnOf(sent), lsn |-> m_gmaTxLocalSn[c], id |-> sent])
          /\ scenario.mode # "duplicate" => \E c \in scenario.links : cids = {c}
          /\ cids \subseteq scenario.links
      BY <1>2, WireTransmit
    <2>2. sent' = sent + 1
      BY <1>2 DEF Transmit
    <2>3. \A c \in cids : \E p : /\ IsData(p) /\ p.id = sent /\ p.sn = SnOf(sent)
                                 /\ Grows(wire', wire, c, p)
      <3> SUFFICES ASSUME NEW c \in cids
                   PROVE  \E p : /\ IsData(p) /\ p.id = sent /\ p.sn = SnOf(sent)
                                 /\ Grows(wire', wire, c, p)
        OBVIOUS
      <3>1. PICK p : p = [type |-> "data", sn |-> SnOf(sent), lsn |-> m_gmaTxLocalSn[c], id |-> sent]
        OBVIOUS
      <3>2. Grows(wire', wire, c, p)
        BY <2>1, <3>1
      <3>3. IsData(p) /\ p.id = sent /\ p.sn = SnOf(sent)
        BY <3>1 DEF IsData
      <3> QED
        BY <3>2, <3>3
    <2>4. WireOK(wire', sent')
      BY <1>0, <1>a, <2>1, <2>2, <2>3, WireOKSend
    <2>5. ASSUME scenario.mode # "duplicate" PROVE Apart(wire')
      <3>1. PICK d \in Links : cids = {d}
        BY <1>0, <2>1, <2>5
      <3>2. PICK p : IsData(p) /\ p.id = sent /\ Grows(wire', wire, d, p)
        BY <2>3, <3>1
      <3>3. \A c \in Links : c # d => wire'[c] = wire[c]
        BY <2>1, <3>1
      <3> QED
        BY <1>0, <1>a, <2>1, <2>5, <3>2, <3>3, SendIsApart
    <2>6. \A c \in Links \ scenario.links : wire'[c] = << >>
      BY <2>1 DEF WireInv
    <2> QED
      BY <1>b, <2>4, <2>5, <2>6
  <1>3. ASSUME NEW cid \in scenario.links, Steer(cid) PROVE WireInv'
    <2>1. PICK d : d = deliveryLink
      OBVIOUS
    <2>2. PICK p : p = [type |-> "end"]
      OBVIOUS
    <2>3. /\ wire' \in Wires /\ d \in Links /\ d \in scenario.links
          /\ \A c \in Links : c # d => wire'[c] = wire[c]
          /\ Grows(wire', wire, d, p)
      BY <1>3, <2>1, <2>2, WireSteer DEF TypeOK
    <2>4. ~ IsData(p)
      BY <2>2 DEF IsData
    <2>5. sent' = sent
      BY <1>3 DEF Steer
    <2>6. WireOK(wire', sent')
      BY <1>0, <1>a, <2>3, <2>4, <2>5, WireOKEnd
    <2>7. scenario.mode # "duplicate" => Apart(wire')
      BY <1>0, <1>a, <2>3, <2>4, EndIsApart
    <2>8. \A c \in Links \ scenario.links : wire'[c] = << >>
      BY <2>3 DEF WireInv
    <2> QED
      BY <1>b, <2>6, <2>7, <2>8
  <1>4. ASSUME NEW cid \in scenario.links, cid \in Links, wire[cid] # << >>,
               wire' = [wire EXCEPT ![cid] = Tail(@)], sent' = sent
        PROVE  WireInv'
    <2>1. /\ wire' \in Wires /\ Shifts(wire', wire, cid)
          /\ \A c \in Links : c # cid => wire'[c] = wire[c]
      BY <1>4, WireTail
    <2>2. WireOK(wire', sent')
      BY <1>0, <1>a, <1>4, <2>1, WireOKTail
    <2>3. scenario.mode # "duplicate" => Apart(wire')
      <3> SUFFICES ASSUME Apart(wire) PROVE Apart(wire')
        BY <1>a
      <3>1. PICK v \in Wires : v = wire'
        BY <2>1
      <3>2. Shifts(v, wire, cid) /\ \A c \in Links : c # cid => v[c] = wire[c]
        BY <2>1, <3>1
      <3>3. Apart(v)
        BY <1>0, <1>a, <1>4, <3>2, TailArrives
      <3> QED
        BY <3>1, <3>3
    <2>4. \A c \in Links \ scenario.links : wire'[c] = << >>
      BY <2>1 DEF WireInv
    <2> QED
      BY <1>b, <2>2, <2>3, <2>4
  <1>5. CASE Next
    BY <1>1, <1>2, <1>3, <1>4, <1>5, WireCases
  <1>6. CASE UNCHANGED vars
    BY <1>1, <1>6 DEF vars, txVars
  <1> QED
    BY <1>5, <1>6

LEMMA WireInvariant == Spec => []WireInv
  <1>1. Init => WireInv
    BY WireInvInit
  <1>2. TypeOK /\ WireInv /\ [Next]_vars => WireInv'
    BY WireInvNext
  <1> QED
    BY <1>1, <1>2, TypeCorrect, PTL DEF Spec

\* The inductive invariant: what is queued and what was forwarded has arrived, and
\* is there once.
OnceInv ==
    scenario.mode # "duplicate" =>
       /\ Distinct(m_reorderingQueue, forwarded)
       /\ Held(m_reorderingQueue, forwarded, Arrived(wire, sent))

LEMMA HeldGrows ==
    ASSUME NEW q, NEW o, NEW S, NEW T, S \subseteq T, Held(q, o, S)
    PROVE  Held(q, o, T)
  BY DEF Held

\* What has arrived stays arrived.
LEMMA ArrivedGrows ==
    ASSUME TypeOK, WireInv, scenario.mode # "duplicate", Next
    PROVE  Arrived(wire, sent) \subseteq Arrived(wire', sent')
  <1>0. /\ sent \in Nat /\ wire \in Wires /\ WireOK(wire, sent) /\ Apart(wire)
        /\ scenario.links \subseteq Links
    BY DefaultCidIsLink DEF TypeOK, Wires, Packets, WireInv
  <1>1. CASE UNCHANGED <<wire, sent>>
    BY <1>1
  <1>2. ASSUME NEW cids \in SUBSET Links, Transmit(cids)
        PROVE  Arrived(wire, sent) \subseteq Arrived(wire', sent')
    <2>1. PICK d \in Links : cids = {d}
      BY <1>0, <1>2, WireTransmit
    <2>2. PICK p : p = [type |-> "data", sn |-> SnOf(sent), lsn |-> m_gmaTxLocalSn[d], id |-> sent]
      OBVIOUS
    <2>3. /\ wire' \in Wires /\ Grows(wire', wire, d, p)
          /\ \A c \in Links : c # d => wire'[c] = wire[c]
      BY <1>2, <2>1, <2>2, WireTransmit
    <2>4. IsData(p) /\ p.id = sent
      BY <2>2 DEF IsData
    <2>5. sent' = sent + 1
      BY <1>2 DEF Transmit
    <2> QED
      BY <1>0, <2>3, <2>4, <2>5, SendIsApart
  <1>3. ASSUME NEW cid \in scenario.links, Steer(cid)
        PROVE  Arrived(wire, sent) \subseteq Arrived(wire', sent')
    <2>1. PICK d, p : d = deliveryLink /\ p = [type |-> "end"]
      OBVIOUS
    <2>2. /\ wire' \in Wires /\ d \in Links /\ Grows(wire', wire, d, p)
          /\ \A c \in Links : c # d => wire'[c] = wire[c]
      BY <1>3, <2>1, WireSteer
    <2>3. ~ IsData(p) /\ sent' = sent
      BY <1>3, <2>1 DEF IsData, Steer
    <2> QED
      BY <1>0, <2>2, <2>3, EndIsApart
  <1>4. ASSUME NEW cid \in scenario.links, cid \in Links, wire[cid] # << >>,
               wire' = [wire EXCEPT ![cid] = Tail(@)], sent' = sent
        PROVE  Arrived(wire, sent) \subseteq Arrived(wire', sent')
    <2>1. PICK v \in Wires : v = wire'
      BY <1>4, WireTail
    <2>2. Shifts(v, wire, cid) /\ \A c \in Links : c # cid => v[c] = wire[c]
      BY <1>4, <2>1, WireTail
    <2>3. Arrived(wire, sent) \subseteq Arrived(v, sent)
      BY <1>0, <2>2, TailArrives
    <2> QED
      BY <1>4, <2>1, <2>3
  <1> QED
    BY <1>1, <1>2, <1>3, <1>4, WireCases

LEMMA OnceReceive ==
    ASSUME TypeOK, WireInv, OnceInv, scenario.mode # "duplicate",
           NEW cid \in Links, ReceiveData(cid)
    PROVE  \E s \in Once(Arrived(wire', sent')) : Becomes(s)
  <1>0. /\ sent \in Nat /\ wire \in Wires /\ WireOK(wire, sent) /\ Apart(wire)
    BY DEF TypeOK, Wires, Packets, WireInv
  <1>1. PICK pkt \in DataPackets : pkt = Head(wire[cid])
    BY ReceiveDataCases
  <1>2. PICK x \in Expirations : \E r \in Receivers :
           /\ r = OnArrival(Receiver(x), cid)
           /\ \/ r.on /\ InOrderDelivery(r, pkt, cid)
              \/ /\ ~ r.on /\ Becomes(Delivered(r, pkt))
                 /\ UNCHANGED <<m_gmaRxLast, m_reorderingTimeoutEvent, discarded>>
    BY <1>1, ReceiveDataCases
  <1>3. PICK r \in Receivers :
           /\ r = OnArrival(Receiver(x), cid)
           /\ \/ InOrderDelivery(r, pkt, cid)
              \/ Becomes(Delivered(r, pkt))
    BY <1>2
  <1>4. PICK p \in Receivers : /\ p = Receiver(x) /\ p.queue = m_reorderingQueue
                               /\ p.out = forwarded
    BY ExpirationsAreNumbers, ReceiverIsReceiver
  <1>5. r.queue = m_reorderingQueue /\ r.out = forwarded
    BY <1>3, <1>4, OnArrivalFacts DEF SameContents
  <1>6. PICK S, T : S = Arrived(wire, sent) /\ T = Arrived(wire', sent')
    OBVIOUS
  <1>7. S \subseteq T /\ pkt.id \in T \ S
    <2>1. PICK v \in Wires : v = wire'
      BY WireTail DEF ReceiveData
    <2>2. /\ Shifts(v, wire, cid) /\ \A c \in Links : c # cid => v[c] = wire[c]
          /\ wire[cid] # << >>
      BY <2>1, WireTail DEF ReceiveData
    <2>3. pkt = wire[cid][1] /\ IsData(wire[cid][1])
      BY <1>0, <1>1, <2>2, WireTypes DEF IsData, DataPackets
    <2>4. /\ Arrived(wire, sent) \subseteq Arrived(v, sent)
          /\ wire[cid][1].id \in Arrived(v, sent) \ Arrived(wire, sent)
      BY <1>0, <2>2, <2>3, TailArrives
    <2>5. sent' = sent
      BY DEF ReceiveData
    <2> QED
      BY <1>6, <2>1, <2>3, <2>4, <2>5
  <1>8. r \in Once(S)
    BY <1>5, <1>6 DEF Once, OnceInv
  <1>9. r \in Once(T)
    BY <1>7, <1>8, HeldGrows DEF Once
  <1>10. PICK lost \in BOOLEAN : lost = GapIsLost(pkt, cid)
    BY DEF GapIsLost
  <1>11. Delivered(r, pkt) \in Once(T) /\ Queued(r, pkt, cid, lost) \in Once(T)
    BY <1>7, <1>8, OnceDelivered, OnceQueued
  <1>12. CASE InOrderDelivery(r, pkt, cid)
    <2>1. Accepts(Once(T), r, pkt, cid, lost)
      BY <1>11 DEF Accepts
    <2>2. PICK G \in SUBSET Receivers : G = Once(T) /\ Closed(G)
      BY OnceIsClosed
    <2>3. Accepts(G, r, pkt, cid, GapIsLost(pkt, cid))
      BY <1>10, <2>1, <2>2
    <2>4. (\E s \in G : Becomes(s)) \/ Becomes(r)
      BY <1>12, <2>2, <2>3, ArrivalStays
    <2> QED
      BY <1>6, <1>9, <2>2, <2>4
  <1>13. CASE Becomes(Delivered(r, pkt))
    BY <1>6, <1>11, <1>13
  <1> QED
    BY <1>3, <1>12, <1>13

LEMMA OnceNext ==
    ASSUME TypeOK, WireInv, OnceInv, [Next]_vars
    PROVE  OnceInv'
  <1>1. CASE UNCHANGED vars
    BY <1>1 DEF vars, rxVars, txVars, OnceInv, Distinct, Held, Arrived
  <1>2. CASE Next
    <2>0. scenario' = scenario
      BY <1>2 DEF Next
    <2> SUFFICES ASSUME scenario.mode # "duplicate"
                 PROVE  Distinct(m_reorderingQueue', forwarded')
                        /\ Held(m_reorderingQueue', forwarded', Arrived(wire', sent'))
      BY <2>0 DEF OnceInv, Distinct, Held, Arrived
    <2>1. PICK S, T : /\ S = Arrived(wire, sent) /\ T = Arrived(wire', sent') /\ S \subseteq T
      BY <1>2, ArrivedGrows
    <2>2. Distinct(m_reorderingQueue, forwarded) /\ Held(m_reorderingQueue, forwarded, T)
      BY <2>1, HeldGrows DEF OnceInv
    <2>3. ASSUME NEW s \in Once(T), Becomes(s)
          PROVE  Distinct(m_reorderingQueue', forwarded') /\ Held(m_reorderingQueue', forwarded', T)
      BY <2>3 DEF Once, Becomes
    <2>4. CASE UNCHANGED <<m_reorderingQueue, forwarded>>
      BY <2>1, <2>2, <2>4
    <2>5. \A x \in Nat : Receiver(x) \in Once(T)
      BY <2>2, ReceiverIsReceiver DEF Once
    <2>6. /\ Once(T) \in SUBSET Receivers /\ Movable(Once(T)) /\ Closed(Once(T))
      BY OnceIsClosed
    <2>7. scenario.links \subseteq Links
      BY DefaultCidIsLink DEF TypeOK
    <2>8. ASSUME NEW cid \in scenario.links, ReceiveData(cid)
          PROVE  \E s \in Once(T) : Becomes(s)
      BY <2>1, <2>7, <2>8, OnceReceive
    <2>9. ASSUME NEW cid \in scenario.links, ReceiveEndMarker(cid)
          PROVE  \E s \in Once(T) : Becomes(s)
      <3>1. PICK r \in Once(T) : r = Receiver(0)
        BY <2>5
      <3>2. PICK s \in Receivers :
               /\ Becomes(s)
               /\ s = r \/ s = [r EXCEPT !.newLink = NoCid] \/ s = StopReordering(r)
        BY <2>7, <2>9, <3>1, EndMarkerCases
      <3>3. r \in Receivers
        BY <2>6
      <3>4. CASE s = [r EXCEPT !.newLink = NoCid]
        <4>1. SameContents(s, r)
          BY <3>3, <3>4 DEF SameContents, Receivers
        <4> QED
          BY <2>6, <3>2, <4>1 DEF Movable
      <3>5. CASE s = StopReordering(r)
        BY <2>6, <3>2, <3>5, MovableKeepsAll
      <3> QED
        BY <3>2, <3>4, <3>5
    <2>10. ASSUME NEW x \in Expirations, ReorderingTimeout(x)
           PROVE  \E s \in Once(T) : Becomes(s)
      <3>1. PICK r \in Once(T) : r = Receiver(x)
        BY <2>5, ExpirationsAreNumbers
      <3>2. Becomes(ReleaseInOrderPackets(r))
        BY <2>10, <3>1, TimeoutCases
      <3> QED
        BY <2>6, <3>2, ClosedKeeps
    <2>11. ASSUME StopReorderTimeout PROVE \E s \in Once(T) : Becomes(s)
      <3>1. PICK r \in Once(T) : r = Receiver(0)
        BY <2>5
      <3>2. PICK q \in Receivers, s \in Receivers :
               q = [r EXCEPT !.stop = FALSE] /\ s = StopReordering(q) /\ Becomes(s)
        BY <2>11, <3>1, TimeoutCases
      <3>3. r \in Receivers
        BY <2>6
      <3>4. SameContents(q, r)
        BY <3>2, <3>3 DEF SameContents, Receivers
      <3>5. q \in Once(T)
        BY <2>6, <3>4 DEF Movable
      <3> QED
        BY <2>6, <3>2, <3>5, MovableKeepsAll
    <2>12. ASSUME NEW cids \in SUBSET Links, Transmit(cids)
           PROVE  UNCHANGED <<m_reorderingQueue, forwarded>>
      BY <2>12 DEF Transmit, rxVars
    <2>13. ASSUME NEW cid \in scenario.links, Steer(cid) \/ Lose(cid) \/ LinkChanges(cid)
           PROVE  UNCHANGED <<m_reorderingQueue, forwarded>>
      BY <2>13 DEF Steer, Lose, LinkChanges, rxVars
    <2>14. ASSUME SendTsu PROVE UNCHANGED <<m_reorderingQueue, forwarded>>
      BY <2>14 DEF SendTsu
    <2>15. UNCHANGED <<m_reorderingQueue, forwarded>> \/ \E s \in Once(T) : Becomes(s)
      BY <1>2, <2>8, <2>9, <2>10, <2>11, <2>12, <2>13, <2>14 DEF Next, Step
    <2> QED
      BY <2>1, <2>3, <2>4, <2>15
  <1> QED
    BY <1>1, <1>2

LEMMA OnceInit == Init => OnceInv
  <1> SUFFICES ASSUME Init PROVE OnceInv
    OBVIOUS
  <1>1. (\A c \in Links : Len(m_reorderingQueue[c]) = 0) /\ Len(forwarded) = 0
    BY DEF Init
  <1>2. 1 .. 0 = {}
    OBVIOUS
  <1> QED
    BY <1>1, <1>2 DEF OnceInv, Distinct, Held

LEMMA OnceInvariant == Spec => []OnceInv
  <1>1. Init => OnceInv
    BY OnceInit
  <1>2. TypeOK /\ WireInv /\ OnceInv /\ [Next]_vars => OnceInv'
    BY OnceNext
  <1> QED
    BY <1>1, <1>2, TypeCorrect, WireInvariant, PTL DEF Spec

\* Unless the peer sends copies, MeasureAndForward gets no packet twice: for any
\* links, numbers, losses, time-outs and moves of the delivery link, and although
\* InOrderDelivery, ReleaseMinSnPacket, ReleaseInOrderPackets and ReleaseAllPackets
\* take packets out of the same queues.
THEOREM ForwardedOnce == Spec => []NoPacketTwice
  <1>1. TypeOK /\ OnceInv => NoPacketTwice
    <2> SUFFICES ASSUME TypeOK, OnceInv, scenario.mode # "duplicate"
                 PROVE  \A i, j \in DOMAIN forwarded : forwarded[i] = forwarded[j] => i = j
      BY DEF NoPacketTwice
    <2>1. DOMAIN forwarded = 1 .. Len(forwarded)
      BY LenProperties DEF TypeOK
    <2> QED
      BY <2>1 DEF OnceInv, Distinct
  <1> QED
    BY <1>1, TypeCorrect, OnceInvariant, PTL

-----------------------------------------------------------------------------
(***************************************************************************)
(* What the local sequence numbers say.                                    *)
(***************************************************************************)
LEMMA Multiple ==
    ASSUME NEW L \in Nat, NEW m \in Int, - L < L * m, L * m <= 0
    PROVE  L * m = 0
  <1>1. CASE m >= 0
    BY <1>1
  <1>2. CASE m <= -1
    <2>1. L * m <= L * (-1)
      BY <1>2
    <2> QED
      BY <2>1
  <1> QED
    BY <1>1, <1>2

LEMMA Quotient ==
    ASSUME NEW L \in Nat \ {0}, NEW n \in Nat
    PROVE  \E q \in Int : n = (L * q) + (n % L)
  <1>1. n \div L \in Int /\ n = (L * (n \div L)) + (n % L)
    OBVIOUS
  <1> QED
    BY <1>1

\* The numbers that InOrderDelivery compares when it finds that lost = gap: a and b are
\* SNs, ka and kb the counts of the link's packets before them.
LostIsGap(L, lsn, last, a, b, ka, kb) ==
    /\ L \in Nat \ {0} /\ lsn \in 0 .. L - 1 /\ last \in 0 .. L - 1
    /\ a \in Nat /\ b \in Nat /\ a <= b /\ ka \in Nat /\ kb \in Nat
    /\ ka <= kb /\ kb - ka <= b - a
    /\ lsn = kb % L /\ (last + 1) % L = ka % L
    /\ WrapDiff(lsn, last, L) = (b + 1) - a

\* The difference of two LSNs is that of the SNs only when every number between them
\* was sent over the link.
LEMMA GapArithmetic ==
    ASSUME NEW L, NEW lsn, NEW last, NEW a, NEW b, NEW ka, NEW kb,
           LostIsGap(L, lsn, last, a, b, ka, kb)
    PROVE  kb - ka = b - a
  <1>0. /\ L \in Nat \ {0} /\ lsn \in 0 .. L - 1 /\ last \in 0 .. L - 1
        /\ a \in Nat /\ b \in Nat /\ a <= b /\ ka \in Nat /\ kb \in Nat
        /\ ka <= kb /\ kb - ka <= b - a
        /\ lsn = kb % L /\ (last + 1) % L = ka % L
        /\ WrapDiff(lsn, last, L) = (b + 1) - a
    BY DEF LostIsGap
  <1> USE <1>0
  <1> DEFINE D == (b + 1) - a
  <1>1. D \in Int /\ D >= 1
    OBVIOUS
  <1>2. D < L + 1 /\ (D = lsn - last \/ D = (lsn - last) + L)
    BY <1>1 DEF WrapDiff
  <1>3. PICK q \in Int : kb = (L * q) + lsn
    BY Quotient
  <1>4. PICK p \in Int : ka = (L * p) + (ka % L)
    BY Quotient
  <1>5. (last + 1) % L = IF last = L - 1 THEN 0 ELSE last + 1
    OBVIOUS
  <1>6. ka % L = last + 1 \/ ka % L = (last + 1) - L
    BY <1>5
  <1>7. \E m \in Int : kb - ka = (L * m) + (D - 1)
    <2>1. PICK z : z = ka % L
      OBVIOUS
    <2>2. PICK x, y : x = L * q /\ y = L * p /\ x \in Int /\ y \in Int
      OBVIOUS
    <2>3. /\ L * (q - p) = x - y
          /\ L * ((q - p) + 1) = (x - y) + L
          /\ L * ((q - p) - 1) = (x - y) - L
      BY <2>2
    <2>4. (kb - ka) = (x - y) + (lsn - z) 
      BY <1>3, <1>4, <2>1, <2>2
    <2>5. \/ kb - ka = (x - y) + (D - 1)
          \/ kb - ka = ((x - y) + L) + (D - 1)
          \/ kb - ka = ((x - y) - L) + (D - 1)
      BY <1>2, <1>6, <2>1, <2>2, <2>4
    <2>6. q - p \in Int /\ (q - p) + 1 \in Int /\ (q - p) - 1 \in Int
      OBVIOUS
    <2>7. CASE kb - ka = (x - y) + (D - 1)
      BY <2>3, <2>6, <2>7
    <2>8. CASE kb - ka = ((x - y) + L) + (D - 1)
      BY <2>3, <2>6, <2>8
    <2>9. CASE kb - ka = ((x - y) - L) + (D - 1)
      BY <2>3, <2>6, <2>9
    <2> QED
      BY <2>5, <2>7, <2>8, <2>9
  <1>8. PICK m \in Int : kb - ka = (L * m) + (D - 1)
    BY <1>7
  <1>9. PICK x \in Int : x = L * m
    OBVIOUS
  <1>10. - L < x /\ x <= 0
    BY <1>1, <1>2, <1>8, <1>9
  <1>11. x = 0
    BY <1>9, <1>10, Multiple
  <1> QED
    BY <1>8, <1>9, <1>11

First == scenario.firstSn
LsnSize == MAX_GMA_LSN + 1

\* The numbers of the flow do not reach the half of the number space, so that SnDiff
\* is a difference and MAX_GMA_SN only a mark.
Unwrapped == 2 * (scenario.firstSn + scenario.maxPackets) <= MAX_GMA_SN

\* The number after the last one of a link.
Pos(last) == IF last.sn = MAX_GMA_SN THEN 0 ELSE last.sn + 1

\* k[c][n] is how many of the numbers below n were sent over c.
Counts == [Links -> [Nat -> Nat]]

CountOK(k, n) ==
    /\ \A c \in Links : \A a \in 0 .. n : \A b \in 0 .. n : a <= b =>
          k[c][a] <= k[c][b] /\ k[c][b] - k[c][a] <= b - a
    /\ \A c \in Links : \A d \in Links \ {c} : \A a \in 0 .. (n - 1) :
          ~ (k[c][a] < k[c][a + 1] /\ k[d][a] < k[d][a + 1])

TxOK(tx, k, n) == \A c \in Links : tx[c] = k[c][n] % LsnSize

LastOK(last, k, n) ==
    \A c \in Links : /\ Pos(last[c]) <= n
                     /\ (last[c].lsn + 1) % LsnSize = k[c][Pos(last[c])] % LsnSize

\* What is in flight over a link was sent over it, after what was received.
FlightOK(w, k, last) ==
    \A c \in Links : \A i \in 1 .. Len(w[c]) : IsData(w[c][i]) =>
       /\ w[c][i].lsn = k[c][First + w[c][i].id] % LsnSize
       /\ k[c][First + w[c][i].id] < k[c][First + w[c][i].id + 1]
       /\ Pos(last[c]) <= First + w[c][i].id

\* What is queued for a link was sent over it.
ItemsOK(q, k) ==
    \A c \in Links : \A i \in 1 .. Len(q[c]) :
       /\ q[c][i].sn = First + q[c][i].id
       /\ k[c][First + q[c][i].id] < k[c][First + q[c][i].id + 1]

NumberedOK(k) ==
    /\ CountOK(k, First + sent)
    /\ TxOK(m_gmaTxLocalSn, k, First + sent)
    /\ LastOK(m_gmaRxLast, k, First + sent)
    /\ FlightOK(wire, k, m_gmaRxLast)
    /\ ItemsOK(m_reorderingQueue, k)

\* The LSNs count what was sent over each link.
NumberedInv ==
    (Unwrapped /\ scenario.mode # "duplicate") => \E k \in Counts : NumberedOK(k)

LEMMA PlainNumbers ==
    ASSUME TypeOK, Unwrapped
    PROVE  /\ First \in Nat /\ sent \in Nat /\ scenario.maxPackets \in Nat
           /\ MAX_GMA_SN \in Nat /\ LsnSize \in Nat \ {0} /\ MAX_GMA_LSN \in Nat
           /\ sent <= scenario.maxPackets
           /\ \A id \in Nat : id < sent => SnOf(id) = First + id /\ First + id < MAX_GMA_SN
           /\ sent < scenario.maxPackets => SnOf(sent) = First + sent
           /\ 2 * (First + sent) <= MAX_GMA_SN
  <1>1. /\ First \in Nat /\ sent \in Nat /\ scenario.maxPackets \in Nat
        /\ MAX_GMA_SN \in Nat /\ MAX_GMA_LSN \in Nat /\ LsnSize \in Nat \ {0}
        /\ sent <= scenario.maxPackets
    BY DefaultCidIsLink, ReorderAssumption DEF TypeOK, First, LsnSize
  <1>2. 2 * (First + scenario.maxPackets) <= MAX_GMA_SN
    BY DEF Unwrapped, First
  <1>3. \A id \in Nat : id < scenario.maxPackets =>
           SnOf(id) = First + id /\ First + id < MAX_GMA_SN
    <2> SUFFICES ASSUME NEW id \in Nat, id < scenario.maxPackets
                 PROVE  SnOf(id) = First + id /\ First + id < MAX_GMA_SN
      OBVIOUS
    <2>1. First + id \in 0 .. MAX_GMA_SN /\ First + id < MAX_GMA_SN
      BY <1>1, <1>2
    <2>2. \A n \in 0 .. MAX_GMA_SN : n % (MAX_GMA_SN + 1) = n
      BY <1>1
    <2> QED
      BY <2>1, <2>2 DEF SnOf, First
  <1> QED
    BY <1>1, <1>2, <1>3

LEMMA ModNext ==
    ASSUME NEW L \in Nat \ {0}, NEW x \in Nat
    PROVE  ((x % L) + 1) % L = (x + 1) % L
  <1>1. x % L \in 0 .. L - 1 /\ (x + 1) % L \in 0 .. L - 1 /\ ((x % L) + 1) % L \in 0 .. L - 1
    OBVIOUS
  <1>2. PICK q \in Int : x = (L * q) + (x % L)
    BY Quotient
  <1>3. PICK p \in Int : x + 1 = (L * p) + ((x + 1) % L)
    <2>1. PICK n \in Nat : n = x + 1
      OBVIOUS
    <2>2. \E p \in Int : n = (L * p) + (n % L)
      BY Quotient
    <2> QED
      BY <2>1, <2>2
  <1>4. PICK y, z : y = x % L /\ z = (x + 1) % L
    OBVIOUS
  <1>5. (y + 1) % L = IF y = L - 1 THEN 0 ELSE y + 1
    BY <1>1, <1>4
  <1>6. PICK d \in Int : d = p - q
    OBVIOUS
  <1>7. L * d = (L * p) - (L * q)
    BY <1>6
  <1>8. PICK e \in Int : e = L * d
    OBVIOUS
  <1>9. e = (y + 1) - z /\ y \in 0 .. L - 1 /\ z \in 0 .. L - 1
    BY <1>1, <1>2, <1>3, <1>4, <1>7, <1>8
  <1>10. e = 0 \/ e = L
    <2>1. CASE d >= 2
      <3>1. L * d >= L * 2
        BY <2>1
      <3> QED
        BY <1>8, <1>9, <3>1
    <2>2. CASE d <= -1
      <3>1. L * d <= L * (-1)
        BY <2>2
      <3> QED
        BY <1>8, <1>9, <3>1
    <2>3. CASE d = 0 \/ d = 1
      BY <1>8, <2>3
    <2> QED
      BY <2>1, <2>2, <2>3
  <1>11. z = IF y = L - 1 THEN 0 ELSE y + 1
    BY <1>9, <1>10
  <1> QED
    BY <1>4, <1>5, <1>11

LEMMA CountExtends ==
    ASSUME NEW k \in Counts, NEW n \in Nat, CountOK(k, n), NEW c \in Links
    PROVE  \E j \in Counts :
              /\ CountOK(j, n + 1)
              /\ \A d \in Links : \A a \in 0 .. n : j[d][a] = k[d][a]
              /\ \A d \in Links : j[d][n + 1] = IF d = c THEN k[d][n] + 1 ELSE k[d][n]
  <1> DEFINE x(d) == IF d = c THEN k[d][n] + 1 ELSE k[d][n]
  <1> DEFINE j == [d \in Links |-> [a \in Nat |-> IF a = n + 1 THEN x(d) ELSE k[d][a]]]
  <1>1. \A d \in Links : \A a \in Nat : k[d][a] \in Nat
    BY DEF Counts
  <1>2. \A d \in Links : x(d) \in Nat
    BY <1>1
  <1>3. j \in Counts
    BY <1>1, <1>2 DEF Counts
  <1>4. \A d \in Links : \A a \in 0 .. n : j[d][a] = k[d][a]
    OBVIOUS
  <1>5. \A d \in Links : j[d][n + 1] = IF d = c THEN k[d][n] + 1 ELSE k[d][n]
    OBVIOUS
  <1> HIDE DEF j, x
  <1>6. CountOK(j, n + 1)
    <2>1. ASSUME NEW d \in Links, NEW a \in 0 .. (n + 1), NEW b \in 0 .. (n + 1), a <= b
          PROVE  j[d][a] <= j[d][b] /\ j[d][b] - j[d][a] <= b - a
      <3>1. CASE b \in 0 .. n
        <4>1. a \in 0 .. n
          BY <2>1, <3>1
        <4> QED
          BY <1>4, <2>1, <3>1, <4>1 DEF CountOK
      <3>2. CASE b = n + 1 /\ a \in 0 .. n
        <4>1. n \in 0 .. n /\ a <= n
          BY <3>2
        <4>2. k[d][a] <= k[d][n] /\ k[d][n] - k[d][a] <= n - a
          BY <3>2, <4>1 DEF CountOK
        <4>3. j[d][a] = k[d][a] /\ (j[d][b] = k[d][n] \/ j[d][b] = k[d][n] + 1)
          BY <1>4, <1>5, <3>2
        <4>4. k[d][a] \in Nat /\ k[d][n] \in Nat
          BY <1>1, <3>2
        <4> QED
          BY <3>2, <4>2, <4>3, <4>4
      <3>3. CASE b = n + 1 /\ a = n + 1
        <4>1. j[d][b] \in Nat
          BY <1>3, <3>3 DEF Counts
        <4> QED
          BY <3>3, <4>1
      <3> QED
        BY <2>1, <3>1, <3>2, <3>3
    <2>2. ASSUME NEW d \in Links, NEW e \in Links \ {d}, NEW a \in 0 .. ((n + 1) - 1),
                 j[d][a] < j[d][a + 1], j[e][a] < j[e][a + 1]
          PROVE  FALSE
      <3>1. CASE a < n
        <4>1. a \in 0 .. n /\ a + 1 \in 0 .. n /\ a \in 0 .. (n - 1)
          BY <3>1
        <4>2. k[d][a] < k[d][a + 1] /\ k[e][a] < k[e][a + 1]
          BY <1>4, <2>2, <4>1
        <4> QED
          BY <4>1, <4>2 DEF CountOK
      <3>2. CASE a = n
        <4>1. n \in 0 .. n /\ k[d][n] \in Nat /\ k[e][n] \in Nat
          BY <1>1
        <4>2. j[d][n] = k[d][n] /\ j[e][n] = k[e][n]
          BY <1>4, <4>1
        <4>3. d = c /\ e = c
          BY <1>5, <2>2, <3>2, <4>1, <4>2
        <4> QED
          BY <4>3
      <3> QED
        BY <3>1, <3>2
    <2> QED
      BY <2>1, <2>2 DEF CountOK
  <1> QED
    BY <1>3, <1>4, <1>5, <1>6

LEMMA NumberedInit == Init => NumberedInv
  <1> SUFFICES ASSUME Init, Unwrapped PROVE \E k \in Counts : NumberedOK(k)
    BY DEF NumberedInv
  <1>0. TypeOK
    BY InitType
  <1>1. /\ First \in Nat /\ sent = 0 /\ MAX_GMA_SN \in Nat /\ LsnSize \in Nat \ {0}
        /\ MAX_GMA_LSN \in Nat /\ 2 * First <= MAX_GMA_SN
    BY <1>0, PlainNumbers DEF Init
  <1>2. First + sent = First
    BY <1>1
  <1> DEFINE k == [c \in Links |-> [n \in Nat |-> IF c = DefaultCid THEN n ELSE 0]]
  <1>3. k \in Counts
    BY DEF Counts
  <1>4. \A c \in Links : \A n \in Nat : k[c][n] = IF c = DefaultCid THEN n ELSE 0
    OBVIOUS
  <1> HIDE DEF k
  <1>5. CountOK(k, First)
    <2>1. ASSUME NEW c \in Links, NEW a \in 0 .. First, NEW b \in 0 .. First, a <= b
          PROVE  k[c][a] <= k[c][b] /\ k[c][b] - k[c][a] <= b - a
      <3>1. a \in Nat /\ b \in Nat
        BY <1>1
      <3>2. /\ k[c][a] = IF c = DefaultCid THEN a ELSE 0
            /\ k[c][b] = IF c = DefaultCid THEN b ELSE 0
        BY <1>4, <3>1
      <3> QED
        BY <2>1, <3>1, <3>2
    <2>2. ASSUME NEW c \in Links, NEW d \in Links \ {c}, NEW a \in 0 .. (First - 1),
                 k[c][a] < k[c][a + 1], k[d][a] < k[d][a + 1]
          PROVE  FALSE
      <3>1. a \in Nat /\ a + 1 \in Nat
        BY <1>1
      <3>2. c = DefaultCid /\ d = DefaultCid
        BY <1>4, <2>2, <3>1
      <3> QED
        BY <3>2
    <2> QED
      BY <2>1, <2>2 DEF CountOK
  <1>6. \A n \in Nat : n < LsnSize => n % LsnSize = n
    BY <1>1
  <1>7. 0 % LsnSize = 0 /\ (MAX_GMA_LSN + 1) % LsnSize = 0
    BY <1>1 DEF LsnSize
  <1>8. TxOK(m_gmaTxLocalSn, k, First)
    <2>1. \A c \in Links : m_gmaTxLocalSn[c] = IF c = DefaultCid THEN First % LsnSize ELSE 0
      BY DEF Init, First, LsnSize
    <2>2. \A c \in Links : k[c][First] = IF c = DefaultCid THEN First ELSE 0
      BY <1>1, <1>4
    <2> QED
      BY <1>7, <2>1, <2>2 DEF TxOK
  <1>9. LastOK(m_gmaRxLast, k, First)
    <2> SUFFICES ASSUME NEW c \in Links
                 PROVE  /\ Pos(m_gmaRxLast[c]) <= First
                        /\ (m_gmaRxLast[c].lsn + 1) % LsnSize
                              = k[c][Pos(m_gmaRxLast[c])] % LsnSize
      BY DEF LastOK
    <2>1. CASE First > 0 /\ c = DefaultCid
      <3>1. m_gmaRxLast[c] = [sn |-> First - 1, lsn |-> (First - 1) % LsnSize]
        BY <2>1 DEF Init, First, LsnSize
      <3>2. Pos(m_gmaRxLast[c]) = First
        BY <1>1, <2>1, <3>1 DEF Pos
      <3>3. k[c][First] = First
        BY <1>1, <1>4, <2>1
      <3>4. First - 1 \in Nat /\ (First - 1) + 1 = First
        BY <1>1, <2>1
      <3>5. (((First - 1) % LsnSize) + 1) % LsnSize = First % LsnSize
        BY <1>1, <3>4, ModNext
      <3> QED
        BY <1>1, <3>1, <3>2, <3>3, <3>5
    <2>2. CASE ~ (First > 0 /\ c = DefaultCid)
      <3>1. m_gmaRxLast[c] = [sn |-> MAX_GMA_SN, lsn |-> MAX_GMA_LSN]
        BY <2>2 DEF Init, First
      <3>2. Pos(m_gmaRxLast[c]) = 0
        BY <3>1 DEF Pos
      <3>3. k[c][0] = 0
        BY <1>4
      <3> QED
        BY <1>1, <1>7, <3>1, <3>2, <3>3
    <2> QED
      BY <2>1, <2>2
  <1>10. FlightOK(wire, k, m_gmaRxLast) /\ ItemsOK(m_reorderingQueue, k)
    <2>1. \A c \in Links : Len(wire[c]) = 0 /\ Len(m_reorderingQueue[c]) = 0
      BY DEF Init
    <2>2. 1 .. 0 = {}
      OBVIOUS
    <2> QED
      BY <2>1, <2>2 DEF FlightOK, ItemsOK
  <1> QED
    BY <1>2, <1>3, <1>5, <1>8, <1>9, <1>10 DEF NumberedOK

\* A step other than the arrival of a data packet forwards heads of queues only, and
\* leaves alone what was received last.
LEMMA OtherSteps ==
    ASSUME TypeOK, Next, NEW G \in SUBSET Receivers, Movable(G),
           \A x \in Nat : Receiver(x) \in G
    PROVE  \/ \E cid \in scenario.links : ReceiveData(cid)
           \/ /\ UNCHANGED m_gmaRxLast
              /\ \/ UNCHANGED <<m_reorderingQueue, forwarded>>
                 \/ \E s \in G : Becomes(s)
  <1>1. scenario.links \subseteq Links
    BY DefaultCidIsLink DEF TypeOK
  <1>2. ASSUME NEW cid \in scenario.links, ReceiveEndMarker(cid)
        PROVE  UNCHANGED m_gmaRxLast /\ \E s \in G : Becomes(s)
    <2>1. PICK r \in G : r = Receiver(0)
      OBVIOUS
    <2>2. PICK s \in Receivers :
             /\ Becomes(s)
             /\ s = r \/ s = [r EXCEPT !.newLink = NoCid] \/ s = StopReordering(r)
      BY <1>1, <1>2, <2>1, EndMarkerCases
    <2>3. CASE s = [r EXCEPT !.newLink = NoCid]
      <3>1. SameContents(s, r)
        BY <2>3 DEF SameContents, Receivers
      <3> QED
        BY <1>2, <2>2, <3>1 DEF Movable, ReceiveEndMarker
    <2>4. CASE s = StopReordering(r)
      BY <1>2, <2>2, <2>4, MovableKeepsAll DEF ReceiveEndMarker
    <2> QED
      BY <1>2, <2>2, <2>3, <2>4 DEF ReceiveEndMarker
  <1>3. ASSUME NEW x \in Expirations, ReorderingTimeout(x)
        PROVE  UNCHANGED m_gmaRxLast /\ \E s \in G : Becomes(s)
    <2>1. PICK r \in G : r = Receiver(x)
      BY ExpirationsAreNumbers
    <2>2. Becomes(ReleaseInOrderPackets(r))
      BY <1>3, <2>1, TimeoutCases
    <2> QED
      BY <1>3, <2>2, ClosedKeeps, MovableIsClosed DEF ReorderingTimeout
  <1>4. ASSUME StopReorderTimeout PROVE UNCHANGED m_gmaRxLast /\ \E s \in G : Becomes(s)
    <2>1. PICK r \in G : r = Receiver(0)
      OBVIOUS
    <2>2. PICK q \in Receivers, s \in Receivers :
             q = [r EXCEPT !.stop = FALSE] /\ s = StopReordering(q) /\ Becomes(s)
      BY <1>4, <2>1, TimeoutCases
    <2>3. SameContents(q, r)
      BY <2>2 DEF SameContents, Receivers
    <2>4. q \in G
      BY <2>3 DEF Movable
    <2> QED
      BY <1>4, <2>2, <2>4, MovableKeepsAll DEF StopReorderTimeout
  <1>5. ASSUME NEW cids \in SUBSET Links, Transmit(cids)
        PROVE  UNCHANGED <<m_gmaRxLast, m_reorderingQueue, forwarded>>
    BY <1>5 DEF Transmit, rxVars
  <1>6. ASSUME NEW cid \in scenario.links, Steer(cid) \/ Lose(cid) \/ LinkChanges(cid)
        PROVE  UNCHANGED <<m_gmaRxLast, m_reorderingQueue, forwarded>>
    BY <1>6 DEF Steer, Lose, LinkChanges, rxVars
  <1>7. ASSUME SendTsu PROVE UNCHANGED <<m_gmaRxLast, m_reorderingQueue, forwarded>>
    BY <1>7 DEF SendTsu
  <1> QED
    BY <1>2, <1>3, <1>4, <1>5, <1>6, <1>7 DEF Next, Step

\* The arrival of a data packet.
LEMMA ReceiveStays ==
    ASSUME TypeOK, NEW cid \in Links, ReceiveData(cid), NEW G \in SUBSET Receivers, Closed(G),
           NEW pkt \in DataPackets, pkt = Head(wire[cid]),
           \A r \in Receivers : (r.queue = m_reorderingQueue /\ r.out = forwarded) =>
              /\ r \in G /\ Delivered(r, pkt) \in G
              /\ \A lost \in BOOLEAN : Queued(r, pkt, cid, lost) \in G
    PROVE  /\ \E s \in G : Becomes(s)
           /\ \/ UNCHANGED m_gmaRxLast
              \/ m_gmaRxLast' = [m_gmaRxLast EXCEPT ![cid] = [sn |-> pkt.sn, lsn |-> pkt.lsn]]
  <1>1. PICK x \in Expirations : \E r \in Receivers :
           /\ r = OnArrival(Receiver(x), cid)
           /\ \/ r.on /\ InOrderDelivery(r, pkt, cid)
              \/ /\ ~ r.on /\ Becomes(Delivered(r, pkt))
                 /\ UNCHANGED <<m_gmaRxLast, m_reorderingTimeoutEvent, discarded>>
    BY ReceiveDataCases
  <1>2. PICK r \in Receivers :
           /\ r = OnArrival(Receiver(x), cid)
           /\ \/ InOrderDelivery(r, pkt, cid)
              \/ Becomes(Delivered(r, pkt)) /\ UNCHANGED m_gmaRxLast
    BY <1>1
  <1>3. PICK p \in Receivers : /\ p = Receiver(x) /\ p.queue = m_reorderingQueue
                               /\ p.out = forwarded
    BY ExpirationsAreNumbers, ReceiverIsReceiver
  <1>4. r.queue = m_reorderingQueue /\ r.out = forwarded
    BY <1>2, <1>3, OnArrivalFacts DEF SameContents
  <1>5. PICK lost \in BOOLEAN : lost = GapIsLost(pkt, cid)
    BY DEF GapIsLost
  <1>6. r \in G /\ Delivered(r, pkt) \in G /\ Queued(r, pkt, cid, lost) \in G
    BY <1>4
  <1>7. CASE InOrderDelivery(r, pkt, cid)
    <2>1. Accepts(G, r, pkt, cid, GapIsLost(pkt, cid))
      BY <1>5, <1>6 DEF Accepts
    <2>2. (\E s \in G : Becomes(s)) \/ Becomes(r)
      BY <1>7, <2>1, ArrivalStays
    <2> QED
      BY <1>6, <1>7, <2>2 DEF InOrderDelivery
  <1> QED
    BY <1>2, <1>6, <1>7

LEMMA PopItems ==
    ASSUME NEW r \in Receivers, NEW s \in Receivers, NEW cid \in Links,
           r.queue[cid] # << >>, IsPop(s, r, cid), NEW c \in Links, NEW i \in 1 .. Len(s.queue[c])
    PROVE  \/ c # cid /\ i \in 1 .. Len(r.queue[c]) /\ s.queue[c][i] = r.queue[c][i]
           \/ c = cid /\ i + 1 \in 1 .. Len(r.queue[c]) /\ s.queue[c][i] = r.queue[c][i + 1]
  BY QueueTypes DEF IsPop

LEMMA QueuedItems ==
    ASSUME NEW r \in Receivers, NEW s \in Receivers, NEW cid \in Links, NEW pkt, NEW lost,
           IsQueued(s, r, pkt, cid, lost), NEW c \in Links, NEW i \in 1 .. Len(s.queue[c])
    PROVE  \/ i \in 1 .. Len(r.queue[c]) /\ s.queue[c][i] = r.queue[c][i]
           \/ /\ c = cid /\ i = Len(r.queue[cid]) + 1 /\ i = Len(s.queue[cid])
              /\ s.queue[c][i] = [sn |-> pkt.sn, id |-> pkt.id, inOrder |-> lost]
  <1>1. Len(r.queue[cid]) \in Nat /\ Len(s.queue[cid]) = Len(r.queue[cid]) + 1
    BY QueueTypes DEF IsQueued
  <1>2. CASE c # cid
    BY <1>2 DEF IsQueued
  <1>3. CASE c = cid /\ i \in 1 .. Len(r.queue[cid])
    BY <1>3 DEF IsQueued
  <1>4. CASE c = cid /\ i = Len(r.queue[cid]) + 1
    BY <1>1, <1>4 DEF IsQueued
  <1> QED
    BY <1>1, <1>2, <1>3, <1>4

Tracked(k) == {s \in Receivers : ItemsOK(s.queue, k)}

LEMMA TrackedIsMovable ==
    ASSUME NEW k
    PROVE  Tracked(k) \in SUBSET Receivers /\ Movable(Tracked(k)) /\ Closed(Tracked(k))
  <1>1. Tracked(k) \in SUBSET Receivers
    BY DEF Tracked
  <1>2. ASSUME NEW r \in Tracked(k), NEW s \in Receivers, NEW cid \in Links,
               r.queue[cid] # << >>, IsPop(s, r, cid)
        PROVE  s \in Tracked(k)
    <2>1. r \in Receivers /\ ItemsOK(r.queue, k)
      BY DEF Tracked
    <2>2. \A c \in Links : \A i \in 1 .. Len(s.queue[c]) :
             \E j \in 1 .. Len(r.queue[c]) : s.queue[c][i] = r.queue[c][j]
      <3> SUFFICES ASSUME NEW c \in Links, NEW i \in 1 .. Len(s.queue[c])
                   PROVE  \E j \in 1 .. Len(r.queue[c]) : s.queue[c][i] = r.queue[c][j]
        OBVIOUS
      <3>1. \/ i \in 1 .. Len(r.queue[c]) /\ s.queue[c][i] = r.queue[c][i]
            \/ i + 1 \in 1 .. Len(r.queue[c]) /\ s.queue[c][i] = r.queue[c][i + 1]
        BY <1>2, <2>1, PopItems
      <3> QED
        BY <3>1
    <2>3. ItemsOK(s.queue, k)
      <3> SUFFICES ASSUME NEW c \in Links, NEW i \in 1 .. Len(s.queue[c])
                   PROVE  /\ s.queue[c][i].sn = First + s.queue[c][i].id
                          /\ k[c][First + s.queue[c][i].id] < k[c][First + s.queue[c][i].id + 1]
        BY DEF ItemsOK
      <3>1. PICK j \in 1 .. Len(r.queue[c]) : s.queue[c][i] = r.queue[c][j]
        BY <2>2
      <3> QED
        BY <2>1, <3>1 DEF ItemsOK
    <2> QED
      BY <2>3 DEF Tracked
  <1>3. Movable(Tracked(k))
    <2>1. \A s \in Tracked(k) : \A t \in Receivers : SameContents(t, s) => t \in Tracked(k)
      BY DEF Tracked, SameContents
    <2> QED
      BY <1>2, <2>1 DEF Movable
  <1> QED
    BY <1>1, <1>3, MovableIsClosed

LEMMA TrackedArrival ==
    ASSUME NEW k, NEW r \in Tracked(k), NEW pkt \in DataPackets, NEW cid \in Links,
           pkt.sn = First + pkt.id, k[cid][First + pkt.id] < k[cid][First + pkt.id + 1],
           NEW lost \in BOOLEAN
    PROVE  Delivered(r, pkt) \in Tracked(k) /\ Queued(r, pkt, cid, lost) \in Tracked(k)
  <1>0. r \in Receivers /\ ItemsOK(r.queue, k)
    BY DEF Tracked
  <1>1. Delivered(r, pkt) \in Tracked(k)
    BY <1>0, DeliveredIsDelivered DEF IsDelivered, Tracked
  <1>2. PICK s : s = Queued(r, pkt, cid, lost) /\ IsQueued(s, r, pkt, cid, lost)
    BY <1>0, QueuedIsQueued
  <1>3. s \in Receivers
    BY <1>2 DEF IsQueued
  <1>4. ASSUME NEW c \in Links, NEW i \in 1 .. Len(s.queue[c])
        PROVE  /\ s.queue[c][i].sn = First + s.queue[c][i].id
               /\ k[c][First + s.queue[c][i].id] < k[c][First + s.queue[c][i].id + 1]
    <2>1. CASE i \in 1 .. Len(r.queue[c]) /\ s.queue[c][i] = r.queue[c][i]
      BY <1>0, <2>1 DEF ItemsOK
    <2>2. CASE c = cid /\ s.queue[c][i] = [sn |-> pkt.sn, id |-> pkt.id, inOrder |-> lost]
      BY <2>2
    <2> QED
      BY <1>0, <1>2, <1>3, <2>1, <2>2, QueuedItems
  <1> QED
    BY <1>1, <1>2, <1>3, <1>4 DEF Tracked, ItemsOK

LEMMA TailWithin ==
    ASSUME NEW w \in Wires, NEW v \in Wires, NEW d \in Links,
           \A c \in Links : c # d => v[c] = w[c], Shifts(v, w, d)
    PROVE  Within(v, w)
  <1> SUFFICES ASSUME NEW c \in Links, NEW i \in 1 .. Len(v[c])
               PROVE  \E j \in 1 .. Len(w[c]) : v[c][i] = w[c][j]
    BY DEF Within
  <1>1. CASE c # d
    BY <1>1
  <1>2. CASE c = d
    <2>1. Len(w[d]) \in Nat /\ i + 1 \in 2 .. Len(w[d]) /\ v[d][i] = w[d][i + 1]
      BY <1>2, ShiftsCases, WireTypes
    <2>2. i + 1 \in 1 .. Len(w[d])
      BY <2>1
    <2> QED
      BY <1>2, <2>1, <2>2
  <1> QED
    BY <1>1, <1>2

LEMMA FlightWithin ==
    ASSUME NEW v, NEW w, Within(v, w), NEW k, NEW last, FlightOK(w, k, last)
    PROVE  FlightOK(v, k, last)
  <1> SUFFICES ASSUME NEW c \in Links, NEW i \in 1 .. Len(v[c]), IsData(v[c][i])
               PROVE  /\ v[c][i].lsn = k[c][First + v[c][i].id] % LsnSize
                      /\ k[c][First + v[c][i].id] < k[c][First + v[c][i].id + 1]
                      /\ Pos(last[c]) <= First + v[c][i].id
    BY DEF FlightOK
  <1>1. PICK j \in 1 .. Len(w[c]) : v[c][i] = w[c][j]
    BY DEF Within
  <1> QED
    BY <1>1 DEF FlightOK

\* A step other than Transmit leaves m_gmaTxLocalSn alone, and adds nothing to what is
\* in flight.
LEMMA WithinCases ==
    ASSUME TypeOK, Next, ~ \E cids \in SUBSET Links : Transmit(cids)
    PROVE  sent' = sent /\ m_gmaTxLocalSn' = m_gmaTxLocalSn /\ Within(wire', wire)
  <1>0. wire \in Wires
    BY DEF TypeOK, Wires, Packets
  <1>1. m_gmaTxLocalSn' = m_gmaTxLocalSn
    <2>1. ASSUME NEW cid \in scenario.links,
                 Steer(cid) \/ Lose(cid) \/ ReceiveData(cid) \/ ReceiveEndMarker(cid)
                 \/ LinkChanges(cid)
          PROVE  m_gmaTxLocalSn' = m_gmaTxLocalSn
      BY <2>1 DEF Steer, Lose, ReceiveData, ReceiveEndMarker, LinkChanges, txVars
    <2>2. ASSUME NEW x \in Expirations, ReorderingTimeout(x)
          PROVE  m_gmaTxLocalSn' = m_gmaTxLocalSn
      BY <2>2 DEF ReorderingTimeout, txVars
    <2>3. ASSUME StopReorderTimeout \/ SendTsu PROVE m_gmaTxLocalSn' = m_gmaTxLocalSn
      BY <2>3 DEF StopReorderTimeout, SendTsu, txVars
    <2> QED
      BY <2>1, <2>2, <2>3 DEF Next, Step
  <1>2. CASE UNCHANGED <<wire, sent>>
    BY <1>1, <1>2 DEF Within
  <1>3. ASSUME NEW cid \in scenario.links, Steer(cid)
        PROVE  sent' = sent /\ Within(wire', wire)
    <2>1. PICK d, p : d = deliveryLink /\ p = [type |-> "end"]
      OBVIOUS
    <2>2. /\ wire' \in Wires /\ d \in Links /\ Grows(wire', wire, d, p)
          /\ \A c \in Links : c # d => wire'[c] = wire[c]
      BY <1>3, <2>1, WireSteer
    <2>3. ~ IsData(p) /\ sent' = sent
      BY <1>3, <2>1 DEF IsData, Steer
    <2>4. Within(wire', wire)
      BY <1>0, <2>2, <2>3, GrowsCases DEF Within
    <2> QED
      BY <2>3, <2>4
  <1>4. ASSUME NEW cid \in scenario.links, cid \in Links, wire[cid] # << >>,
               wire' = [wire EXCEPT ![cid] = Tail(@)], sent' = sent
        PROVE  Within(wire', wire)
    <2>1. PICK v \in Wires : v = wire'
      BY <1>4, WireTail
    <2>2. Shifts(v, wire, cid) /\ \A c \in Links : c # cid => v[c] = wire[c]
      BY <1>4, <2>1, WireTail
    <2>3. Within(v, wire)
      BY <1>0, <1>4, <2>2, TailWithin
    <2> QED
      BY <2>1, <2>3
  <1> QED
    BY <1>1, <1>2, <1>3, <1>4, WireCases

LEMMA NumberedTransmit ==
    ASSUME TypeOK, WireInv, OnceInv, Unwrapped, scenario.mode # "duplicate",
           NEW k \in Counts, NumberedOK(k), NEW cids \in SUBSET Links, Transmit(cids)
    PROVE  \E j \in Counts : /\ CountOK(j, First + sent')
                             /\ TxOK(m_gmaTxLocalSn', j, First + sent')
                             /\ LastOK(m_gmaRxLast, j, First + sent')
                             /\ FlightOK(wire', j, m_gmaRxLast)
                             /\ ItemsOK(m_reorderingQueue, j)
  <1> DEFINE N == First + sent
  <1>0. /\ First \in Nat /\ sent \in Nat /\ LsnSize \in Nat \ {0} /\ sent < scenario.maxPackets
        /\ N \in Nat /\ sent' = sent + 1 /\ First + sent' = N + 1
    BY PlainNumbers DEF Transmit
  <1>1. PICK c \in Links : cids = {c}
    BY WireTransmit, DefaultCidIsLink DEF TypeOK
  <1>2. /\ CountOK(k, N) /\ TxOK(m_gmaTxLocalSn, k, N) /\ LastOK(m_gmaRxLast, k, N)
        /\ FlightOK(wire, k, m_gmaRxLast) /\ ItemsOK(m_reorderingQueue, k)
    BY DEF NumberedOK
  <1> HIDE DEF N
  <1>3. PICK j \in Counts : /\ CountOK(j, N + 1)
                            /\ \A d \in Links : \A a \in 0 .. N : j[d][a] = k[d][a]
                            /\ \A d \in Links : j[d][N + 1] =
                                  IF d = c THEN k[d][N] + 1 ELSE k[d][N]
    BY <1>0, <1>2, CountExtends
  <1>4. \A d \in Links : \A a \in Nat : k[d][a] \in Nat /\ j[d][a] \in Nat
    BY DEF Counts
  <1>5. TxOK(m_gmaTxLocalSn', j, N + 1)
    <2>1. \A d \in Links : m_gmaTxLocalSn'[d] =
             IF d = c THEN (m_gmaTxLocalSn[d] + 1) % LsnSize ELSE m_gmaTxLocalSn[d]
      BY <1>1 DEF Transmit, LsnSize
    <2> SUFFICES ASSUME NEW d \in Links PROVE m_gmaTxLocalSn'[d] = j[d][N + 1] % LsnSize
      BY DEF TxOK
    <2>2. m_gmaTxLocalSn[d] = k[d][N] % LsnSize /\ k[d][N] \in Nat
      BY <1>0, <1>2, <1>4 DEF TxOK
    <2>3. ((k[d][N] % LsnSize) + 1) % LsnSize = (k[d][N] + 1) % LsnSize
      BY <1>0, <2>2, ModNext
    <2> QED
      BY <1>3, <2>1, <2>2, <2>3
  <1>6. LastOK(m_gmaRxLast, j, N + 1)
    <2> SUFFICES ASSUME NEW d \in Links
                 PROVE  /\ Pos(m_gmaRxLast[d]) <= N + 1
                        /\ (m_gmaRxLast[d].lsn + 1) % LsnSize
                              = j[d][Pos(m_gmaRxLast[d])] % LsnSize
      BY DEF LastOK
    <2>1. Pos(m_gmaRxLast[d]) \in Nat
      <3>1. m_gmaRxLast[d].sn \in Nat
        BY DEF TypeOK, Sns
      <3> QED
        BY <3>1 DEF Pos
    <2>2. Pos(m_gmaRxLast[d]) <= N
      BY <1>2 DEF LastOK
    <2>3. Pos(m_gmaRxLast[d]) \in 0 .. N
      BY <1>0, <2>1, <2>2
    <2> QED
      BY <1>0, <1>2, <1>3, <2>1, <2>2, <2>3 DEF LastOK
  <1>7. ItemsOK(m_reorderingQueue, j)
    <2> SUFFICES ASSUME NEW d \in Links, NEW i \in 1 .. Len(m_reorderingQueue[d])
                 PROVE  LET it == m_reorderingQueue[d][i]
                        IN  /\ it.sn = First + it.id
                            /\ j[d][First + it.id] < j[d][First + it.id + 1]
      BY DEF ItemsOK
    <2> DEFINE it == m_reorderingQueue[d][i]
    <2>1. it.sn = First + it.id /\ k[d][First + it.id] < k[d][First + it.id + 1]
      BY <1>2 DEF ItemsOK
    <2>2. it.id \in Nat /\ it.id < sent
      BY <1>0 DEF OnceInv, Held, Arrived
    <2>3. First + it.id \in 0 .. N /\ First + it.id + 1 \in 0 .. N
      BY <1>0, <2>2 DEF N
    <2> QED
      BY <1>3, <2>1, <2>3
  <1>8. FlightOK(wire', j, m_gmaRxLast)
    <2>0. PICK p : p = [type |-> "data", sn |-> SnOf(sent), lsn |-> m_gmaTxLocalSn[c], id |-> sent]
      OBVIOUS
    <2>1. /\ wire \in Wires /\ wire' \in Wires /\ Grows(wire', wire, c, p)
          /\ \A d \in Links : d # c => wire'[d] = wire[d]
      BY <1>1, <2>0, WireTransmit
    <2> SUFFICES ASSUME NEW d \in Links, NEW i \in 1 .. Len(wire'[d]), IsData(wire'[d][i])
                 PROVE  /\ wire'[d][i].lsn = j[d][First + wire'[d][i].id] % LsnSize
                        /\ j[d][First + wire'[d][i].id] < j[d][First + wire'[d][i].id + 1]
                        /\ Pos(m_gmaRxLast[d]) <= First + wire'[d][i].id
      BY DEF FlightOK
    <2>2. CASE i \in 1 .. Len(wire[d]) /\ wire'[d][i] = wire[d][i]
      <3>1. PICK x : x = wire[d][i]
        OBVIOUS
      <3>2. /\ x.lsn = k[d][First + x.id] % LsnSize
            /\ k[d][First + x.id] < k[d][First + x.id + 1]
            /\ Pos(m_gmaRxLast[d]) <= First + x.id
        BY <1>2, <2>2, <3>1 DEF FlightOK
      <3>3. x.id \in Nat /\ x.id < sent
        BY <2>1, <2>2, <3>1, WireTypes DEF WireInv, WireOK
      <3>4. First + x.id \in 0 .. N /\ First + x.id + 1 \in 0 .. N
        BY <1>0, <3>3 DEF N
      <3> QED
        BY <1>3, <2>2, <3>1, <3>2, <3>4
    <2>3. CASE d = c /\ wire'[d][i] = p
      <3>1. p.lsn = m_gmaTxLocalSn[c] /\ First + p.id = N
        BY <2>0 DEF N
      <3>2. N \in 0 .. N /\ j[c][N] = k[c][N] /\ j[c][N + 1] = k[c][N] + 1 /\ k[c][N] \in Nat
        BY <1>0, <1>3, <1>4
      <3>3. p.lsn = j[c][N] % LsnSize /\ j[c][N] < j[c][N + 1]
        BY <1>2, <3>1, <3>2 DEF TxOK
      <3>4. Pos(m_gmaRxLast[c]) <= N
        BY <1>2 DEF LastOK
      <3> QED
        BY <2>3, <3>1, <3>3, <3>4
    <2> QED
      BY <2>1, <2>2, <2>3, GrowsCases
  <1> QED
    BY <1>0, <1>3, <1>5, <1>6, <1>7, <1>8

\* The data packet that arrives over `cid`, and what stays in flight.
LEMMA ArrivingPacket ==
    ASSUME TypeOK, WireInv, Unwrapped, NEW cid \in Links, ReceiveData(cid)
    PROVE  /\ Head(wire[cid]) = wire[cid][1] /\ Head(wire[cid]) \in DataPackets
           /\ 1 \in 1 .. Len(wire[cid]) /\ IsData(wire[cid][1])
           /\ Head(wire[cid]).id \in Nat /\ Head(wire[cid]).id < sent
           /\ Head(wire[cid]).sn = First + Head(wire[cid]).id
           /\ wire \in Wires /\ wire' \in Wires /\ sent' = sent
           /\ Shifts(wire', wire, cid) /\ Within(wire', wire)
           /\ \A c \in Links : c # cid => wire'[c] = wire[c]
           /\ \A i \in 1 .. Len(wire'[cid]) : IsData(wire'[cid][i]) =>
                 Head(wire[cid]).id < wire'[cid][i].id
  <1>1. /\ wire[cid] # << >> /\ Head(wire[cid]) \in DataPackets
        /\ wire' = [wire EXCEPT ![cid] = Tail(@)] /\ sent' = sent
    BY ReceiveDataCases
  <1>2. PICK v \in Wires : v = wire'
    BY <1>1, WireTail
  <1>3. /\ wire \in Wires /\ Shifts(v, wire, cid)
        /\ \A c \in Links : c # cid => v[c] = wire[c]
    BY <1>1, <1>2, WireTail
  <1>4. Head(wire[cid]) = wire[cid][1] /\ 1 \in 1 .. Len(wire[cid]) /\ IsData(wire[cid][1])
    BY <1>1, <1>3, WireTypes DEF IsData, DataPackets
  <1>5. PICK pkt \in DataPackets : pkt = wire[cid][1]
    BY <1>1, <1>4
  <1>6. pkt.id \in Nat /\ pkt.id < sent /\ pkt.sn = SnOf(pkt.id)
    BY <1>4, <1>5 DEF WireInv, WireOK, DataPackets
  <1>7. pkt.sn = First + pkt.id
    BY <1>6, PlainNumbers
  <1>8. ASSUME NEW i \in 1 .. Len(v[cid]), IsData(v[cid][i]) PROVE pkt.id < v[cid][i].id
    <2>1. i + 1 \in 2 .. Len(wire[cid]) /\ v[cid][i] = wire[cid][i + 1] /\ Len(wire[cid]) \in Nat
      BY <1>3, ShiftsCases, WireTypes
    <2>2. i + 1 \in 1 .. Len(wire[cid]) /\ 1 < i + 1 /\ IsData(wire[cid][i + 1])
      BY <1>8, <2>1
    <2>3. wire[cid][1].id < wire[cid][i + 1].id
      BY <1>4, <2>2 DEF WireInv, WireOK
    <2> QED
      BY <1>5, <2>1, <2>3
  <1>9. Within(v, wire)
    BY <1>3, TailWithin
  <1> QED
    BY <1>1, <1>2, <1>3, <1>4, <1>5, <1>6, <1>7, <1>8, <1>9

LEMMA NumberedReceive ==
    ASSUME TypeOK, WireInv, Unwrapped, scenario.mode # "duplicate",
           NEW k \in Counts, NumberedOK(k), NEW cid \in Links, ReceiveData(cid)
    PROVE  /\ LastOK(m_gmaRxLast', k, First + sent)
           /\ FlightOK(wire', k, m_gmaRxLast')
           /\ ItemsOK(m_reorderingQueue', k)
  <1>0. /\ First \in Nat /\ sent \in Nat /\ LsnSize \in Nat \ {0} /\ MAX_GMA_SN \in Nat
        /\ \A id \in Nat : id < sent => First + id < MAX_GMA_SN
    BY PlainNumbers
  <1>1. PICK pkt \in DataPackets : pkt = Head(wire[cid])
    BY ArrivingPacket
  <1>2. /\ pkt = wire[cid][1] /\ 1 \in 1 .. Len(wire[cid]) /\ IsData(wire[cid][1])
        /\ pkt.id \in Nat /\ pkt.id < sent /\ pkt.sn = First + pkt.id
        /\ Within(wire', wire)
        /\ \A c \in Links : c # cid => wire'[c] = wire[c]
        /\ \A i \in 1 .. Len(wire'[cid]) : IsData(wire'[cid][i]) => pkt.id < wire'[cid][i].id
        /\ wire' \in Wires
    BY <1>1, ArrivingPacket
  <1>3. /\ CountOK(k, First + sent) /\ LastOK(m_gmaRxLast, k, First + sent)
        /\ FlightOK(wire, k, m_gmaRxLast) /\ ItemsOK(m_reorderingQueue, k)
    BY DEF NumberedOK
  <1>4. /\ pkt.lsn = k[cid][First + pkt.id] % LsnSize
        /\ k[cid][First + pkt.id] < k[cid][First + pkt.id + 1]
        /\ Pos(m_gmaRxLast[cid]) <= First + pkt.id
    BY <1>2, <1>3 DEF FlightOK
  <1>5. /\ \E s \in Tracked(k) : Becomes(s)
        /\ \/ UNCHANGED m_gmaRxLast
           \/ m_gmaRxLast' = [m_gmaRxLast EXCEPT ![cid] = [sn |-> pkt.sn, lsn |-> pkt.lsn]]
    <2>1. PICK G \in SUBSET Receivers : G = Tracked(k) /\ Closed(G)
      BY TrackedIsMovable
    <2>2. ASSUME NEW r \in Receivers, r.queue = m_reorderingQueue
          PROVE  /\ r \in G /\ Delivered(r, pkt) \in G
                 /\ \A lost \in BOOLEAN : Queued(r, pkt, cid, lost) \in G
      <3>1. r \in Tracked(k)
        BY <1>3, <2>2 DEF Tracked
      <3> QED
        BY <1>2, <1>4, <2>1, <3>1, TrackedArrival
    <2> QED
      BY <1>1, <2>1, <2>2, ReceiveStays
  <1>6. ItemsOK(m_reorderingQueue', k)
    BY <1>5 DEF Tracked, Becomes
  <1>7. FlightOK(wire', k, m_gmaRxLast)
    BY <1>2, <1>3, FlightWithin
  <1>8. CASE UNCHANGED m_gmaRxLast
    BY <1>3, <1>6, <1>7, <1>8
  <1>9. CASE m_gmaRxLast' = [m_gmaRxLast EXCEPT ![cid] = [sn |-> pkt.sn, lsn |-> pkt.lsn]]
    <2>1. /\ m_gmaRxLast'[cid].sn = pkt.sn /\ m_gmaRxLast'[cid].lsn = pkt.lsn
          /\ \A c \in Links : c # cid => m_gmaRxLast'[c] = m_gmaRxLast[c]
      BY <1>9 DEF TypeOK
    <2>b. PICK b \in Nat : b = First + pkt.id
      BY <1>0, <1>2
    <2>c. b < MAX_GMA_SN /\ b # MAX_GMA_SN /\ b + 1 \in Nat
      <3>1. First + pkt.id < MAX_GMA_SN
        <4> HIDE DEF First
        <4>1. pkt.id \in Nat /\ pkt.id < sent
          BY <1>2
        <4> QED
          BY <1>0, <4>1
      <3> QED
        BY <1>0, <2>b, <3>1
    <2>2. Pos(m_gmaRxLast'[cid]) = First + pkt.id + 1
      BY <1>2, <2>1, <2>b, <2>c DEF Pos
    <2>3. k[cid][First + pkt.id] \in Nat /\ k[cid][First + pkt.id + 1] \in Nat
      <3>1. \A n \in Nat : k[cid][n] \in Nat
        BY DEF Counts
      <3>2. k[cid][b] \in Nat /\ k[cid][b + 1] \in Nat
        BY <2>c, <3>1
      <3> QED
        BY <2>b, <3>2
    <2>4. k[cid][First + pkt.id + 1] = k[cid][First + pkt.id] + 1
      <3>1. /\ First + pkt.id \in 0 .. (First + sent) /\ First + pkt.id + 1 \in 0 .. (First + sent)
            /\ First + pkt.id <= First + pkt.id + 1
        BY <1>0, <1>2
      <3>2. k[cid][First + pkt.id + 1] - k[cid][First + pkt.id]
               <= (First + pkt.id + 1) - (First + pkt.id)
        BY <1>3, <3>1 DEF CountOK
      <3>3. PICK y, z \in Nat : y = k[cid][First + pkt.id] /\ z = k[cid][First + pkt.id + 1]
        BY <2>3
      <3>4. z - y <= 1 /\ y < z
        BY <1>4, <2>b, <3>2, <3>3
      <3>5. z = y + 1
        BY <3>4
      <3> QED
        BY <3>3, <3>5
    <2>5. (pkt.lsn + 1) % LsnSize = k[cid][First + pkt.id + 1] % LsnSize
      <3>1. ((k[cid][First + pkt.id] % LsnSize) + 1) % LsnSize
               = (k[cid][First + pkt.id] + 1) % LsnSize
        BY <1>0, <2>3, ModNext
      <3> QED
        BY <1>4, <2>4, <3>1
    <2>6. LastOK(m_gmaRxLast', k, First + sent)
      <3> SUFFICES ASSUME NEW c \in Links
                   PROVE  /\ Pos(m_gmaRxLast'[c]) <= First + sent
                          /\ (m_gmaRxLast'[c].lsn + 1) % LsnSize
                                = k[c][Pos(m_gmaRxLast'[c])] % LsnSize
        BY DEF LastOK
      <3>1. CASE c # cid
        BY <1>3, <2>1, <3>1 DEF LastOK
      <3>2. CASE c = cid
        BY <1>0, <1>2, <2>1, <2>2, <2>5, <3>2
      <3> QED
        BY <3>1, <3>2
    <2>7. FlightOK(wire', k, m_gmaRxLast')
      <3> SUFFICES ASSUME NEW c \in Links, NEW i \in 1 .. Len(wire'[c]), IsData(wire'[c][i])
                   PROVE  Pos(m_gmaRxLast'[c]) <= First + wire'[c][i].id
        BY <1>7 DEF FlightOK
      <3>1. CASE c # cid
        BY <1>7, <2>1, <3>1 DEF FlightOK
      <3>2. CASE c = cid
        <4>1. pkt.id < wire'[c][i].id /\ wire'[c][i].id \in Nat
          BY <1>2, <3>2, WireTypes
        <4> QED
          BY <1>0, <1>2, <2>2, <3>2, <4>1
      <3> QED
        BY <3>1, <3>2
    <2> QED
      BY <1>6, <2>6, <2>7
  <1> QED
    BY <1>5, <1>8, <1>9

LEMMA NumberedNext ==
    ASSUME TypeOK, WireInv, OnceInv, NumberedInv, [Next]_vars
    PROVE  NumberedInv'
  <1>1. CASE UNCHANGED vars
    BY <1>1 DEF vars, rxVars, txVars, NumberedInv, NumberedOK, CountOK, TxOK, LastOK, FlightOK,
                ItemsOK, First, Unwrapped
  <1>2. CASE Next
    <2>0. scenario' = scenario /\ First' = First /\ Unwrapped' = Unwrapped
      BY <1>2 DEF Next, First, Unwrapped
    <2> SUFFICES ASSUME Unwrapped, scenario.mode # "duplicate"
                 PROVE  \E k \in Counts : /\ CountOK(k, First + sent')
                                          /\ TxOK(m_gmaTxLocalSn', k, First + sent')
                                          /\ LastOK(m_gmaRxLast', k, First + sent')
                                          /\ FlightOK(wire', k, m_gmaRxLast')
                                          /\ ItemsOK(m_reorderingQueue', k)
      BY <2>0 DEF NumberedInv, NumberedOK, CountOK, TxOK, LastOK, FlightOK, ItemsOK, First
    <2>1. PICK k \in Counts : NumberedOK(k)
      BY DEF NumberedInv
    <2>2. /\ CountOK(k, First + sent) /\ TxOK(m_gmaTxLocalSn, k, First + sent)
          /\ LastOK(m_gmaRxLast, k, First + sent)
          /\ FlightOK(wire, k, m_gmaRxLast) /\ ItemsOK(m_reorderingQueue, k)
      BY <2>1 DEF NumberedOK
    <2>3. ASSUME NEW cids \in SUBSET Links, Transmit(cids)
          PROVE  \E j \in Counts : /\ CountOK(j, First + sent')
                                   /\ TxOK(m_gmaTxLocalSn', j, First + sent')
                                   /\ LastOK(m_gmaRxLast', j, First + sent')
                                   /\ FlightOK(wire', j, m_gmaRxLast')
                                   /\ ItemsOK(m_reorderingQueue', j)
      <3>1. UNCHANGED <<m_gmaRxLast, m_reorderingQueue>>
        BY <2>3 DEF Transmit, rxVars
      <3> QED
        BY <2>1, <2>3, <3>1, NumberedTransmit
    <2>4. ASSUME NEW cid \in scenario.links, ReceiveData(cid)
          PROVE  /\ LastOK(m_gmaRxLast', k, First + sent)
                 /\ FlightOK(wire', k, m_gmaRxLast')
                 /\ ItemsOK(m_reorderingQueue', k)
                 /\ sent' = sent /\ m_gmaTxLocalSn' = m_gmaTxLocalSn
      <3>1. cid \in Links
        BY DefaultCidIsLink DEF TypeOK
      <3>2. sent' = sent /\ m_gmaTxLocalSn' = m_gmaTxLocalSn
        BY <2>4 DEF ReceiveData
      <3> QED
        BY <2>1, <2>4, <3>1, <3>2, NumberedReceive
    <2>5. CASE /\ ~ \E cids \in SUBSET Links : Transmit(cids)
               /\ ~ \E cid \in scenario.links : ReceiveData(cid)
      <3>1. sent' = sent /\ m_gmaTxLocalSn' = m_gmaTxLocalSn /\ Within(wire', wire)
        BY <1>2, <2>5, WithinCases
      <3>2. PICK G \in SUBSET Receivers : G = Tracked(k) /\ Movable(G)
        BY TrackedIsMovable
      <3>3. \A x \in Nat : Receiver(x) \in G
        BY <2>2, <3>2, ReceiverIsReceiver DEF Tracked
      <3>4. /\ UNCHANGED m_gmaRxLast
            /\ UNCHANGED m_reorderingQueue \/ \E s \in G : Becomes(s)
        BY <1>2, <2>5, <3>2, <3>3, OtherSteps
      <3>5. ItemsOK(m_reorderingQueue', k)
        BY <2>2, <3>2, <3>4 DEF Becomes, Tracked
      <3>6. FlightOK(wire', k, m_gmaRxLast)
        BY <2>2, <3>1, FlightWithin
      <3> QED
        BY <2>2, <3>1, <3>4, <3>5, <3>6
    <2> QED
      BY <2>2, <2>3, <2>4, <2>5
  <1> QED
    BY <1>1, <1>2

LEMMA NumberedInvariant == Spec => []NumberedInv
  <1>1. Init => NumberedInv
    BY NumberedInit
  <1>2. TypeOK /\ WireInv /\ OnceInv /\ NumberedInv /\ [Next]_vars => NumberedInv'
    BY NumberedNext
  <1> QED
    BY <1>1, <1>2, TypeCorrect, WireInvariant, OnceInvariant, PTL DEF Spec

LEMMA SnDiffIsDifference ==
    ASSUME MAX_GMA_SN \in Nat, NEW x \in Nat, NEW y \in Nat,
           2 * x <= MAX_GMA_SN, 2 * y <= MAX_GMA_SN
    PROVE  SnDiff(x, y) = x - y
  BY DEF SnDiff, WrapDiff

LEMMA SnDiffFromStart ==
    ASSUME MAX_GMA_SN \in Nat, NEW x \in Nat, 2 * (x + 1) <= MAX_GMA_SN
    PROVE  SnDiff(x, MAX_GMA_SN) = x + 1
  BY DEF SnDiff, WrapDiff

\* When InOrderDelivery finds that lost = gap, every number of the gap was sent over the
\* link of the packet: none of them is queued for, or in flight over, another link.
LEMMA GapMeansSent ==
    ASSUME TypeOK, WireInv, NumberedInv, Unwrapped, scenario.mode # "duplicate",
           NEW cid \in Links, ReceiveData(cid), GapIsLost(Head(wire[cid]), cid)
    PROVE  LET a == Pos(m_gmaRxLast[cid])
               b == First + Head(wire[cid]).id
           IN  \A d \in Links \ {cid} :
                  /\ \A i \in 1 .. Len(m_reorderingQueue[d]) :
                        ~ (a <= m_reorderingQueue[d][i].sn /\ m_reorderingQueue[d][i].sn < b)
                  /\ \A i \in 1 .. Len(wire[d]) : IsData(wire[d][i]) =>
                        ~ (a <= First + wire[d][i].id /\ First + wire[d][i].id < b)
  <1>0. /\ First \in Nat /\ sent \in Nat /\ LsnSize \in Nat \ {0} /\ MAX_GMA_SN \in Nat
        /\ 2 * (First + sent) <= MAX_GMA_SN
    BY PlainNumbers
  <1>1. PICK pkt \in DataPackets : pkt = Head(wire[cid])
    BY ArrivingPacket
  <1>2. /\ pkt = wire[cid][1] /\ 1 \in 1 .. Len(wire[cid]) /\ IsData(wire[cid][1])
        /\ pkt.id \in Nat /\ pkt.id < sent /\ pkt.sn = First + pkt.id
        /\ wire \in Wires
    BY <1>1, ArrivingPacket
  <1>3. PICK k \in Counts : NumberedOK(k)
    BY DEF NumberedInv
  <1>4. PICK last : last = m_gmaRxLast[cid]
    OBVIOUS
  <1>5. /\ pkt.lsn = k[cid][First + pkt.id] % LsnSize
        /\ Pos(last) <= First + pkt.id
        /\ (last.lsn + 1) % LsnSize = k[cid][Pos(last)] % LsnSize
    BY <1>2, <1>3, <1>4 DEF NumberedOK, FlightOK, LastOK
  <1>6. last.sn \in 0 .. MAX_GMA_SN /\ last.lsn \in 0 .. LsnSize - 1 /\ pkt.lsn \in 0 .. LsnSize - 1
    <2>1. last.sn \in Sns /\ last.lsn \in Lsns
      BY <1>4 DEF TypeOK
    <2>2. pkt.lsn \in Lsns
      BY <1>1 DEF DataPackets
    <2>3. LsnSize - 1 = MAX_GMA_LSN
      BY ReorderAssumption DEF LsnSize
    <2> QED
      BY <2>1, <2>2, <2>3 DEF Sns, Lsns
  <1>7. PICK a \in Nat : a = Pos(last)
    BY <1>6 DEF Pos
  <1>8. PICK b \in Nat : b = First + pkt.id
    BY <1>0, <1>2
  <1>9. a <= b /\ b < First + sent /\ 2 * (b + 1) <= MAX_GMA_SN
    <2>1. PICK f \in Nat, n \in Nat, i \in Nat, m \in Nat :
             f = First /\ n = sent /\ i = pkt.id /\ m = MAX_GMA_SN
      BY <1>0, <1>2
    <2>2. i < n /\ b = f + i /\ 2 * (f + n) <= m
      BY <1>0, <1>2, <1>8, <2>1
    <2>3. b < f + n /\ 2 * (b + 1) <= m
      BY <2>2
    <2>4. a <= b
      BY <1>5, <1>7, <1>8
    <2> QED
      BY <2>1, <2>3, <2>4
  <1>10. LsnDiff(pkt.lsn, last.lsn) = SnDiff(b, last.sn)
    BY <1>1, <1>2, <1>4, <1>8 DEF GapIsLost
  <1>11. SnDiff(b, last.sn) = (b + 1) - a
    <2>1. CASE last.sn = MAX_GMA_SN
      <3>1. a = 0
        BY <1>7, <2>1 DEF Pos
      <3>2. SnDiff(b, MAX_GMA_SN) = b + 1
        BY <1>0, <1>9, SnDiffFromStart
      <3> QED
        BY <2>1, <3>1, <3>2
    <2>2. CASE last.sn # MAX_GMA_SN
      <3>1. a = last.sn + 1
        BY <1>7, <2>2 DEF Pos
      <3>2. last.sn \in Nat /\ 2 * last.sn <= MAX_GMA_SN /\ 2 * b <= MAX_GMA_SN
        BY <1>0, <1>6, <1>9, <3>1
      <3>3. SnDiff(b, last.sn) = b - last.sn
        BY <1>0, <3>2, SnDiffIsDifference
      <3> QED
        BY <3>1, <3>2, <3>3
    <2> QED
      BY <2>1, <2>2
  <1>12. \A n \in Nat : k[cid][n] \in Nat
    BY DEF Counts
  <1>13. \A x \in 0 .. (First + sent) : \A y \in 0 .. (First + sent) : x <= y =>
            k[cid][x] <= k[cid][y] /\ k[cid][y] - k[cid][x] <= y - x
    BY <1>3 DEF NumberedOK, CountOK
  <1>14. k[cid][b] - k[cid][a] = b - a
    <2>1. PICK ka \in Nat, kb \in Nat : ka = k[cid][a] /\ kb = k[cid][b]
      BY <1>12
    <2>2. a \in 0 .. (First + sent) /\ b \in 0 .. (First + sent)
      BY <1>0, <1>9
    <2>3. ka <= kb /\ kb - ka <= b - a
      BY <1>9, <1>13, <2>1, <2>2
    <2>4. WrapDiff(pkt.lsn, last.lsn, LsnSize) = (b + 1) - a
      BY <1>10, <1>11 DEF LsnDiff, LsnSize
    <2>5. pkt.lsn = kb % LsnSize /\ (last.lsn + 1) % LsnSize = ka % LsnSize
      BY <1>5, <1>7, <1>8, <2>1
    <2>6. PICK l \in 0 .. LsnSize - 1, m \in 0 .. LsnSize - 1 : l = pkt.lsn /\ m = last.lsn
      BY <1>6
    <2>7. kb - ka = b - a
      <3>1. l = kb % LsnSize /\ (m + 1) % LsnSize = ka % LsnSize
        BY <2>5, <2>6
      <3>2. WrapDiff(l, m, LsnSize) = (b + 1) - a
        BY <2>4, <2>6
      <3>3. PICK L \in Nat \ {0} : L = LsnSize
        BY <1>0
      <3>4. l \in 0 .. L - 1 /\ m \in 0 .. L - 1 /\ a <= b
        BY <1>9, <3>3
      <3>5. l = kb % L /\ (m + 1) % L = ka % L /\ WrapDiff(l, m, L) = (b + 1) - a
        BY <3>1, <3>2, <3>3
      <3>6. LostIsGap(L, l, m, a, b, ka, kb)
        BY <2>3, <3>4, <3>5, Zenon DEF LostIsGap
      <3> QED
        BY <3>6, GapArithmetic
    <2> QED
      BY <2>1, <2>7
  <1>15. ASSUME NEW n \in Nat, a <= n, n < b PROVE k[cid][n] < k[cid][n + 1]
    <2>1. /\ a \in 0 .. (First + sent) /\ b \in 0 .. (First + sent) /\ n \in 0 .. (First + sent)
          /\ n + 1 \in 0 .. (First + sent) /\ n + 1 <= b
      BY <1>0, <1>9, <1>15
    <2>2. k[cid][n] - k[cid][a] <= n - a
      BY <1>13, <1>15, <2>1
    <2>6. PICK m \in 0 .. (First + sent) : m = n + 1
      BY <2>1
    <2>7. k[cid][b] - k[cid][m] <= b - m
      BY <1>13, <2>1, <2>6
    <2>3. PICK w \in Nat, x \in Nat, y \in Nat, z \in Nat :
             w = k[cid][a] /\ x = k[cid][n] /\ y = k[cid][n + 1] /\ z = k[cid][b]
      BY <1>12
    <2>4. x - w <= n - a
      BY <2>2, <2>3
    <2>5. z - y <= b - m
      BY <2>3, <2>6, <2>7
    <2>8. z - w = b - a
      BY <1>14, <2>3
    <2>9. x < y
      BY <2>4, <2>5, <2>6, <2>8
    <2> QED
      BY <2>3, <2>9
  <1>16. ASSUME NEW d \in Links \ {cid}, NEW n \in Nat, a <= n, n < b, k[d][n] < k[d][n + 1]
         PROVE  FALSE
    <2>1. n \in 0 .. ((First + sent) - 1)
      BY <1>0, <1>9, <1>16
    <2> QED
      BY <1>3, <1>15, <1>16, <2>1 DEF NumberedOK, CountOK
  <1>17. ASSUME NEW d \in Links \ {cid}, NEW i \in 1 .. Len(m_reorderingQueue[d]),
                a <= m_reorderingQueue[d][i].sn, m_reorderingQueue[d][i].sn < b
         PROVE  FALSE
    <2>1. PICK it \in Items : it = m_reorderingQueue[d][i]
      BY ElementOfSeq DEF TypeOK
    <2>2. it.sn = First + it.id /\ k[d][First + it.id] < k[d][First + it.id + 1]
      BY <1>3, <2>1 DEF NumberedOK, ItemsOK
    <2>3. PICK n \in Nat : n = First + it.id
      BY <1>0 DEF Items
    <2> QED
      BY <1>16, <1>17, <2>1, <2>2, <2>3
  <1>18. ASSUME NEW d \in Links \ {cid}, NEW i \in 1 .. Len(wire[d]), IsData(wire[d][i]),
                a <= First + wire[d][i].id, First + wire[d][i].id < b
         PROVE  FALSE
    <2>1. wire[d][i].id \in Nat
      BY <1>2, <1>18, WireTypes
    <2>2. k[d][First + wire[d][i].id] < k[d][First + wire[d][i].id + 1]
      BY <1>3, <1>18 DEF NumberedOK, FlightOK
    <2>3. PICK n \in Nat : n = First + wire[d][i].id
      BY <1>0, <2>1
    <2> QED
      BY <1>16, <1>18, <2>2, <2>3
  <1> QED
    BY <1>1, <1>4, <1>7, <1>8, <1>17, <1>18

-----------------------------------------------------------------------------
(***************************************************************************)
(* The order of what is queued and of what was forwarded.                  *)
(***************************************************************************)
Plain(n) ==
    First \in Nat /\ n \in Nat /\ MAX_GMA_SN \in Nat /\ 2 * (First + n) <= MAX_GMA_SN

\* What is queued has the SN of its place among the n packets sent, is not before the
\* expected one, and ascends in every queue.
Ascending(q, e, n) ==
    \A c \in Links : \A i \in 1 .. Len(q[c]) :
       /\ q[c][i].sn = First + q[c][i].id /\ q[c][i].id < n /\ e <= q[c][i].sn
       /\ \A j \in 1 .. Len(q[c]) : i < j => q[c][i].sn < q[c][j].sn

\* What was forwarded ascends, and is before the expected one.
Released(o, e) ==
    \A k \in 1 .. Len(o) :
       /\ First + o[k] < e
       /\ \A l \in 1 .. Len(o) : k < l => o[k] < o[l]

\* P[c] is the number after the last one that arrived over c: what is queued for c is
\* before it, and the last one is, unless the expected one is not before it.
Positioned(q, e, P) ==
    \A c \in Links :
       /\ \A i \in 1 .. Len(q[c]) : q[c][i].sn < P[c]
       /\ P[c] <= e \/ (q[c] # << >> /\ P[c] <= q[c][Len(q[c])].sn + 1)

Ordered(s, P, n) ==
    /\ First <= s.expected /\ s.expected <= First + n
    /\ Ascending(s.queue, s.expected, n)
    /\ Released(s.out, s.expected)
    /\ Positioned(s.queue, s.expected, P)

Sorted(S, P, n) == {s \in Once(S) : Ordered(s, P, n)}

\* The head that MinCid finds is the least of all that is queued.
LEMMA HeadIsLeast ==
    ASSUME NEW n, Plain(n), NEW r \in Receivers, Ascending(r.queue, r.expected, n),
           NEW cid \in Links, cid = MinCid(r.queue), r.queue[cid] # << >>,
           NEW c \in Links, NEW i \in 1 .. Len(r.queue[c])
    PROVE  r.queue[cid][1].sn <= r.queue[c][i].sn
  <1>0. First \in Nat /\ n \in Nat /\ MAX_GMA_SN \in Nat /\ 2 * (First + n) <= MAX_GMA_SN
    BY DEF Plain
  <1>1. \A d \in Links : r.queue[d] # << >> =>
           /\ Head(r.queue[d]) = r.queue[d][1] /\ 1 \in 1 .. Len(r.queue[d])
           /\ r.queue[d][1] \in Items
    BY QueueTypes
  <1>2. \A d \in Links : r.queue[d] # << >> =>
           /\ Head(r.queue[d]).sn \in Nat /\ 2 * Head(r.queue[d]).sn <= MAX_GMA_SN
           /\ Head(r.queue[d]).sn # MAX_GMA_SN
    <2> SUFFICES ASSUME NEW d \in Links, r.queue[d] # << >>
                 PROVE  /\ Head(r.queue[d]).sn \in Nat /\ 2 * Head(r.queue[d]).sn <= MAX_GMA_SN
                        /\ Head(r.queue[d]).sn # MAX_GMA_SN
      OBVIOUS
    <2>1. PICK h \in Items : h = Head(r.queue[d]) /\ h.sn = First + h.id /\ h.id < n
      BY <1>1 DEF Ascending
    <2>2. h.id \in Nat
      BY DEF Items
    <2>3. h.sn \in Nat /\ 2 * h.sn <= MAX_GMA_SN /\ h.sn # MAX_GMA_SN
      <3>1. PICK F \in Nat, M \in Nat, m \in Nat, x \in Nat :
               F = First /\ M = MAX_GMA_SN /\ m = n /\ x = h.id
        BY <1>0, <2>2
      <3>2. 2 * (F + m) <= M /\ x < m /\ h.sn = F + x
        BY <1>0, <2>1, <3>1
      <3>3. F + x \in Nat /\ 2 * (F + x) <= M /\ F + x # M
        BY <3>2
      <3> QED
        BY <3>1, <3>2, <3>3
    <2> QED
      BY <2>1, <2>3
  <1>3. Narrow(r.queue)
    BY <1>0, <1>2, SnDiffIsDifference DEF Narrow
  <1>4. Len(r.queue[c]) \in Nat /\ r.queue[c] # << >>
    BY QueueTypes
  <1>5. Head(r.queue[cid]).sn <= Head(r.queue[c]).sn
    BY <1>3, <1>4, MinCidIsLeast
  <1>6. r.queue[c][1].sn <= r.queue[c][i].sn
    <2>1. r.queue[c][1] \in Items /\ r.queue[c][i] \in Items /\ 1 \in 1 .. Len(r.queue[c])
      BY <1>1, <1>4, QueueTypes
    <2>2. 1 < i => r.queue[c][1].sn < r.queue[c][i].sn
      BY <2>1 DEF Ascending
    <2>3. r.queue[c][1].sn \in Int /\ r.queue[c][i].sn \in Int
      BY <1>0, <2>1 DEF Items, Sns
    <2>4. i = 1 \/ 1 < i
      BY <1>4
    <2> QED
      BY <2>2, <2>3, <2>4
  <1>7. PICK x \in Int, y \in Int, z \in Int :
           x = r.queue[cid][1].sn /\ y = r.queue[c][1].sn /\ z = r.queue[c][i].sn
    <2>1. r.queue[cid][1] \in Items /\ r.queue[c][1] \in Items /\ r.queue[c][i] \in Items
      BY <1>1, <1>4, QueueTypes
    <2>2. \A it \in Items : it.sn \in Int
      BY <1>0 DEF Items, Sns
    <2> QED
      BY <2>1, <2>2
  <1>8. x <= y /\ y <= z
    BY <1>1, <1>4, <1>5, <1>6, <1>7
  <1> QED
    BY <1>7, <1>8

\* Releasing the least packet keeps the order.
LEMMA SortedAdvances ==
    ASSUME NEW n, Plain(n), NEW S, NEW P \in [Links -> Nat], NEW r \in Sorted(S, P, n),
           NEW s \in Receivers, NEW cid \in Links, Advances(s, r, cid)
    PROVE  /\ s \in Sorted(S, P, n)
           /\ s.expected = r.queue[cid][1].sn + 1 /\ r.expected < s.expected
           /\ \A c \in Links : \A i \in 1 .. Len(s.queue[c]) : r.queue[cid][1].sn < s.queue[c][i].sn
  <1>0. /\ First \in Nat /\ n \in Nat /\ MAX_GMA_SN \in Nat /\ 2 * (First + n) <= MAX_GMA_SN
        /\ r \in Receivers /\ r \in Once(S) /\ Ordered(r, P, n) /\ Distinct(r.queue, r.out)
        /\ cid = MinCid(r.queue) /\ r.queue[cid] # << >> /\ IsPop(s, r, cid)
        /\ s.expected = NextSn(Head(r.queue[cid]).sn)
    BY DEF Plain, Sorted, Once, Advances
  <1>1. s \in Once(S)
    BY <1>0, OncePop
  <1>2. PICK h \in Items : /\ h = r.queue[cid][1] /\ h = Head(r.queue[cid])
                           /\ 1 \in 1 .. Len(r.queue[cid])
    BY <1>0, QueueTypes
  <1>3. /\ h.sn = First + h.id /\ h.id < n /\ r.expected <= h.sn /\ h.id \in Nat /\ h.sn \in Sns
    BY <1>0, <1>2 DEF Ordered, Ascending, Items
  <1>4. r.expected \in Nat /\ s.expected = h.sn + 1 /\ s.expected \in Nat
        /\ s.expected <= First + n /\ r.expected < s.expected
    <2>1. r.expected \in Nat
      BY <1>0 DEF Receivers, Sns
    <2>2. PICK F \in Nat, M \in Nat, m \in Nat, x \in Nat, e \in Nat :
             F = First /\ M = MAX_GMA_SN /\ m = n /\ x = h.id /\ e = r.expected
      BY <1>0, <1>3, <2>1
    <2>3. 2 * (F + m) <= M /\ x < m /\ h.sn = F + x /\ e <= F + x
      BY <1>0, <1>3, <2>2
    <2>4. F + x # M /\ F + x + 1 \in Nat /\ F + x + 1 <= F + m /\ e < F + x + 1
      BY <2>3
    <2>5. NextSn(h.sn) = h.sn + 1
      BY <1>3, <2>2, <2>3, <2>4, NextSnIsSn
    <2>6. s.expected = F + x + 1
      BY <1>0, <1>2, <2>3, <2>5
    <2> QED
      BY <2>1, <2>2, <2>3, <2>4, <2>6
  <1>5. \A c \in Links : \A i \in 1 .. Len(s.queue[c]) :
           \/ c # cid /\ i \in 1 .. Len(r.queue[c]) /\ s.queue[c][i] = r.queue[c][i]
           \/ c = cid /\ i + 1 \in 1 .. Len(r.queue[c]) /\ s.queue[c][i] = r.queue[c][i + 1]
    BY <1>0, PopItems
  <1>6. ASSUME NEW c \in Links, NEW a \in 1 .. Len(r.queue[c]), c # cid \/ a # 1
        PROVE  h.sn < r.queue[c][a].sn
    <2>1. h.sn <= r.queue[c][a].sn
      BY <1>0, <1>2, HeadIsLeast DEF Ordered
    <2>2. PICK it \in Items : it = r.queue[c][a]
      BY <1>0, QueueTypes
    <2>3. it.sn = First + it.id /\ it.id \in Nat
      BY <1>0, <2>2 DEF Ordered, Ascending, Items
    <2>4. it.id # h.id
      BY <1>0, <1>2, <1>6, <2>2 DEF Distinct
    <2>5. h.sn < it.sn
      <3>1. PICK x \in Nat, y \in Nat, F \in Nat : x = h.id /\ y = it.id /\ F = First
        BY <1>0, <1>3, <2>3
      <3>2. h.sn = F + x /\ it.sn = F + y /\ F + x <= F + y /\ x # y
        BY <1>3, <2>1, <2>2, <2>3, <2>4, <3>1
      <3>3. F + x < F + y
        BY <3>2
      <3> QED
        BY <3>2, <3>3
    <2> QED
      BY <2>2, <2>5
  <1>7. ASSUME NEW c \in Links, NEW i \in 1 .. Len(s.queue[c])
        PROVE  h.sn < s.queue[c][i].sn
    <2>1. CASE c # cid /\ i \in 1 .. Len(r.queue[c]) /\ s.queue[c][i] = r.queue[c][i]
      BY <1>6, <2>1
    <2>2. CASE c = cid /\ i + 1 \in 1 .. Len(r.queue[c]) /\ s.queue[c][i] = r.queue[c][i + 1]
      <3>1. i + 1 # 1
        OBVIOUS
      <3> QED
        BY <1>6, <2>2, <3>1
    <2> QED
      BY <1>5, <2>1, <2>2
  <1>8. Ascending(s.queue, s.expected, n)
    <2> SUFFICES ASSUME NEW c \in Links, NEW i \in 1 .. Len(s.queue[c])
                 PROVE  /\ s.queue[c][i].sn = First + s.queue[c][i].id
                        /\ s.queue[c][i].id < n /\ s.expected <= s.queue[c][i].sn
                        /\ \A j \in 1 .. Len(s.queue[c]) : i < j => s.queue[c][i].sn < s.queue[c][j].sn
      BY DEF Ascending
    <2>1. PICK a \in 1 .. Len(r.queue[c]) : /\ s.queue[c][i] = r.queue[c][a]
                                            /\ a = IF c = cid THEN i + 1 ELSE i
      BY <1>5
    <2>2. s.queue[c][i].sn = First + s.queue[c][i].id /\ s.queue[c][i].id < n
      BY <1>0, <2>1 DEF Ordered, Ascending
    <2>3. s.expected <= s.queue[c][i].sn
      <3>1. PICK it \in Items : it = s.queue[c][i]
        BY <1>0, <2>1, QueueTypes
      <3>2. it.sn \in Nat /\ h.sn \in Nat /\ h.sn < it.sn
        BY <1>0, <1>3, <1>7, <3>1 DEF Items, Sns
      <3> QED
        BY <1>4, <3>1, <3>2
    <2>4. ASSUME NEW j \in 1 .. Len(s.queue[c]), i < j
          PROVE  s.queue[c][i].sn < s.queue[c][j].sn
      <3>1. PICK b \in 1 .. Len(r.queue[c]) : /\ s.queue[c][j] = r.queue[c][b]
                                              /\ b = IF c = cid THEN j + 1 ELSE j
        BY <1>5
      <3>2. a < b
        BY <2>1, <2>4, <3>1
      <3> QED
        BY <1>0, <2>1, <3>1, <3>2 DEF Ordered, Ascending
    <2> QED
      BY <2>2, <2>3, <2>4
  <1>9. Released(s.out, s.expected)
    <2>1. /\ Len(r.out) \in Nat /\ Len(s.out) = Len(r.out) + 1
          /\ \A k \in 1 .. Len(r.out) : s.out[k] = r.out[k] /\ r.out[k] \in Nat
          /\ s.out[Len(r.out) + 1] = h.id
      BY <1>0, <1>2, QueueTypes DEF IsPop
    <2>2. \A k \in 1 .. Len(r.out) : First + r.out[k] < r.expected
      BY <1>0 DEF Ordered, Released
    <2>3. \A k \in 1 .. Len(r.out) : \A l \in 1 .. Len(r.out) : k < l => r.out[k] < r.out[l]
      BY <1>0 DEF Ordered, Released
    <2>a. PICK F \in Nat, x \in Nat, e \in Nat, m \in Nat :
             /\ F = First /\ x = h.id /\ e = r.expected /\ m = s.expected
             /\ m = F + x + 1 /\ e <= F + x
      BY <1>0, <1>3, <1>4
    <2>b. m = F + x + 1 /\ e <= F + x
      BY <2>a
    <2>4. ASSUME NEW k \in 1 .. Len(r.out)
          PROVE  r.out[k] < h.id /\ First + r.out[k] < s.expected
      <3>1. PICK y \in Nat : y = r.out[k] /\ F + y < e
        BY <2>1, <2>2, <2>a
      <3>a. F + y < e
        BY <3>1
      <3>2. y < x /\ F + y < m
        BY <2>b, <3>a
      <3> QED
        BY <2>a, <3>1, <3>2
    <2>5. First + h.id < s.expected
      <3>1. F + x < m
        BY <2>a
      <3> QED
        BY <2>a, <3>1
    <2>6. \A k \in 1 .. Len(s.out) : \/ k \in 1 .. Len(r.out) /\ s.out[k] = r.out[k]
                                     \/ k = Len(r.out) + 1 /\ s.out[k] = h.id
      BY <2>1
    <2>7. ASSUME NEW k \in 1 .. Len(s.out) PROVE First + s.out[k] < s.expected
      <3>1. CASE k \in 1 .. Len(r.out) /\ s.out[k] = r.out[k]
        BY <2>4, <3>1
      <3>2. CASE s.out[k] = h.id
        BY <2>5, <3>2
      <3> QED
        BY <2>6, <3>1, <3>2
    <2>8. ASSUME NEW k \in 1 .. Len(s.out), NEW l \in 1 .. Len(s.out), k < l
          PROVE  s.out[k] < s.out[l]
      <3>1. k \in 1 .. Len(r.out) /\ s.out[k] = r.out[k]
        BY <2>1, <2>8
      <3>2. CASE l \in 1 .. Len(r.out)
        BY <2>1, <2>3, <2>8, <3>1, <3>2
      <3>3. CASE s.out[l] = h.id
        BY <2>4, <3>1, <3>3
      <3> QED
        BY <2>6, <3>2, <3>3
    <2> QED
      BY <2>7, <2>8 DEF Released
  <1>10. Positioned(s.queue, s.expected, P)
    <2> SUFFICES ASSUME NEW c \in Links
                 PROVE  /\ \A i \in 1 .. Len(s.queue[c]) : s.queue[c][i].sn < P[c]
                        /\ \/ P[c] <= s.expected
                           \/ s.queue[c] # << >> /\ P[c] <= s.queue[c][Len(s.queue[c])].sn + 1
      BY DEF Positioned
    <2>0. /\ \A i \in 1 .. Len(r.queue[c]) : r.queue[c][i].sn < P[c]
          /\ \/ P[c] <= r.expected
             \/ r.queue[c] # << >> /\ P[c] <= r.queue[c][Len(r.queue[c])].sn + 1
      BY <1>0 DEF Ordered, Positioned
    <2>1. \A i \in 1 .. Len(s.queue[c]) : s.queue[c][i].sn < P[c]
      BY <1>5, <2>0
    <2>2. P[c] \in Nat /\ Len(r.queue[c]) \in Nat /\ Len(s.queue[c]) \in Nat
          /\ (s.queue[c] # << >> <=> Len(s.queue[c]) > 0)
      BY <1>0, QueueTypes
    <2>3. CASE P[c] <= r.expected
      BY <1>4, <2>1, <2>2, <2>3
    <2>4. CASE r.queue[c] # << >> /\ P[c] <= r.queue[c][Len(r.queue[c])].sn + 1
      <3>1. CASE c # cid
        <4>1. s.queue[c] = r.queue[c]
          BY <1>0, <3>1 DEF IsPop
        <4> QED
          BY <2>1, <2>4, <4>1
      <3>2. CASE c = cid /\ s.queue[c] = << >>
        <4>0. Len(s.queue[cid]) = Len(r.queue[cid]) - 1
          BY <1>0 DEF IsPop
        <4>1. Len(s.queue[c]) = Len(r.queue[c]) - 1 /\ Len(s.queue[c]) = 0
          BY <2>2, <3>2, <4>0
        <4>a. PICK a \in Nat : a = Len(r.queue[c]) /\ a - 1 = 0
          BY <2>2, <4>1
        <4>2. Len(r.queue[c]) = 1
          BY <4>a
        <4>3. P[c] <= s.expected
          BY <1>2, <1>4, <2>4, <3>2, <4>2
        <4> QED
          BY <2>1, <4>3
      <3>3. CASE c = cid /\ s.queue[c] # << >>
        <4>1. Len(s.queue[c]) = Len(r.queue[c]) - 1
          BY <1>0, <3>3 DEF IsPop
        <4>2. /\ Len(s.queue[c]) \in 1 .. Len(s.queue[c])
              /\ Len(s.queue[c]) + 1 = Len(r.queue[c])
          BY <2>2, <3>3, <4>1
        <4>3. s.queue[c][Len(s.queue[c])] = r.queue[c][Len(r.queue[c])]
          BY <1>0, <3>3, <4>2 DEF IsPop
        <4> QED
          BY <2>1, <2>4, <3>3, <4>3
      <3> QED
        BY <3>1, <3>2, <3>3
    <2> QED
      BY <2>0, <2>3, <2>4
  <1>11. First <= s.expected
    BY <1>0, <1>4 DEF Ordered
  <1>12. s \in Sorted(S, P, n)
    BY <1>1, <1>4, <1>8, <1>9, <1>10, <1>11 DEF Sorted, Ordered
  <1> QED
    BY <1>2, <1>4, <1>7, <1>12

\* The rounds of the loops when the order is kept: none finds a packet behind the expected
\* one.
LEMMA SortedSteps ==
    ASSUME NEW n, Plain(n), NEW S, NEW P, NEW r \in Sorted(S, P, n)
    PROVE  LET cid == MinCid(r.queue)
               head == Head(r.queue[cid])
           IN  /\ \/ ReleaseMinStep(r) = r
                  \/ /\ Advances(ReleaseMinStep(r), r, cid)
                     /\ \A link \in up : r.queue[link] # << >>
               /\ \/ ReleaseInOrderStep(r) = r
                  \/ /\ Advances(ReleaseInOrderStep(r), r, cid)
                     /\ head.sn = r.expected \/ head.inOrder
                  \/ \E t \in Receivers :
                        /\ Advances(t, r, cid)
                        /\ \/ /\ head.sn = r.expected /\ r.newLink = cid /\ cid \in Links
                              /\ ReleaseInOrderStep(r) = StopReordering(t)
                           \/ /\ r.expired > 0
                              /\ ReleaseInOrderStep(r) = [t EXCEPT !.expired = @ - 1]
  <1>1. PICK cid : cid = MinCid(r.queue)
    OBVIOUS
  <1>2. r \in Receivers /\ Ordered(r, P, n)
    BY DEF Sorted, Once
  <1>3. PICK t : t = PopAndExpectNext(r, cid)
    OBVIOUS
  <1>4. (cid \in Links /\ r.queue[cid] # << >>) => t \in Receivers /\ Advances(t, r, cid)
    <2> SUFFICES ASSUME cid \in Links, r.queue[cid] # << >>
                 PROVE  t \in Receivers /\ Advances(t, r, cid)
      OBVIOUS
    <2>1. IsPop(t, r, cid) /\ t.expected = NextSn(Head(r.queue[cid]).sn)
      BY <1>2, <1>3, PopPops
    <2>2. t \in Receivers
      BY <2>1 DEF IsPop
    <2> QED
      BY <1>1, <2>1, <2>2 DEF Advances
  <1>5. PICK head : head = Head(r.queue[cid])
    OBVIOUS
  <1>6. (cid \in Links /\ r.queue[cid] # << >>) =>
           SnDiff(head.sn, r.expected) >= 0 /\ ~ (SnDiff(head.sn, r.expected) < 0)
    <2> SUFFICES ASSUME cid \in Links, r.queue[cid] # << >>
                 PROVE  SnDiff(head.sn, r.expected) >= 0 /\ ~ (SnDiff(head.sn, r.expected) < 0)
      OBVIOUS
    <2>1. head \in Items /\ head = r.queue[cid][1] /\ 1 \in 1 .. Len(r.queue[cid])
      BY <1>2, <1>5, QueueTypes
    <2>2. head.id \in Nat /\ head.sn = First + head.id /\ head.id < n /\ r.expected <= head.sn
      BY <1>2, <2>1 DEF Ordered, Ascending, Items
    <2>0. r.expected \in Nat
      BY <1>2, ReorderAssumption DEF Receivers, Sns
    <2>3. PICK F \in Nat, M \in Nat, m \in Nat, x \in Nat, e \in Nat :
             F = First /\ M = MAX_GMA_SN /\ m = n /\ x = head.id /\ e = r.expected
      BY <2>0, <2>2 DEF Plain
    <2>4. 2 * (F + m) <= M /\ x < m /\ e <= F + x /\ head.sn = F + x
      BY <2>2, <2>3 DEF Plain
    <2>5. F + x \in Nat /\ 2 * (F + x) <= M /\ 2 * e <= M
      BY <2>4
    <2>6. SnDiff(F + x, e) = (F + x) - e
      BY <2>3, <2>5, SnDiffIsDifference
    <2>7. (F + x) - e >= 0 /\ ~ ((F + x) - e < 0)
      BY <2>4
    <2> QED
      BY <2>3, <2>4, <2>6, <2>7
  <1>7. \/ ReleaseMinStep(r) = r
        \/ /\ Advances(ReleaseMinStep(r), r, cid)
           /\ \A link \in up : r.queue[link] # << >>
    BY <1>1, <1>2, <1>3, <1>4, <1>5, <1>6, MinStepCases
  <1>8. \/ ReleaseInOrderStep(r) = r
        \/ /\ cid \in Links /\ r.queue[cid] # << >>
           /\ \/ head.sn = r.expected /\ r.newLink = cid
                 /\ ReleaseInOrderStep(r) = StopReordering(t)
              \/ head.sn = r.expected /\ ReleaseInOrderStep(r) = t
              \/ SnDiff(head.sn, r.expected) < 0
              \/ head.inOrder /\ ReleaseInOrderStep(r) = t
              \/ r.expired > 0 /\ ReleaseInOrderStep(r) = [t EXCEPT !.expired = @ - 1]
    BY <1>1, <1>2, <1>3, <1>5, InOrderStepCases
  <1>9. \/ ReleaseInOrderStep(r) = r
        \/ /\ Advances(ReleaseInOrderStep(r), r, cid)
           /\ head.sn = r.expected \/ head.inOrder
        \/ \E u \in Receivers :
              /\ Advances(u, r, cid)
              /\ \/ /\ head.sn = r.expected /\ r.newLink = cid /\ cid \in Links
                    /\ ReleaseInOrderStep(r) = StopReordering(u)
                 \/ /\ r.expired > 0
                    /\ ReleaseInOrderStep(r) = [u EXCEPT !.expired = @ - 1]
    BY <1>4, <1>6, <1>8
  <1> QED
    BY <1>1, <1>5, <1>7, <1>9

\* Only the order matters: not the flags, not the timers.
LEMMA SortedSame ==
    ASSUME NEW n, NEW S, NEW P, NEW r \in Sorted(S, P, n), NEW s \in Receivers,
           SameContents(s, r), s.expected = r.expected
    PROVE  s \in Sorted(S, P, n)
  BY DEF Sorted, Once, Ordered, SameContents

LEMMA SortedIsClosed ==
    ASSUME NEW n, Plain(n), NEW S, NEW P \in [Links -> Nat]
    PROVE  /\ Sorted(S, P, n) \in SUBSET Receivers /\ Closed(Sorted(S, P, n))
           /\ \A r \in Sorted(S, P, n) : StopReordering(r) \in Sorted(S, P, n)
  <1>1. PICK G : G = Sorted(S, P, n)
    OBVIOUS
  <1>2. G \in SUBSET Receivers
    BY <1>1 DEF Sorted, Once
  <1>3. ASSUME NEW r \in G, NEW s, Advances(s, r, MinCid(r.queue))
        PROVE  s \in G
    <2>1. s \in Receivers /\ MinCid(r.queue) \in Links
      BY <1>3 DEF Advances, IsPop
    <2> QED
      BY <1>1, <1>3, <2>1, SortedAdvances
  <1>4. \A s \in G : ReleaseAllStep(s) \in G
    BY <1>2, <1>3, AllStepCases
  <1>5. ASSUME NEW r \in G PROVE StopReordering(r) \in G
    <2>1. PICK t \in Receivers : t = Stopped(r)
      BY <1>2, StoppedFacts
    <2>2. /\ SameContents(t, r) /\ t.expected = r.expected
          /\ StopReordering(r) = ReleaseAllPackets(t)
      BY <1>2, <2>1, StoppedFacts
    <2>3. t \in G
      BY <1>1, <2>2, SortedSame
    <2> QED
      BY <1>2, <1>4, <2>2, <2>3, AllKeeps
  <1>6. ASSUME NEW r \in G PROVE ReleaseMinStep(r) \in G /\ ReleaseInOrderStep(r) \in G
    <2>1. ReleaseMinStep(r) \in G
      BY <1>1, <1>3, SortedSteps
    <2>2. \/ ReleaseInOrderStep(r) = r
          \/ Advances(ReleaseInOrderStep(r), r, MinCid(r.queue))
          \/ \E t \in Receivers :
                /\ Advances(t, r, MinCid(r.queue))
                /\ \/ ReleaseInOrderStep(r) = StopReordering(t)
                   \/ /\ r.expired > 0
                      /\ ReleaseInOrderStep(r) = [t EXCEPT !.expired = @ - 1]
      BY <1>1, SortedSteps
    <2>3. ASSUME NEW t \in Receivers, Advances(t, r, MinCid(r.queue)), r.expired > 0
          PROVE  [t EXCEPT !.expired = @ - 1] \in G
      <3>1. t \in G /\ t.expired > 0
        BY <1>3, <2>3 DEF Advances, IsPop, SameFlags
      <3>2. PICK u \in Receivers : u = [t EXCEPT !.expired = @ - 1]
        BY <3>1, LessExpired
      <3>3. SameContents(u, t) /\ u.expected = t.expected
        BY <3>1, <3>2, LessExpired
      <3> QED
        BY <1>1, <3>1, <3>2, <3>3, SortedSame
    <2> QED
      BY <1>3, <1>5, <2>1, <2>2, <2>3
  <1> QED
    BY <1>1, <1>2, <1>5, <1>6 DEF Closed

\* A packet with the next number of its link arrives over cid.
Arrives(r, S, T, P, Q, n, pkt, cid) ==
    /\ S \subseteq T /\ pkt.id \in T \ S
    /\ pkt.id < n /\ pkt.sn = First + pkt.id
    /\ P[cid] <= pkt.sn
    /\ P[cid] <= Q[cid] /\ Q[cid] <= pkt.sn + 1
    /\ \A c \in Links : c # cid => Q[c] = P[c]

ArrivalNumbers(r, S, T, P, Q, n, pkt) ==
    /\ pkt.sn \in Nat /\ pkt.id \in Nat /\ First \in Nat /\ n \in Nat /\ r.expected \in Nat
    /\ r \in Receivers /\ r \in Once(S) /\ r \in Once(T)
    /\ pkt.sn + 1 <= First + n /\ NextSn(pkt.sn) = pkt.sn + 1
    /\ \A c \in Links : \A i \in 1 .. Len(r.queue[c]) :
          /\ r.queue[c][i] \in Items /\ r.queue[c][i].sn \in Nat
          /\ r.queue[c][i].sn < P[c] /\ r.queue[c][i].sn < Q[c]
          /\ r.queue[c][i].sn # pkt.sn
    /\ \A c \in Links : P[c] \in Nat /\ Q[c] \in Nat

LEMMA ArrivesNumbers ==
    ASSUME NEW n, Plain(n), NEW S, NEW T, NEW P \in [Links -> Nat], NEW Q \in [Links -> Nat],
           NEW r \in Sorted(S, P, n), NEW pkt \in DataPackets, NEW cid \in Links,
           Arrives(r, S, T, P, Q, n, pkt, cid)
    PROVE  ArrivalNumbers(r, S, T, P, Q, n, pkt)
  <1>0. /\ First \in Nat /\ n \in Nat /\ MAX_GMA_SN \in Nat /\ 2 * (First + n) <= MAX_GMA_SN
        /\ r \in Receivers /\ r \in Once(S) /\ Ordered(r, P, n)
        /\ Distinct(r.queue, r.out) /\ Held(r.queue, r.out, S)
    BY DEF Plain, Sorted, Once
  <1>1. pkt.id \in Nat /\ pkt.sn \in Sns /\ r.expected \in Nat
    BY <1>0 DEF DataPackets, Receivers, Sns
  <1>2. PICK F \in Nat, M \in Nat, m \in Nat, x \in Nat :
           F = First /\ M = MAX_GMA_SN /\ m = n /\ x = pkt.id
    BY <1>0, <1>1
  <1>3. 2 * (F + m) <= M /\ x < m /\ pkt.sn = F + x
    BY <1>0, <1>2 DEF Arrives
  <1>4. F + x \in Nat /\ F + x # M /\ (F + x) + 1 <= F + m
    BY <1>3
  <1>5. pkt.sn \in Nat /\ pkt.sn # MAX_GMA_SN /\ pkt.sn + 1 <= First + n
    BY <1>2, <1>3, <1>4
  <1>6. NextSn(pkt.sn) = pkt.sn + 1
    BY <1>1, <1>5, NextSnIsSn
  <1>7. r \in Once(T)
    BY <1>0, HeldGrows DEF Once, Arrives
  <1>8. ASSUME NEW c \in Links, NEW i \in 1 .. Len(r.queue[c])
        PROVE  /\ r.queue[c][i] \in Items /\ r.queue[c][i].sn \in Nat
               /\ r.queue[c][i].sn < P[c] /\ r.queue[c][i].sn < Q[c]
               /\ r.queue[c][i].sn # pkt.sn
    <2>1. PICK it \in Items : it = r.queue[c][i]
      BY <1>0, QueueTypes
    <2>2. it.sn \in Nat /\ it.id \in Nat /\ it.sn = First + it.id /\ it.sn < P[c] /\ it.id \in S
      BY <1>0, <2>1 DEF Items, Sns, Ordered, Ascending, Positioned, Held
    <2>3. it.sn < Q[c]
      <3>1. PICK a \in Nat, b \in Nat, y \in Nat : a = P[c] /\ b = Q[c] /\ y = it.sn
        BY <2>2
      <3>2. y < a /\ a <= b
        BY <2>2, <3>1 DEF Arrives
      <3>3. y < b
        BY <3>2
      <3> QED
        BY <3>1, <3>3
    <2>4. it.id # pkt.id
      BY <2>2 DEF Arrives
    <2>5. it.sn # pkt.sn
      <3>1. PICK y \in Nat : y = it.id
        BY <2>2
      <3>2. F + y # F + x
        BY <1>2, <2>4, <3>1
      <3> QED
        BY <1>2, <1>3, <2>2, <3>1, <3>2
    <2> QED
      BY <2>1, <2>2, <2>3, <2>5
  <1> QED
    BY <1>0, <1>1, <1>5, <1>6, <1>7, <1>8 DEF ArrivalNumbers

\* A packet that is not before the expected one, and before everything queued, is delivered.
LEMMA SortedDelivered ==
    ASSUME NEW n, Plain(n), NEW S, NEW T, NEW P \in [Links -> Nat], NEW Q \in [Links -> Nat],
           NEW r \in Sorted(S, P, n), NEW pkt \in DataPackets, NEW cid \in Links,
           Arrives(r, S, T, P, Q, n, pkt, cid), r.expected <= pkt.sn,
           \A c \in Links : \A i \in 1 .. Len(r.queue[c]) : pkt.sn < r.queue[c][i].sn
    PROVE  Delivered(r, pkt) \in Sorted(T, Q, n)
  <1>0. ArrivalNumbers(r, S, T, P, Q, n, pkt)
    BY ArrivesNumbers
  <1>1. /\ pkt.sn \in Nat /\ pkt.id \in Nat /\ First \in Nat /\ n \in Nat /\ r.expected \in Nat
        /\ r \in Receivers /\ r \in Once(S) /\ pkt.sn + 1 <= First + n
        /\ NextSn(pkt.sn) = pkt.sn + 1
    BY <1>0 DEF ArrivalNumbers
  <1>2. Ordered(r, P, n)
    BY DEF Sorted
  <1>3. PICK s : s = Delivered(r, pkt) /\ IsDelivered(s, r, pkt)
    BY <1>1, DeliveredIsDelivered
  <1>4. s \in Once(T)
    BY <1>1, <1>3, OnceDelivered DEF Arrives
  <1>5. s.queue = r.queue /\ s.expected = pkt.sn + 1
    BY <1>1, <1>3 DEF IsDelivered
  <1>6. First <= s.expected /\ s.expected <= First + n
    <2>1. First <= r.expected
      BY <1>2 DEF Ordered
    <2> QED
      BY <1>1, <1>5, <2>1
  <1>7. Ascending(s.queue, s.expected, n)
    <2>1. ASSUME NEW c \in Links, NEW i \in 1 .. Len(r.queue[c])
          PROVE  pkt.sn + 1 <= r.queue[c][i].sn
      <3>1. PICK y \in Nat : y = r.queue[c][i].sn
        BY <1>0 DEF ArrivalNumbers
      <3>2. PICK x \in Nat : x = pkt.sn /\ x < y
        BY <1>1, <3>1
      <3>3. x + 1 <= y
        BY <3>2
      <3> QED
        BY <3>1, <3>2, <3>3
    <2> QED
      BY <1>2, <1>5, <2>1 DEF Ordered, Ascending
  <1>8. Released(s.out, s.expected)
    <2>1. /\ Len(r.out) \in Nat /\ Len(s.out) = Len(r.out) + 1
          /\ \A k \in 1 .. Len(r.out) : s.out[k] = r.out[k] /\ r.out[k] \in Nat
          /\ s.out[Len(r.out) + 1] = pkt.id
      BY <1>1, <1>3, QueueTypes DEF IsDelivered
    <2>2. \A k \in 1 .. Len(r.out) : First + r.out[k] < r.expected
      BY <1>2 DEF Ordered, Released
    <2>3. \A k \in 1 .. Len(r.out) : \A l \in 1 .. Len(r.out) : k < l => r.out[k] < r.out[l]
      BY <1>2 DEF Ordered, Released
    <2>a. PICK F \in Nat, x \in Nat, e \in Nat, m \in Nat :
             /\ F = First /\ x = pkt.id /\ e = r.expected /\ m = s.expected
             /\ m = F + x + 1 /\ e <= F + x
      <3>1. PICK F \in Nat, x \in Nat, e \in Nat, y \in Nat :
               F = First /\ x = pkt.id /\ e = r.expected /\ y = pkt.sn
        BY <1>1
      <3>2. y = F + x /\ e <= y /\ s.expected = y + 1
        BY <1>5, <3>1 DEF Arrives
      <3>3. y + 1 = F + x + 1 /\ y + 1 \in Nat /\ e <= F + x
        BY <3>2
      <3> QED
        BY <3>1, <3>2, <3>3
    <2>b. m = F + x + 1 /\ e <= F + x
      BY <2>a
    <2>4. ASSUME NEW k \in 1 .. Len(r.out)
          PROVE  r.out[k] < pkt.id /\ First + r.out[k] < s.expected
      <3>1. PICK y \in Nat : y = r.out[k] /\ F + y < e
        BY <2>1, <2>2, <2>a
      <3>a. F + y < e
        BY <3>1
      <3>2. y < x /\ F + y < m
        BY <2>b, <3>a
      <3> QED
        BY <2>a, <3>1, <3>2
    <2>5. First + pkt.id < s.expected
      <3>1. F + x < m
        BY <2>b
      <3> QED
        BY <2>a, <3>1
    <2>6. \A k \in 1 .. Len(s.out) : \/ k \in 1 .. Len(r.out) /\ s.out[k] = r.out[k]
                                     \/ k = Len(r.out) + 1 /\ s.out[k] = pkt.id
      BY <2>1
    <2>7. ASSUME NEW k \in 1 .. Len(s.out) PROVE First + s.out[k] < s.expected
      <3>1. CASE k \in 1 .. Len(r.out) /\ s.out[k] = r.out[k]
        BY <2>4, <3>1
      <3>2. CASE s.out[k] = pkt.id
        BY <2>5, <3>2
      <3> QED
        BY <2>6, <3>1, <3>2
    <2>8. ASSUME NEW k \in 1 .. Len(s.out), NEW l \in 1 .. Len(s.out), k < l
          PROVE  s.out[k] < s.out[l]
      <3>1. k \in 1 .. Len(r.out) /\ s.out[k] = r.out[k]
        BY <2>1, <2>8
      <3>2. CASE l \in 1 .. Len(r.out)
        BY <2>1, <2>3, <2>8, <3>1, <3>2
      <3>3. CASE s.out[l] = pkt.id
        BY <2>4, <3>1, <3>3
      <3> QED
        BY <2>6, <3>2, <3>3
    <2> QED
      BY <2>7, <2>8 DEF Released
  <1>9. Positioned(s.queue, s.expected, Q)
    <2> SUFFICES ASSUME NEW c \in Links
                 PROVE  \/ Q[c] <= s.expected
                        \/ s.queue[c] # << >> /\ Q[c] <= s.queue[c][Len(s.queue[c])].sn + 1
      BY <1>5, <1>0 DEF ArrivalNumbers, Positioned
    <2>1. CASE c = cid
      BY <1>5, <2>1 DEF Arrives
    <2>2. CASE c # cid /\ P[c] <= r.expected
      <3>1. PICK a \in Nat, e \in Nat, x \in Nat : a = P[c] /\ e = r.expected /\ x = pkt.sn
        BY <1>1
      <3>2. a <= e /\ e <= x
        BY <2>2, <3>1
      <3>3. a <= x + 1
        BY <3>2
      <3> QED
        BY <1>5, <2>2, <3>1, <3>3 DEF Arrives
    <2>3. CASE c # cid /\ r.queue[c] # << >> /\ P[c] <= r.queue[c][Len(r.queue[c])].sn + 1
      BY <1>5, <2>3 DEF Arrives
    <2> QED
      BY <1>2, <2>1, <2>2, <2>3 DEF Ordered, Positioned
  <1> QED
    BY <1>3, <1>4, <1>6, <1>7, <1>8, <1>9 DEF Sorted, Ordered

LEMMA SortedQueued ==
    ASSUME NEW n, Plain(n), NEW S, NEW T, NEW P \in [Links -> Nat], NEW Q \in [Links -> Nat],
           NEW r \in Sorted(S, P, n), NEW pkt \in DataPackets, NEW cid \in Links,
           Arrives(r, S, T, P, Q, n, pkt, cid), r.expected <= pkt.sn, Q[cid] = pkt.sn + 1,
           NEW lost \in BOOLEAN
    PROVE  Queued(r, pkt, cid, lost) \in Sorted(T, Q, n)
  <1>0. ArrivalNumbers(r, S, T, P, Q, n, pkt)
    BY ArrivesNumbers
  <1>1. /\ pkt.sn \in Nat /\ pkt.id \in Nat /\ First \in Nat /\ n \in Nat /\ r.expected \in Nat
        /\ r \in Receivers /\ r \in Once(S)
    BY <1>0 DEF ArrivalNumbers
  <1>2. Ordered(r, P, n)
    BY DEF Sorted
  <1>3. PICK s : s = Queued(r, pkt, cid, lost) /\ IsQueued(s, r, pkt, cid, lost)
    BY <1>1, QueuedIsQueued
  <1>4. s \in Once(T)
    BY <1>1, <1>3, OnceQueued DEF Arrives
  <1>5. s \in Receivers /\ s.out = r.out /\ s.expected = r.expected
    BY <1>3 DEF IsQueued
  <1>6. PICK new : new = [sn |-> pkt.sn, id |-> pkt.id, inOrder |-> lost]
    OBVIOUS
  <1>7. /\ Len(r.queue[cid]) \in Nat /\ Len(s.queue[cid]) = Len(r.queue[cid]) + 1
        /\ s.queue[cid][Len(s.queue[cid])] = new
    BY <1>1, <1>3, <1>6, QueueTypes DEF IsQueued
  <1>8. \A c \in Links : \A i \in 1 .. Len(s.queue[c]) :
           \/ i \in 1 .. Len(r.queue[c]) /\ s.queue[c][i] = r.queue[c][i]
           \/ c = cid /\ i = Len(r.queue[cid]) + 1 /\ s.queue[c][i] = new
    <2> SUFFICES ASSUME NEW c \in Links, NEW i \in 1 .. Len(s.queue[c])
                 PROVE  \/ i \in 1 .. Len(r.queue[c]) /\ s.queue[c][i] = r.queue[c][i]
                        \/ c = cid /\ i = Len(r.queue[cid]) + 1 /\ s.queue[c][i] = new
      OBVIOUS
    <2>1. \/ i \in 1 .. Len(r.queue[c]) /\ s.queue[c][i] = r.queue[c][i]
          \/ /\ c = cid /\ i = Len(r.queue[cid]) + 1 /\ i = Len(s.queue[cid])
             /\ s.queue[c][i] = [sn |-> pkt.sn, id |-> pkt.id, inOrder |-> lost]
      BY <1>1, <1>3, <1>5, QueuedItems
    <2> QED
      BY <1>6, <2>1
  <1>9. new.sn = pkt.sn /\ new.id = pkt.id
    BY <1>6
  <1>10. \A i \in 1 .. Len(r.queue[cid]) : r.queue[cid][i].sn < pkt.sn
    <2> SUFFICES ASSUME NEW i \in 1 .. Len(r.queue[cid]) PROVE r.queue[cid][i].sn < pkt.sn
      OBVIOUS
    <2>1. PICK y \in Nat, a \in Nat : y = r.queue[cid][i].sn /\ a = P[cid] /\ y < a
      BY <1>0 DEF ArrivalNumbers
    <2>2. PICK x \in Nat : x = pkt.sn /\ a <= x
      BY <1>1, <2>1 DEF Arrives
    <2>3. y < x
      BY <2>1, <2>2
    <2> QED
      BY <2>1, <2>2, <2>3
  <1>11. Ascending(s.queue, s.expected, n)
    <2>1. ASSUME NEW c \in Links, NEW i \in 1 .. Len(s.queue[c])
          PROVE  /\ s.queue[c][i].sn = First + s.queue[c][i].id
                 /\ s.queue[c][i].id < n /\ s.expected <= s.queue[c][i].sn
      <3>1. CASE i \in 1 .. Len(r.queue[c]) /\ s.queue[c][i] = r.queue[c][i]
        BY <1>2, <1>5, <3>1 DEF Ordered, Ascending
      <3>2. CASE s.queue[c][i] = new
        BY <1>5, <1>9, <3>2 DEF Arrives
      <3> QED
        BY <1>8, <3>1, <3>2
    <2>2. ASSUME NEW c \in Links, NEW i \in 1 .. Len(s.queue[c]), NEW j \in 1 .. Len(s.queue[c]),
                 i < j
          PROVE  s.queue[c][i].sn < s.queue[c][j].sn
      <3>1. CASE c # cid
        <4>1. i \in 1 .. Len(r.queue[c]) /\ s.queue[c][i] = r.queue[c][i]
          BY <1>8, <3>1
        <4>2. j \in 1 .. Len(r.queue[c]) /\ s.queue[c][j] = r.queue[c][j]
          BY <1>8, <3>1
        <4> QED
          BY <1>2, <2>2, <4>1, <4>2 DEF Ordered, Ascending
      <3>2. CASE c = cid
        <4>1. i \in 1 .. Len(r.queue[cid])
          BY <1>7, <2>2, <3>2
        <4>2. s.queue[cid][i] = r.queue[cid][i]
          BY <1>3, <4>1 DEF IsQueued
        <4>3. CASE j \in 1 .. Len(r.queue[cid]) /\ s.queue[cid][j] = r.queue[cid][j]
          BY <1>2, <2>2, <3>2, <4>1, <4>2, <4>3 DEF Ordered, Ascending
        <4>4. CASE s.queue[cid][j] = new
          BY <1>9, <1>10, <3>2, <4>1, <4>2, <4>4
        <4> QED
          BY <1>8, <3>2, <4>3, <4>4
      <3> QED
        BY <3>1, <3>2
    <2> QED
      BY <2>1, <2>2 DEF Ascending
  <1>12. Positioned(s.queue, s.expected, Q)
    <2>1. ASSUME NEW c \in Links, NEW i \in 1 .. Len(s.queue[c])
          PROVE  s.queue[c][i].sn < Q[c]
      <3>1. CASE i \in 1 .. Len(r.queue[c]) /\ s.queue[c][i] = r.queue[c][i]
        BY <3>1, <1>0 DEF ArrivalNumbers
      <3>2. CASE c = cid /\ s.queue[c][i] = new
        BY <1>1, <1>9, <3>2
      <3> QED
        BY <1>8, <3>1, <3>2
    <2>2. ASSUME NEW c \in Links
          PROVE  \/ Q[c] <= s.expected
                 \/ s.queue[c] # << >> /\ Q[c] <= s.queue[c][Len(s.queue[c])].sn + 1
      <3>1. CASE c = cid
        <4>1. s.queue[cid] # << >>
          BY <1>5, <1>7, QueueTypes
        <4>2. Q[cid] <= s.queue[cid][Len(s.queue[cid])].sn + 1
          BY <1>1, <1>7, <1>9
        <4> QED
          BY <3>1, <4>1, <4>2
      <3>2. CASE c # cid
        <4>1. s.queue[c] = r.queue[c]
          BY <1>3, <3>2 DEF IsQueued
        <4>2. Q[c] = P[c]
          BY <3>2 DEF Arrives
        <4> QED
          BY <1>2, <1>5, <4>1, <4>2 DEF Ordered, Positioned
      <3> QED
        BY <3>1, <3>2
    <2> QED
      BY <2>1, <2>2 DEF Positioned
  <1> QED
    BY <1>2, <1>3, <1>4, <1>5, <1>11, <1>12 DEF Sorted, Ordered

\* A packet before the expected one is thrown away.
LEMMA SortedDiscarded ==
    ASSUME NEW n, Plain(n), NEW S, NEW T, NEW P \in [Links -> Nat], NEW Q \in [Links -> Nat],
           NEW r \in Sorted(S, P, n), NEW pkt \in DataPackets, NEW cid \in Links,
           Arrives(r, S, T, P, Q, n, pkt, cid), pkt.sn < r.expected
    PROVE  r \in Sorted(T, Q, n)
  <1>0. ArrivalNumbers(r, S, T, P, Q, n, pkt)
    BY ArrivesNumbers
  <1>1. /\ pkt.sn \in Nat /\ r.expected \in Nat /\ r \in Once(T) /\ Ordered(r, P, n)
    BY <1>0 DEF ArrivalNumbers, Sorted
  <1>2. Positioned(r.queue, r.expected, Q)
    <2> SUFFICES ASSUME NEW c \in Links
                 PROVE  \/ Q[c] <= r.expected
                        \/ r.queue[c] # << >> /\ Q[c] <= r.queue[c][Len(r.queue[c])].sn + 1
      BY <1>0 DEF ArrivalNumbers, Positioned
    <2>1. CASE c = cid
      <3>1. PICK q \in Nat, x \in Nat, e \in Nat : q = Q[cid] /\ x = pkt.sn /\ e = r.expected
        BY <1>1
      <3>2. q <= x + 1 /\ x < e
        BY <3>1 DEF Arrives
      <3>3. q <= e
        BY <3>2
      <3> QED
        BY <2>1, <3>1, <3>3
    <2>2. CASE c # cid
      BY <1>1, <2>2 DEF Arrives, Ordered, Positioned
    <2> QED
      BY <2>1, <2>2
  <1> QED
    BY <1>1, <1>2 DEF Sorted, Ordered

-----------------------------------------------------------------------------
(***************************************************************************)
(* Split mode: the order is kept whatever is lost, times out or fails.     *)
(***************************************************************************)
Positions(last) == [c \in Links |-> Pos(last[c])]

LEMMA PositionsAreNumbers ==
    ASSUME TypeOK
    PROVE  /\ Positions(m_gmaRxLast) \in [Links -> Nat]
           /\ \A c \in Links : Positions(m_gmaRxLast)[c] = Pos(m_gmaRxLast[c])
  <1>1. \A c \in Links : m_gmaRxLast[c].sn \in Nat
    BY ReorderAssumption DEF TypeOK, Sns
  <1>2. \A c \in Links : Pos(m_gmaRxLast[c]) \in Nat
    BY <1>1 DEF Pos
  <1> QED
    BY <1>2 DEF Positions

LEMMA PlainUpTo ==
    ASSUME TypeOK, Unwrapped, NEW n \in Nat, n <= sent
    PROVE  Plain(n)
  <1>1. First \in Nat /\ sent \in Nat /\ MAX_GMA_SN \in Nat /\ 2 * (First + sent) <= MAX_GMA_SN
    BY PlainNumbers
  <1>2. PICK F \in Nat, M \in Nat, m \in Nat : F = First /\ M = MAX_GMA_SN /\ m = sent
    BY <1>1
  <1>3. 2 * (F + m) <= M /\ n <= m
    BY <1>1, <1>2
  <1>4. 2 * (F + n) <= M
    BY <1>3
  <1> QED
    BY <1>1, <1>2, <1>4 DEF Plain

\* The packet that arrives leaves the wire, and is after what arrived over its link.
LEMMA PacketArrives ==
    ASSUME TypeOK, WireInv, NumberedInv, Unwrapped, scenario.mode # "duplicate",
           NEW cid \in Links, ReceiveData(cid)
    PROVE  /\ Arrived(wire, sent) \subseteq Arrived(wire', sent')
           /\ Head(wire[cid]).id \in Arrived(wire', sent') \ Arrived(wire, sent)
           /\ Pos(m_gmaRxLast[cid]) <= First + Head(wire[cid]).id
  <1>1. /\ Head(wire[cid]) = wire[cid][1] /\ 1 \in 1 .. Len(wire[cid]) /\ IsData(wire[cid][1])
        /\ wire \in Wires /\ wire' \in Wires /\ sent' = sent
        /\ Shifts(wire', wire, cid)
        /\ \A c \in Links : c # cid => wire'[c] = wire[c]
    BY ArrivingPacket
  <1>2. sent \in Nat /\ WireOK(wire, sent) /\ Apart(wire)
    BY PlainNumbers DEF WireInv
  <1>3. PICK v \in Wires : v = wire'
    BY <1>1
  <1>4. /\ Arrived(wire, sent) \subseteq Arrived(v, sent)
        /\ wire[cid][1].id \in Arrived(v, sent) \ Arrived(wire, sent)
    BY <1>1, <1>2, <1>3, TailArrives
  <1>5. Pos(m_gmaRxLast[cid]) <= First + wire[cid][1].id
    BY <1>1 DEF NumberedInv, NumberedOK, FlightOK
  <1> QED
    BY <1>1, <1>3, <1>4, <1>5

\* What the release loops get from InOrderDelivery is in order.
LEMMA OrderedArrival ==
    ASSUME TypeOK, WireInv, NumberedInv, Unwrapped, scenario.mode # "duplicate",
           NEW cid \in Links, ReceiveData(cid),
           NEW pkt \in DataPackets, pkt = Head(wire[cid]),
           NEW n \in Nat, n <= sent, pkt.id < n,
           NEW S, S = Arrived(wire, sent), NEW T, T = Arrived(wire', sent'),
           NEW P, P = Positions(m_gmaRxLast), NEW Q, Q = Positions(m_gmaRxLast'),
           NEW r \in Sorted(S, P, n), r.queue = m_reorderingQueue,
           m_gmaRxLast' = [m_gmaRxLast EXCEPT ![cid] = [sn |-> pkt.sn, lsn |-> pkt.lsn]]
    PROVE  /\ Plain(n) /\ P \in [Links -> Nat] /\ Q \in [Links -> Nat]
           /\ Arrives(r, S, T, P, Q, n, pkt, cid) /\ Q[cid] = pkt.sn + 1
           /\ ArrivalNumbers(r, S, T, P, Q, n, pkt)
           /\ Accepts(Sorted(T, Q, n), r, pkt, cid, GapIsLost(pkt, cid))
           /\ (pkt.sn # r.expected /\ SnDiff(pkt.sn, r.expected) < 0) =>
                 pkt.sn < r.expected /\ r \in Sorted(T, Q, n)
           /\ (pkt.sn # r.expected /\ ~ (SnDiff(pkt.sn, r.expected) < 0)) =>
                 r.expected < pkt.sn
  <1>1. Plain(n) /\ P \in [Links -> Nat] /\ \A c \in Links : P[c] = Pos(m_gmaRxLast[c])
    BY PlainUpTo, PositionsAreNumbers
  <1>2. S \subseteq T /\ pkt.id \in T \ S /\ P[cid] <= First + pkt.id /\ pkt.sn = First + pkt.id
        /\ pkt.id \in Nat
    BY <1>1, PacketArrives, ArrivingPacket
  <1>3. /\ m_gmaRxLast'[cid].sn = pkt.sn
        /\ \A c \in Links : c # cid => m_gmaRxLast'[c] = m_gmaRxLast[c]
    BY DEF TypeOK
  <1>4. pkt.sn \in Nat /\ pkt.sn # MAX_GMA_SN
    <2>1. PICK F \in Nat, M \in Nat, m \in Nat, x \in Nat :
             F = First /\ M = MAX_GMA_SN /\ m = n /\ x = pkt.id
      BY <1>1, <1>2 DEF Plain
    <2>2. 2 * (F + m) <= M /\ x < m /\ pkt.sn = F + x
      BY <1>1, <1>2, <2>1 DEF Plain
    <2>3. F + x \in Nat /\ F + x # M
      BY <2>2
    <2> QED
      BY <2>1, <2>2, <2>3
  <1>5. /\ Q \in [Links -> Nat] /\ Q[cid] = pkt.sn + 1
        /\ \A c \in Links : c # cid => Q[c] = P[c]
    <2>1. \A c \in Links : Q[c] = Pos(m_gmaRxLast'[c])
      BY DEF Positions
    <2>2. Q[cid] = pkt.sn + 1
      BY <1>3, <1>4, <2>1 DEF Pos
    <2>3. \A c \in Links : c # cid => Q[c] = P[c]
      BY <1>1, <1>3, <2>1
    <2>4. DOMAIN Q = Links /\ Q = [c \in Links |-> Q[c]]
      BY DEF Positions
    <2>5. \A c \in Links : Q[c] \in Nat
      <3>1. pkt.sn + 1 \in Nat
        BY <1>4
      <3> QED
        BY <1>1, <2>2, <2>3, <3>1
    <2> QED
      BY <2>2, <2>3, <2>4, <2>5
  <1>6. Arrives(r, S, T, P, Q, n, pkt, cid)
    <2>1. PICK a \in Nat, x \in Nat, q \in Nat : a = P[cid] /\ x = pkt.sn /\ q = Q[cid]
      BY <1>1, <1>4, <1>5
    <2>2. a <= x /\ q = x + 1
      BY <1>2, <1>5, <2>1
    <2>3. a <= q /\ q <= x + 1
      BY <2>2
    <2> QED
      BY <1>2, <1>5, <2>1, <2>2, <2>3 DEF Arrives
  <1>7. ArrivalNumbers(r, S, T, P, Q, n, pkt)
    BY <1>1, <1>5, <1>6, ArrivesNumbers
  <1>8. r.expected \in Nat /\ r \in Receivers /\ Ordered(r, P, n)
    BY <1>7 DEF ArrivalNumbers, Sorted
  <1>9. SnDiff(pkt.sn, r.expected) = pkt.sn - r.expected
    <2>1. PICK F \in Nat, M \in Nat, x \in Nat, e \in Nat :
             F = First /\ M = MAX_GMA_SN /\ x = pkt.sn /\ e = r.expected
      BY <1>1, <1>4, <1>8 DEF Plain
    <2>2. 2 * (F + n) <= M /\ x + 1 <= F + n /\ e <= F + n
      BY <1>1, <1>7, <1>8, <2>1 DEF Plain, ArrivalNumbers, Ordered
    <2>3. 2 * x <= M /\ 2 * e <= M
      BY <2>2
    <2>4. SnDiff(x, e) = x - e
      BY <2>1, <2>3, SnDiffIsDifference
    <2> QED
      BY <2>1, <2>4
  <1>10. /\ SnDiff(pkt.sn, r.expected) < 0 => pkt.sn < r.expected
         /\ (pkt.sn # r.expected /\ ~ (SnDiff(pkt.sn, r.expected) < 0)) => r.expected < pkt.sn
    BY <1>4, <1>8, <1>9
  <1>11. \A c \in Links : \A i \in 1 .. Len(r.queue[c]) :
            r.queue[c][i].sn \in Nat /\ r.queue[c][i].sn # pkt.sn /\ r.expected <= r.queue[c][i].sn
    BY <1>7, <1>8 DEF ArrivalNumbers, Ordered, Ascending
  <1>12. CASE pkt.sn = r.expected
    <2>1. \A c \in Links : \A i \in 1 .. Len(r.queue[c]) : pkt.sn < r.queue[c][i].sn
      BY <1>8, <1>11, <1>12
    <2>a. r.expected <= pkt.sn
      BY <1>8, <1>12
    <2>2. Delivered(r, pkt) \in Sorted(T, Q, n)
      BY <1>1, <1>5, <1>6, <2>a, <2>1, SortedDelivered
    <2> QED
      BY <1>1, <1>5, <1>6, <1>7, <1>10, <1>12, <2>2 DEF Accepts
  <1>13. CASE pkt.sn # r.expected /\ SnDiff(pkt.sn, r.expected) < 0
    <2>1. r \in Sorted(T, Q, n)
      BY <1>1, <1>5, <1>6, <1>10, <1>13, SortedDiscarded
    <2> QED
      BY <1>1, <1>5, <1>6, <1>7, <1>10, <1>13, <2>1 DEF Accepts
  <1>14. CASE pkt.sn # r.expected /\ ~ (SnDiff(pkt.sn, r.expected) < 0)
    <2>1. r.expected < pkt.sn /\ r.expected <= pkt.sn
      BY <1>4, <1>8, <1>10, <1>14
    <2>2. PICK lost \in BOOLEAN : lost = GapIsLost(pkt, cid)
      BY DEF GapIsLost
    <2>3. Queued(r, pkt, cid, lost) \in Sorted(T, Q, n)
      BY <1>1, <1>5, <1>6, <2>1, SortedQueued
    <2>4. ASSUME lost, r.queue[cid] = << >>
          PROVE  Delivered(r, pkt) \in Sorted(T, Q, n)
      <3>1. P[cid] <= r.expected
        BY <1>8, <2>4 DEF Ordered, Positioned
      <3>2. ASSUME NEW c \in Links, NEW i \in 1 .. Len(r.queue[c])
            PROVE  pkt.sn < r.queue[c][i].sn
        <4>1. c # cid
          <5>1. Len(<< >>) = 0 /\ 1 .. 0 = {}
            OBVIOUS
          <5> QED
            BY <2>4, <3>2, <5>1
        <4>2. PICK y \in Nat : y = r.queue[c][i].sn
          BY <1>11
        <4>3. y # pkt.sn /\ r.expected <= y
          BY <1>11, <4>2
        <4>4. GapIsLost(Head(wire[cid]), cid)
          BY <2>2, <2>4
        <4>5. ~ (Pos(m_gmaRxLast[cid]) <= y /\ y < First + pkt.id)
          BY <3>2, <4>1, <4>2, <4>4, GapMeansSent
        <4>6. ~ (P[cid] <= y /\ y < pkt.sn)
          BY <1>1, <1>2, <4>5
        <4>7. PICK a \in Nat, e \in Nat, x \in Nat : a = P[cid] /\ e = r.expected /\ x = pkt.sn
          BY <1>1, <1>4, <1>8
        <4>8. a <= e /\ e <= y /\ y # x /\ ~ (a <= y /\ y < x)
          BY <3>1, <4>3, <4>6, <4>7
        <4>9. x < y
          BY <4>8
        <4> QED
          BY <4>2, <4>7, <4>9
      <3> QED
        BY <1>1, <1>5, <1>6, <2>1, <3>2, SortedDelivered
    <2> QED
      BY <1>1, <1>5, <1>6, <1>7, <1>14, <2>1, <2>2, <2>3, <2>4 DEF Accepts
  <1> QED
    BY <1>12, <1>13, <1>14

\* Without reordering a packet is delivered as it arrives.
LEMMA DirectArrival ==
    ASSUME TypeOK, WireInv, NumberedInv, Unwrapped, scenario.mode # "duplicate",
           NEW cid \in Links, ReceiveData(cid),
           NEW pkt \in DataPackets, pkt = Head(wire[cid]),
           NEW n \in Nat, n <= sent, pkt.id < n,
           NEW S, S = Arrived(wire, sent), NEW T, T = Arrived(wire', sent'),
           NEW P, P = Positions(m_gmaRxLast),
           NEW r \in Sorted(S, P, n), IsEmpty(r), r.expected <= pkt.sn
    PROVE  Delivered(r, pkt) \in Sorted(T, P, n)
  <1>1. Plain(n) /\ P \in [Links -> Nat] /\ \A c \in Links : P[c] = Pos(m_gmaRxLast[c])
    BY PlainUpTo, PositionsAreNumbers
  <1>2. S \subseteq T /\ pkt.id \in T \ S /\ P[cid] <= First + pkt.id /\ pkt.sn = First + pkt.id
        /\ pkt.id \in Nat /\ First \in Nat
    BY <1>1, PacketArrives, ArrivingPacket, PlainNumbers
  <1>3. Arrives(r, S, T, P, P, n, pkt, cid)
    <2>1. PICK a \in Nat, x \in Nat : a = P[cid] /\ x = pkt.sn
      BY <1>1, <1>2
    <2>2. a <= x
      BY <1>2, <2>1
    <2>3. a <= a /\ a <= x + 1
      BY <2>2
    <2> QED
      BY <1>2, <2>1, <2>2, <2>3 DEF Arrives
  <1>4. \A c \in Links : \A i \in 1 .. Len(r.queue[c]) : pkt.sn < r.queue[c][i].sn
    <2>1. Len(<< >>) = 0 /\ 1 .. 0 = {}
      OBVIOUS
    <2> QED
      BY <2>1 DEF IsEmpty
  <1> QED
    BY <1>1, <1>3, <1>4, SortedDelivered

\* In split mode nothing ends the reordering.
Calm(b) == {s \in Receivers : s.newLink = NoCid /\ s.stop = FALSE /\ s.on = b}

LEMMA CalmIsClosed ==
    ASSUME NEW b
    PROVE  Calm(b) \in SUBSET Receivers /\ Closed(Calm(b))
  <1>1. ASSUME NEW r \in Calm(b), NEW s, NEW cid \in Links, IsPop(s, r, cid)
        PROVE  s \in Calm(b)
    BY <1>1 DEF Calm, IsPop, SameFlags
  <1> SUFFICES ASSUME NEW r \in Calm(b)
               PROVE  /\ ReleaseMinStep(r) \in Calm(b) /\ ReleaseInOrderStep(r) \in Calm(b)
    BY DEF Closed, Calm
  <1>2. r \in Receivers /\ r.newLink = NoCid
    BY DEF Calm
  <1>3. PICK cid : cid = MinCid(r.queue)
    OBVIOUS
  <1>4. PICK s, t : s = Pop(r, cid) /\ t = PopAndExpectNext(r, cid)
    OBVIOUS
  <1>5. (cid \in Links /\ r.queue[cid] # << >>) => s \in Calm(b) /\ t \in Calm(b)
    BY <1>1, <1>2, <1>4, PopPops
  <1>6. ReleaseMinStep(r) \in Calm(b)
    BY <1>2, <1>3, <1>4, <1>5, MinStepCases
  <1>7. ASSUME t \in Calm(b), t.expired > 0
        PROVE  [t EXCEPT !.expired = @ - 1] \in Calm(b)
    <2>1. t \in Receivers
      BY <1>7 DEF Calm
    <2>2. PICK u \in Receivers : u = [t EXCEPT !.expired = @ - 1]
      BY <1>7, <2>1, LessExpired
    <2>3. u.newLink = t.newLink /\ u.stop = t.stop /\ u.on = t.on
      BY <1>7, <2>1, <2>2, LessExpired
    <2> QED
      BY <1>7, <2>2, <2>3 DEF Calm
  <1>8. (cid \in Links /\ r.queue[cid] # << >>) => t.expired = r.expired
    <2> SUFFICES ASSUME cid \in Links, r.queue[cid] # << >> PROVE t.expired = r.expired
      OBVIOUS
    <2>1. IsPop(t, r, cid)
      BY <1>2, <1>4, PopPops
    <2> QED
      BY <2>1 DEF IsPop, SameFlags
  <1>9. cid \in Links => cid # NoCid
    BY LinksAreNumbers
  <1>10. \/ ReleaseInOrderStep(r) = r
         \/ /\ cid \in Links /\ r.queue[cid] # << >>
            /\ \/ r.newLink = cid
               \/ ReleaseInOrderStep(r) = t
               \/ ReleaseInOrderStep(r) = s
               \/ r.expired > 0 /\ ReleaseInOrderStep(r) = [t EXCEPT !.expired = @ - 1]
    BY <1>2, <1>3, <1>4, InOrderStepCases
  <1>11. ReleaseInOrderStep(r) \in Calm(b)
    BY <1>2, <1>5, <1>7, <1>8, <1>9, <1>10
  <1> QED
    BY <1>6, <1>11

LEMMA CalmArrival ==
    ASSUME NEW b, NEW r \in Calm(b), NEW pkt \in DataPackets, NEW cid \in Links,
           NEW lost \in BOOLEAN
    PROVE  Delivered(r, pkt) \in Calm(b) /\ Queued(r, pkt, cid, lost) \in Calm(b)
  <1>1. r \in Receivers /\ r.newLink = NoCid /\ r.stop = FALSE /\ r.on = b /\ cid # NoCid
    BY LinksAreNumbers DEF Calm
  <1>2. PICK s, t : s = Delivered(r, pkt) /\ t = Queued(r, pkt, cid, lost)
    OBVIOUS
  <1>3. IsDelivered(s, r, pkt) /\ IsQueued(t, r, pkt, cid, lost)
    BY <1>1, <1>2, DeliveredIsDelivered, QueuedIsQueued
  <1>4. s \in Calm(b)
    BY <1>1, <1>3 DEF IsDelivered, SameFlags, Calm
  <1>5. t.stop = (r.stop \/ (~ lost /\ r.newLink = cid))
    BY <1>3 DEF IsQueued
  <1>6. t.stop = FALSE
    BY <1>1, <1>5
  <1>7. t \in Calm(b)
    BY <1>1, <1>3, <1>6 DEF IsQueued, Calm
  <1> QED
    BY <1>2, <1>4, <1>7

LEMMA ClosedBoth ==
    ASSUME NEW G, NEW H, Closed(G), Closed(H)
    PROVE  Closed(G \cap H)
  BY DEF Closed

\* A receiver with nothing queued has nothing to release.
LEMMA NothingToRelease ==
    ASSUME NEW r \in Receivers, IsEmpty(r)
    PROVE  ReleaseInOrderPackets(r) = r /\ ReleaseMinSnPacket(r) = r
  <1>1. MinCid(r.queue) = NoCid
    BY MinCidCases
  <1>2. ReleaseInOrderStep(r) = r /\ ReleaseMinStep(r) = r
    BY <1>1 DEF ReleaseInOrderStep, ReleaseMinStep
  <1>3. {r} \in SUBSET Receivers
    OBVIOUS
  <1>4. \A s \in {r} : ReleaseMinStep(s) \in {r} /\ ReleaseInOrderStep(s) \in {r}
    BY <1>2
  <1>5. ReleaseMinSnPacket(r) \in {r} /\ ReleaseInOrderPackets(r) \in {r}
    BY <1>3, <1>4, MinKeeps, InOrderKeeps
  <1> QED
    BY <1>5

Contents(q, e, o) == [queue |-> q, expected |-> e, out |-> o]

\* The receiver is in order.
InOrder ==
    Ordered(Contents(m_reorderingQueue, m_gmaRxExpectedSn, forwarded),
            Positions(m_gmaRxLast), sent)

SplitOrder == m_newLinkCid = NoCid /\ m_stopReorderEvent = FALSE /\ InOrder

\* Before the first TSU the default link carries everything.
BeforeTsu(w, e) ==
    \A c \in Links : \A i \in 1 .. Len(w[c]) : IsData(w[c][i]) =>
       c = DefaultCid /\ e <= First + w[c][i].id

\* The inductive invariant of split mode.
SplitInv ==
    (Unwrapped /\ scenario.mode = "split") =>
       /\ SplitOrder
       /\ ~ m_enableReordering => BeforeTsu(wire, m_gmaRxExpectedSn)

LEMMA OrderedGrows ==
    ASSUME NEW s, NEW P, NEW n \in Nat, First \in Nat, s.expected \in Nat, Ordered(s, P, n),
           \A c \in Links : \A i \in 1 .. Len(s.queue[c]) : s.queue[c][i].id \in Nat
    PROVE  Ordered(s, P, n + 1)
  <1>1. s.expected <= First + n
    BY DEF Ordered
  <1>2. s.expected <= First + (n + 1)
    <2>1. PICK F \in Nat, e \in Nat : F = First /\ e = s.expected
      OBVIOUS
    <2>2. e <= F + n
      BY <1>1, <2>1
    <2>3. e <= F + (n + 1)
      BY <2>2
    <2> QED
      BY <2>1, <2>3
  <1>3. \A c \in Links : \A i \in 1 .. Len(s.queue[c]) : s.queue[c][i].id < n + 1
    <2> SUFFICES ASSUME NEW c \in Links, NEW i \in 1 .. Len(s.queue[c])
                 PROVE  s.queue[c][i].id < n + 1
      OBVIOUS
    <2>1. PICK x \in Nat : x = s.queue[c][i].id
      OBVIOUS
    <2>2. x < n
      BY <2>1 DEF Ordered, Ascending
    <2>3. x < n + 1
      BY <2>2
    <2> QED
      BY <2>1, <2>3
  <1> QED
    BY <1>2, <1>3 DEF Ordered, Ascending

LEMMA BeforeWithin ==
    ASSUME NEW v, NEW w, NEW e, Within(v, w), BeforeTsu(w, e)
    PROVE  BeforeTsu(v, e)
  <1> SUFFICES ASSUME NEW c \in Links, NEW i \in 1 .. Len(v[c]), IsData(v[c][i])
               PROVE  c = DefaultCid /\ e <= First + v[c][i].id
    BY DEF BeforeTsu
  <1>1. PICK j \in 1 .. Len(w[c]) : v[c][i] = w[c][j]
    BY DEF Within
  <1> QED
    BY <1>1 DEF BeforeTsu

LEMMA OrderedContents ==
    ASSUME NEW s, NEW P, NEW n
    PROVE  Ordered(Contents(s.queue, s.expected, s.out), P, n) <=> Ordered(s, P, n)
  BY DEF Ordered, Contents

\* The receiver of an ordered state, and a state that becomes an ordered receiver.
LEMMA SortedReceiver ==
    ASSUME TypeOK, OnceInv, scenario.mode # "duplicate", InOrder, NEW r \in Receivers,
           r.queue = m_reorderingQueue, r.out = forwarded, r.expected = m_gmaRxExpectedSn
    PROVE  r \in Sorted(Arrived(wire, sent), Positions(m_gmaRxLast), sent)
  <1>1. r \in Once(Arrived(wire, sent))
    BY DEF Once, OnceInv
  <1>2. Ordered(r, Positions(m_gmaRxLast), sent)
    BY OrderedContents DEF InOrder
  <1> QED
    BY <1>1, <1>2 DEF Sorted

LEMMA BecomesInOrder ==
    ASSUME NEW S, NEW s \in Sorted(S, Positions(m_gmaRxLast'), sent'), Becomes(s),
           scenario' = scenario
    PROVE  InOrder'
  <1>1. Ordered(s, Positions(m_gmaRxLast'), sent')
    BY DEF Sorted
  <1>2. Ordered(Contents(s.queue, s.expected, s.out), Positions(m_gmaRxLast'), sent')
    BY <1>1, OrderedContents
  <1>3. Ordered(Contents(m_reorderingQueue', m_gmaRxExpectedSn', forwarded'),
                Positions(m_gmaRxLast'), sent')
    BY <1>2 DEF Becomes
  <1> QED
    BY <1>3 DEF InOrder, Ordered, Ascending, Released, Positioned, Contents, Positions, First

LEMMA InOrderInit ==
    ASSUME Init, TypeOK
    PROVE  InOrder
  <1>1. /\ m_reorderingQueue = [c \in Links |-> << >>] /\ m_gmaRxExpectedSn = First
        /\ forwarded = << >> /\ sent = 0
    BY DEF Init, First
  <1>2. First \in Nat /\ First <= MAX_GMA_SN /\ MAX_GMA_SN \in Nat
    BY DefaultCidIsLink, ReorderAssumption DEF First, TypeOK
  <1>3. Len(<< >>) = 0 /\ 1 .. 0 = {}
    OBVIOUS
  <1>4. \A c \in Links : Positions(m_gmaRxLast)[c] <= First
    <2> SUFFICES ASSUME NEW c \in Links PROVE Pos(m_gmaRxLast[c]) <= First
      BY PositionsAreNumbers
    <2>1. CASE First > 0 /\ c = DefaultCid
      <3>1. m_gmaRxLast[c].sn = First - 1
        BY <2>1 DEF Init, First
      <3> QED
        BY <1>2, <3>1 DEF Pos
    <2>2. CASE ~ (First > 0 /\ c = DefaultCid)
      <3>1. m_gmaRxLast[c].sn = MAX_GMA_SN
        BY <2>2 DEF Init, First
      <3> QED
        BY <1>2, <3>1 DEF Pos
    <2> QED
      BY <2>1, <2>2
  <1>5. \A c \in Links : m_reorderingQueue[c] = << >>
    BY <1>1
  <1>6. First <= First + sent
    BY <1>1, <1>2
  <1>7. Ascending(m_reorderingQueue, First, sent) /\ Released(forwarded, First)
    BY <1>1, <1>3, <1>5 DEF Ascending, Released
  <1>8. Positioned(m_reorderingQueue, First, Positions(m_gmaRxLast))
    BY <1>3, <1>4, <1>5 DEF Positioned
  <1>9. First <= First
    BY <1>2
  <1> QED
    BY <1>1, <1>6, <1>7, <1>8, <1>9 DEF InOrder, Ordered, Contents

LEMMA InOrderTransmit ==
    ASSUME TypeOK, InOrder, scenario' = scenario, NEW cids, Transmit(cids)
    PROVE  InOrder'
  <1>1. /\ First \in Nat /\ sent \in Nat /\ m_gmaRxExpectedSn \in Nat
    BY DefaultCidIsLink, ReorderAssumption DEF TypeOK, First, Sns
  <1>2. \A c \in Links : \A i \in 1 .. Len(m_reorderingQueue[c]) :
           m_reorderingQueue[c][i].id \in Nat
    <2>1. \A c \in Links : m_reorderingQueue[c] \in Seq(Items)
      BY DEF TypeOK
    <2>2. \A c \in Links : \A i \in 1 .. Len(m_reorderingQueue[c]) :
             m_reorderingQueue[c][i] \in Items
      BY <2>1, ElementOfSeq
    <2> QED
      BY <2>2 DEF Items
  <1>3. PICK s : s = Contents(m_reorderingQueue, m_gmaRxExpectedSn, forwarded)
    OBVIOUS
  <1>4. s.queue = m_reorderingQueue /\ s.expected = m_gmaRxExpectedSn /\ s.out = forwarded
    BY <1>3 DEF Contents
  <1>5. Ordered(s, Positions(m_gmaRxLast), sent + 1)
    BY <1>1, <1>2, <1>3, <1>4, OrderedGrows DEF InOrder
  <1>6. /\ UNCHANGED <<m_reorderingQueue, m_gmaRxExpectedSn, forwarded, m_gmaRxLast>>
        /\ sent' = sent + 1
    BY DEF Transmit, rxVars
  <1>7. Ordered(Contents(m_reorderingQueue', m_gmaRxExpectedSn', forwarded'),
                Positions(m_gmaRxLast'), sent')
    BY <1>3, <1>5, <1>6
  <1> QED
    BY <1>7 DEF InOrder, Ordered, Ascending, Released, Positioned, Contents, Positions, First

LEMMA InOrderSame ==
    ASSUME InOrder, UNCHANGED <<m_reorderingQueue, m_gmaRxExpectedSn, forwarded, m_gmaRxLast,
                                sent, scenario>>
    PROVE  InOrder'
  BY DEF InOrder, Ordered, Ascending, Released, Positioned, Contents, Positions, First

LEMMA SplitInit ==
    ASSUME Init, TypeOK
    PROVE  SplitInv
  <1> SUFFICES ASSUME scenario.mode = "split" PROVE SplitOrder /\ BeforeTsu(wire, m_gmaRxExpectedSn)
    BY DEF SplitInv
  <1>1. m_newLinkCid = NoCid /\ m_stopReorderEvent = FALSE
    BY DEF Init
  <1>2. Len(<< >>) = 0 /\ 1 .. 0 = {}
    OBVIOUS
  <1>3. BeforeTsu(wire, m_gmaRxExpectedSn)
    BY <1>2 DEF Init, BeforeTsu
  <1> QED
    BY <1>1, <1>3, InOrderInit DEF SplitOrder

\* The arrival of a packet leads to a state that is in order; without reordering it does
\* when the packet is not before the expected one.  G is what else the loops keep.
LEMMA InOrderReceive ==
    ASSUME TypeOK, WireInv, OnceInv, TimerInv, NumberedInv, Unwrapped,
           scenario.mode # "duplicate", NEW cid \in Links, ReceiveData(cid),
           NEW pkt \in DataPackets, pkt = Head(wire[cid]), NEW r \in Receivers,
           NEW n \in Nat, n <= sent, pkt.id < n,
           r \in Sorted(Arrived(wire, sent), Positions(m_gmaRxLast), n),
           r.queue = m_reorderingQueue, r.expected = m_gmaRxExpectedSn, m_enableReordering => r.on,
           NEW G \in SUBSET Receivers,
           \A T : \A Q \in [Links -> Nat] : Closed(Sorted(T, Q, n) \cap G),
           pkt.sn < r.expected => r \in G,
           r.expected <= pkt.sn => /\ Delivered(r, pkt) \in G
                                   /\ \A lost \in BOOLEAN : Queued(r, pkt, cid, lost) \in G,
           \/ r.on /\ InOrderDelivery(r, pkt, cid)
           \/ /\ ~ r.on /\ Becomes(Delivered(r, pkt)) /\ UNCHANGED m_gmaRxLast
              /\ m_gmaRxExpectedSn <= pkt.sn
    PROVE  \E s \in G : /\ Becomes(s)
                        /\ s \in Sorted(Arrived(wire', sent'), Positions(m_gmaRxLast'), n)
  <1>1. PICK S, T, P, Q : /\ S = Arrived(wire, sent) /\ T = Arrived(wire', sent')
                          /\ P = Positions(m_gmaRxLast) /\ Q = Positions(m_gmaRxLast')
    OBVIOUS
  <1>2. r \in Sorted(S, P, n)
    BY <1>1
  <1>4. CASE InOrderDelivery(r, pkt, cid)
    <2>1. m_gmaRxLast' = [m_gmaRxLast EXCEPT ![cid] = [sn |-> pkt.sn, lsn |-> pkt.lsn]]
      BY <1>4 DEF InOrderDelivery
    <2>2. /\ Plain(n) /\ Q \in [Links -> Nat]
          /\ Accepts(Sorted(T, Q, n), r, pkt, cid, GapIsLost(pkt, cid))
          /\ (pkt.sn # r.expected /\ SnDiff(pkt.sn, r.expected) < 0) =>
                pkt.sn < r.expected /\ r \in Sorted(T, Q, n)
          /\ (pkt.sn # r.expected /\ ~ (SnDiff(pkt.sn, r.expected) < 0)) =>
                r.expected < pkt.sn
          /\ ArrivalNumbers(r, S, T, P, Q, n, pkt)
      BY <1>1, <1>2, <2>1, OrderedArrival
    <2>3. PICK lost \in BOOLEAN : lost = GapIsLost(pkt, cid)
      BY DEF GapIsLost
    <2>4. PICK H : H = Sorted(T, Q, n) \cap G
      OBVIOUS
    <2>5. H \in SUBSET Receivers /\ Closed(H)
      BY <2>2, <2>4
    <2>6. Accepts(H, r, pkt, cid, GapIsLost(pkt, cid))
      <3>0. pkt.sn \in Nat /\ r.expected \in Nat
        BY <2>2 DEF ArrivalNumbers
      <3>1. pkt.sn = r.expected => r.expected <= pkt.sn
        BY <3>0
      <3>2. (pkt.sn # r.expected /\ ~ (SnDiff(pkt.sn, r.expected) < 0)) => r.expected <= pkt.sn
        BY <2>2, <3>0
      <3> QED
        BY <2>2, <2>3, <2>4, <3>1, <3>2 DEF Accepts
    <2>7. \/ \E s \in H : Becomes(s)
          \/ pkt.sn # r.expected /\ SnDiff(pkt.sn, r.expected) < 0 /\ Becomes(r)
      BY <1>4, <2>5, <2>6, ArrivalStays
    <2>8. \E s \in H : Becomes(s)
      BY <2>2, <2>4, <2>7
    <2> QED
      BY <1>1, <2>4, <2>8
  <1>5. CASE ~ r.on /\ Becomes(Delivered(r, pkt)) /\ UNCHANGED m_gmaRxLast
             /\ m_gmaRxExpectedSn <= pkt.sn
    <2>1. IsEmpty(r)
      BY <1>5 DEF TimerInv, QueuesEmpty, IsEmpty
    <2>2. Delivered(r, pkt) \in Sorted(T, P, n)
      BY <1>1, <1>2, <1>5, <2>1, DirectArrival
    <2>3. Q = P
      BY <1>1, <1>5
    <2> QED
      BY <1>1, <1>5, <2>2, <2>3
  <1> QED
    BY <1>4, <1>5

LEMMA SplitReceive ==
    ASSUME TypeOK, WireInv, OnceInv, TimerInv, NumberedInv, SplitInv, Unwrapped,
           scenario.mode = "split", scenario' = scenario, NEW cid \in Links, ReceiveData(cid)
    PROVE  SplitOrder' /\ (~ m_enableReordering' => BeforeTsu(wire', m_gmaRxExpectedSn'))
  <1>0. SplitOrder /\ (~ m_enableReordering => BeforeTsu(wire, m_gmaRxExpectedSn))
    BY DEF SplitInv
  <1>1. PICK pkt \in DataPackets : pkt = Head(wire[cid])
    BY ReceiveDataCases
  <1>2. PICK x \in Expirations : \E r \in Receivers :
           /\ r = OnArrival(Receiver(x), cid)
           /\ \/ r.on /\ InOrderDelivery(r, pkt, cid)
              \/ /\ ~ r.on /\ Becomes(Delivered(r, pkt))
                 /\ UNCHANGED <<m_gmaRxLast, m_reorderingTimeoutEvent, discarded>>
    BY <1>1, ReceiveDataCases
  <1>3. PICK r \in Receivers :
           /\ r = OnArrival(Receiver(x), cid)
           /\ \/ r.on /\ InOrderDelivery(r, pkt, cid)
              \/ ~ r.on /\ Becomes(Delivered(r, pkt)) /\ UNCHANGED m_gmaRxLast
    BY <1>2
  <1>4. /\ Receiver(x) \in Receivers
        /\ Receiver(x).queue = m_reorderingQueue /\ Receiver(x).out = forwarded
        /\ Receiver(x).expected = m_gmaRxExpectedSn /\ Receiver(x).on = m_enableReordering
        /\ Receiver(x).newLink = m_newLinkCid /\ Receiver(x).stop = m_stopReorderEvent
    BY ExpirationsAreNumbers, ReceiverIsReceiver
  <1>5. r = Receiver(x)
    BY <1>3, <1>4, OnArrivalFacts
  <1>6. PICK b \in BOOLEAN : b = m_enableReordering
    BY DEF TypeOK
  <1>7. r \in Calm(b)
    BY <1>0, <1>4, <1>5, <1>6 DEF Calm, SplitOrder
  <1>8. /\ pkt = wire[cid][1] /\ 1 \in 1 .. Len(wire[cid]) /\ IsData(wire[cid][1])
        /\ pkt.sn = First + pkt.id
    BY <1>1, ArrivingPacket
  <1>9. ~ r.on => m_gmaRxExpectedSn <= pkt.sn
    BY <1>0, <1>4, <1>5, <1>8 DEF BeforeTsu
  <1>10. PICK G : G = Calm(b)
    OBVIOUS
  <1>11. /\ G \in SUBSET Receivers /\ Closed(G) /\ r \in G /\ Delivered(r, pkt) \in G
         /\ \A lost \in BOOLEAN : Queued(r, pkt, cid, lost) \in G
    BY <1>7, <1>10, CalmIsClosed, CalmArrival
  <1>12. PICK s \in G :
            /\ Becomes(s)
            /\ s \in Sorted(Arrived(wire', sent'), Positions(m_gmaRxLast'), sent')
    <2>1. /\ r.queue = m_reorderingQueue /\ r.out = forwarded /\ r.expected = m_gmaRxExpectedSn
          /\ m_enableReordering => r.on
      BY <1>4, <1>5
    <2>2. \/ r.on /\ InOrderDelivery(r, pkt, cid)
          \/ /\ ~ r.on /\ Becomes(Delivered(r, pkt)) /\ UNCHANGED m_gmaRxLast
             /\ m_gmaRxExpectedSn <= pkt.sn
      BY <1>3, <1>9
    <2>3. r \in Sorted(Arrived(wire, sent), Positions(m_gmaRxLast), sent)
      BY <1>0, <1>4, <1>5, SortedReceiver DEF SplitOrder
    <2>4. sent \in Nat /\ sent <= sent /\ pkt.id < sent /\ sent' = sent
      BY <1>1, PlainNumbers, ArrivingPacket
    <2>5. \A T : \A Q \in [Links -> Nat] : Closed(Sorted(T, Q, sent) \cap G)
      <3>1. Plain(sent)
        BY <2>4, PlainUpTo
      <3>2. \A T : \A Q \in [Links -> Nat] : Closed(Sorted(T, Q, sent))
        BY <3>1, SortedIsClosed
      <3> QED
        BY <1>11, <3>2, ClosedBoth
    <2>6. \E s \in G : /\ Becomes(s)
                      /\ s \in Sorted(Arrived(wire', sent'), Positions(m_gmaRxLast'), sent)
      BY <1>1, <1>11, <2>1, <2>2, <2>3, <2>4, <2>5, InOrderReceive
    <2> QED
      BY <2>4, <2>6
  <1>13. InOrder'
    BY <1>12, BecomesInOrder
  <1>14. m_newLinkCid' = NoCid /\ m_stopReorderEvent' = FALSE /\ m_enableReordering' = b
    BY <1>10, <1>12 DEF Calm, Becomes
  <1>15. ASSUME ~ m_enableReordering' PROVE BeforeTsu(wire', m_gmaRxExpectedSn')
    <2>1. ~ r.on /\ Becomes(Delivered(r, pkt))
      BY <1>3, <1>4, <1>5, <1>6, <1>14, <1>15
    <2>2. IsDelivered(Delivered(r, pkt), r, pkt)
      BY DeliveredIsDelivered
    <2>3. m_gmaRxExpectedSn' = NextSn(pkt.sn)
      BY <2>1, <2>2 DEF Becomes, IsDelivered
    <2>4. /\ First \in Nat /\ pkt.id \in Nat /\ pkt.id < sent /\ MAX_GMA_SN \in Nat
          /\ First + pkt.id < MAX_GMA_SN
      BY <1>1, PlainNumbers, ArrivingPacket
    <2>5. m_gmaRxExpectedSn' = First + pkt.id + 1
      <3>1. PICK y \in Nat : y = First + pkt.id
        BY <2>4
      <3>2. y \in Sns /\ y # MAX_GMA_SN
        BY <2>4, <3>1 DEF Sns
      <3>3. NextSn(y) = y + 1
        BY <3>2, NextSnIsSn
      <3> QED
        BY <1>8, <2>3, <3>1, <3>3
    <2>6. BeforeTsu(wire, m_gmaRxExpectedSn)
      BY <1>0, <1>6, <1>14, <1>15
    <2>7. /\ wire' \in Wires /\ Within(wire', wire)
          /\ \A i \in 1 .. Len(wire'[cid]) : IsData(wire'[cid][i]) => pkt.id < wire'[cid][i].id
      BY <1>1, ArrivingPacket
    <2>8. cid = DefaultCid
      BY <1>8, <2>6 DEF BeforeTsu
    <2>9. ASSUME NEW c \in Links, NEW i \in 1 .. Len(wire'[c]), IsData(wire'[c][i])
          PROVE  c = DefaultCid /\ m_gmaRxExpectedSn' <= First + wire'[c][i].id
      <3>1. PICK j \in 1 .. Len(wire[c]) : wire'[c][i] = wire[c][j]
        BY <2>7, <2>9 DEF Within
      <3>2. c = DefaultCid
        BY <2>6, <2>9, <3>1 DEF BeforeTsu
      <3>3. pkt.id < wire'[c][i].id
        BY <2>7, <2>8, <2>9, <3>2
      <3>4. wire'[c][i].id \in Nat
        BY <2>7, <2>9, WireTypes
      <3>5. PICK F \in Nat, a \in Nat, z \in Nat : F = First /\ a = pkt.id /\ z = wire'[c][i].id
        BY <2>4, <3>4
      <3>6. a < z
        BY <3>3, <3>5
      <3>7. F + a + 1 <= F + z
        BY <3>6
      <3> QED
        BY <2>5, <3>2, <3>5, <3>7
    <2> QED
      BY <2>9 DEF BeforeTsu
  <1> QED
    BY <1>13, <1>14, <1>15 DEF SplitOrder

LEMMA SplitNext ==
    ASSUME TypeOK, WireInv, OnceInv, TimerInv, NumberedInv, SplitInv, [Next]_vars
    PROVE  SplitInv'
  <1>1. CASE UNCHANGED vars
    <2>1. UNCHANGED <<m_reorderingQueue, m_gmaRxExpectedSn, forwarded, m_gmaRxLast, sent,
                      scenario, m_newLinkCid, m_stopReorderEvent, m_enableReordering, wire>>
      BY <1>1 DEF vars, rxVars, txVars
    <2> QED
      BY <2>1, InOrderSame DEF SplitInv, SplitOrder, Unwrapped, BeforeTsu, DefaultCid, First
  <1>2. CASE Next
    <2>0. scenario' = scenario /\ scenario.links \subseteq Links
      BY <1>2, DefaultCidIsLink DEF Next, TypeOK
    <2> SUFFICES ASSUME Unwrapped, scenario.mode = "split"
                 PROVE  /\ SplitOrder'
                        /\ ~ m_enableReordering' => BeforeTsu(wire', m_gmaRxExpectedSn')
      BY <2>0 DEF SplitInv, Unwrapped, BeforeTsu, DefaultCid, First
    <2>1. /\ SplitOrder /\ InOrder /\ m_newLinkCid = NoCid /\ m_stopReorderEvent = FALSE
          /\ ~ m_enableReordering => BeforeTsu(wire, m_gmaRxExpectedSn)
      BY DEF SplitInv, SplitOrder
    <2>2. ASSUME NEW cids \in SUBSET Links, Transmit(cids)
          PROVE  /\ SplitOrder'
                 /\ ~ m_enableReordering' => BeforeTsu(wire', m_gmaRxExpectedSn')
      <3>1. /\ UNCHANGED <<m_newLinkCid, m_stopReorderEvent, m_enableReordering, m_gmaRxExpectedSn>>
            /\ InOrder'
        BY <2>0, <2>1, <2>2, InOrderTransmit DEF Transmit, rxVars
      <3>2. ASSUME ~ m_enableReordering PROVE BeforeTsu(wire', m_gmaRxExpectedSn)
        <4>1. PICK d \in Links : cids = {d}
          BY <2>2, WireTransmit, DefaultCidIsLink DEF TypeOK
        <4>2. d = DefaultCid
          BY <2>2, <3>2, <4>1 DEF Transmit
        <4>3. PICK p : p = [type |-> "data", sn |-> SnOf(sent), lsn |-> m_gmaTxLocalSn[d], id |-> sent]
          OBVIOUS
        <4>4. /\ wire' \in Wires /\ Grows(wire', wire, d, p)
              /\ \A c \in Links : c # d => wire'[c] = wire[c]
          BY <2>2, <4>1, <4>3, WireTransmit
        <4>5. p.id = sent
          BY <4>3
        <4>6. m_gmaRxExpectedSn <= First + sent
          BY <2>1 DEF InOrder, Ordered, Contents
        <4>7. wire \in Wires
          BY DEF TypeOK, Wires, Packets
        <4>8. \A i \in 1 .. Len(wire'[d]) :
                 \/ i \in 1 .. Len(wire[d]) /\ wire'[d][i] = wire[d][i]
                 \/ wire'[d][i] = p
          BY <4>4, <4>7, GrowsCases
        <4>9. ASSUME NEW c \in Links, NEW i \in 1 .. Len(wire'[c]), IsData(wire'[c][i])
              PROVE  c = DefaultCid /\ m_gmaRxExpectedSn <= First + wire'[c][i].id
          <5>1. CASE c # d
            BY <2>1, <3>2, <4>4, <4>9, <5>1 DEF BeforeTsu
          <5>2. CASE c = d /\ i \in 1 .. Len(wire[d]) /\ wire'[d][i] = wire[d][i]
            BY <2>1, <3>2, <4>9, <5>2 DEF BeforeTsu
          <5>3. CASE c = d /\ wire'[d][i] = p
            BY <4>2, <4>5, <4>6, <5>3
          <5> QED
            BY <4>8, <5>1, <5>2, <5>3
        <4> QED
          BY <4>9 DEF BeforeTsu
      <3> QED
        BY <2>1, <3>1, <3>2 DEF SplitOrder
    <2>3. ASSUME NEW cid \in scenario.links, ReceiveData(cid)
          PROVE  /\ SplitOrder'
                 /\ ~ m_enableReordering' => BeforeTsu(wire', m_gmaRxExpectedSn')
      BY <2>0, <2>3, SplitReceive
    <2>4. ASSUME NEW cid \in scenario.links, Lose(cid) \/ LinkChanges(cid) \/ ReceiveEndMarker(cid)
          PROVE  /\ SplitOrder'
                 /\ ~ m_enableReordering' => BeforeTsu(wire', m_gmaRxExpectedSn')
      <3>1. UNCHANGED <<m_reorderingQueue, m_gmaRxExpectedSn, forwarded, m_gmaRxLast, sent,
                        m_newLinkCid, m_stopReorderEvent, m_enableReordering>>
        <4>1. CASE Lose(cid) \/ LinkChanges(cid)
          BY <4>1 DEF Lose, LinkChanges, rxVars, txVars
        <4>2. CASE ReceiveEndMarker(cid)
          <5>0. cid \in Links /\ UNCHANGED <<m_gmaRxLast, sent>>
            BY <4>2, DefaultCidIsLink DEF ReceiveEndMarker, TypeOK
          <5>1. Becomes(Receiver(0))
            <6>1. cid # NoCid
              BY <5>0, LinksAreNumbers
            <6>2. PICK s \in Receivers :
                     /\ Becomes(s)
                     /\ \/ m_newLinkCid = NoCid /\ s = Receiver(0)
                        \/ m_newLinkCid = cid
                        \/ m_newLinkCid # NoCid
              BY <4>2, <5>0, EndMarkerCases
            <6>3. s = Receiver(0)
              BY <2>1, <6>1, <6>2
            <6> QED
              BY <6>2, <6>3
          <5> QED
            BY <5>0, <5>1, ReceiverIsReceiver DEF Becomes
        <4> QED
          BY <2>4, <4>1, <4>2
      <3>2. ~ \E cids \in SUBSET Links : Transmit(cids)
        BY <3>1, PlainNumbers DEF Transmit
      <3>3. Within(wire', wire)
        BY <1>2, <3>2, WithinCases
      <3> QED
        BY <2>0, <2>1, <3>1, <3>3, InOrderSame, BeforeWithin DEF SplitOrder
    <2>5. ASSUME NEW x \in Expirations, ReorderingTimeout(x)
          PROVE  /\ SplitOrder'
                 /\ ~ m_enableReordering' => BeforeTsu(wire', m_gmaRxExpectedSn')
      <3>1. PICK r \in Receivers : r = Receiver(x)
        BY ExpirationsAreNumbers, ReceiverIsReceiver
      <3>2. /\ r.queue = m_reorderingQueue /\ r.out = forwarded
            /\ r.expected = m_gmaRxExpectedSn /\ r.on = m_enableReordering
            /\ r.newLink = m_newLinkCid /\ r.stop = m_stopReorderEvent
        BY <3>1, ExpirationsAreNumbers, ReceiverIsReceiver
      <3>3. Becomes(ReleaseInOrderPackets(r))
        BY <2>5, <3>1, TimeoutCases
      <3>4. UNCHANGED <<m_gmaRxLast, sent, wire>>
        BY <2>5 DEF ReorderingTimeout, txVars
      <3>5. r \in Sorted(Arrived(wire, sent), Positions(m_gmaRxLast), sent)
        BY <2>1, <3>2, SortedReceiver
      <3>6. r \in Calm(m_enableReordering)
        BY <2>1, <3>2 DEF Calm
      <3>7. PICK G : G = Sorted(Arrived(wire, sent), Positions(m_gmaRxLast), sent)
                         \cap Calm(m_enableReordering)
        OBVIOUS
      <3>8. G \in SUBSET Receivers /\ Closed(G) /\ r \in G
        <4>1. Plain(sent) /\ Positions(m_gmaRxLast) \in [Links -> Nat]
          BY PlainUpTo, PlainNumbers, PositionsAreNumbers
        <4>2. Closed(Sorted(Arrived(wire, sent), Positions(m_gmaRxLast), sent))
          BY <4>1, SortedIsClosed
        <4>3. Closed(Calm(m_enableReordering)) /\ Calm(m_enableReordering) \in SUBSET Receivers
          BY CalmIsClosed
        <4> QED
          BY <3>5, <3>6, <3>7, <4>2, <4>3, ClosedBoth
      <3>9. PICK s \in G : s = ReleaseInOrderPackets(r)
        BY <3>8, ClosedKeeps
      <3>10. Becomes(s) /\ s \in Calm(m_enableReordering)
             /\ s \in Sorted(Arrived(wire, sent), Positions(m_gmaRxLast), sent)
        BY <3>3, <3>7, <3>9
      <3>11. InOrder'
        BY <2>0, <3>4, <3>10, BecomesInOrder
      <3>12. m_newLinkCid' = NoCid /\ m_stopReorderEvent' = FALSE
             /\ m_enableReordering' = m_enableReordering
        BY <3>10 DEF Becomes, Calm
      <3>13. ASSUME ~ m_enableReordering PROVE m_gmaRxExpectedSn' = m_gmaRxExpectedSn
        <4>1. IsEmpty(r)
          BY <3>2, <3>13 DEF TimerInv, QueuesEmpty, IsEmpty
        <4>2. s = r
          BY <3>9, <4>1, NothingToRelease
        <4> QED
          BY <3>2, <3>10, <4>2 DEF Becomes
      <3> QED
        BY <2>1, <3>4, <3>11, <3>12, <3>13 DEF SplitOrder
    <2>6. ~ StopReorderTimeout
      BY <2>1 DEF StopReorderTimeout
    <2>7. ASSUME SendTsu PROVE SplitOrder' /\ m_enableReordering' = TRUE
      <3>1. /\ UNCHANGED <<m_reorderingQueue, m_gmaRxExpectedSn, forwarded, m_gmaRxLast, sent,
                           m_newLinkCid, m_stopReorderEvent>>
            /\ m_enableReordering' = TRUE
        BY <2>7 DEF SendTsu, txVars
      <3> QED
        BY <2>0, <2>1, <3>1, InOrderSame DEF SplitOrder
    <2>8. \A cid \in scenario.links : ~ Steer(cid)
      BY DEF Steer
    <2> QED
      BY <1>2, <2>2, <2>3, <2>4, <2>5, <2>6, <2>7, <2>8 DEF Next, Step
  <1> QED
    BY <1>1, <1>2

LEMMA SplitInvariant == Spec => []SplitInv
  <1>1. Init => SplitInv
    BY InitType, SplitInit
  <1>2. TypeOK /\ WireInv /\ OnceInv /\ TimerInv /\ NumberedInv /\ SplitInv /\ [Next]_vars
           => SplitInv'
    BY SplitNext
  <1> QED
    BY <1>1, <1>2, TypeCorrect, WireInvariant, OnceInvariant, TimerInvariant,
       NumberedInvariant, PTL DEF Spec

LEMMA InOrderForwards ==
    ASSUME TypeOK, InOrder
    PROVE  \A i \in 1 .. (Len(forwarded) - 1) : forwarded[i] < forwarded[i + 1]
  <1>1. \A k \in 1 .. Len(forwarded) : \A l \in 1 .. Len(forwarded) :
           k < l => forwarded[k] < forwarded[l]
    BY DEF InOrder, Ordered, Released, Contents
  <1>2. Len(forwarded) \in Nat
    BY LenProperties DEF TypeOK
  <1> SUFFICES ASSUME NEW i \in 1 .. (Len(forwarded) - 1)
               PROVE  forwarded[i] < forwarded[i + 1]
    OBVIOUS
  <1>3. i \in 1 .. Len(forwarded) /\ i + 1 \in 1 .. Len(forwarded) /\ i < i + 1
    BY <1>2
  <1> QED
    BY <1>1, <1>3

-----------------------------------------------------------------------------
(***************************************************************************)
(* Split mode without time-outs and link failures: what is skipped was     *)
(* lost.  F[c] is the set of the numbers in flight over c.                 *)
(***************************************************************************)
Flying(F, S, P) ==
    \A c \in Links : \A x \in F[c] :
       x \in Nat /\ c \in up /\ P[c] <= x /\ \A id \in S : First + id # x

\* Nothing in flight is before the expected one.
Awaited(e, F) == \A c \in Links : \A x \in F[c] : e <= x

\* Nothing in flight is between a packet that was queued as in order and its predecessor.
Bridged(q, F) ==
    \A c \in Links : \A i \in 1 .. Len(q[c]) : q[c][i].inOrder =>
       \A d \in Links : \A x \in F[d] : x < q[c][i].sn => i > 1 /\ x < q[c][i - 1].sn

Patient(S, P, n, F) ==
    {s \in Sorted(S, P, n) : /\ s.newLink = NoCid /\ s.expired = 0
                             /\ Awaited(s.expected, F) /\ Bridged(s.queue, F)}

LEMMA PatientAdvances ==
    ASSUME NEW n, Plain(n), NEW S, NEW P \in [Links -> Nat], NEW F, Flying(F, S, P),
           NEW r \in Patient(S, P, n, F), NEW s \in Receivers, NEW cid \in Links,
           Advances(s, r, cid),
           \/ Head(r.queue[cid]).sn = r.expected
           \/ Head(r.queue[cid]).inOrder
           \/ \A link \in up : r.queue[link] # << >>
    PROVE  s \in Patient(S, P, n, F)
  <1>0. /\ r \in Sorted(S, P, n) /\ r.newLink = NoCid /\ r.expired = 0
        /\ Awaited(r.expected, F) /\ Bridged(r.queue, F)
    BY DEF Patient
  <1>1. s \in Sorted(S, P, n) /\ s.expected = r.queue[cid][1].sn + 1
    BY <1>0, SortedAdvances
  <1>2. /\ cid = MinCid(r.queue) /\ r.queue[cid] # << >> /\ IsPop(s, r, cid)
        /\ r \in Receivers /\ r \in Once(S) /\ Ordered(r, P, n) /\ Held(r.queue, r.out, S)
    BY <1>0 DEF Advances, Sorted, Once
  <1>3. s.newLink = NoCid /\ s.expired = 0
    BY <1>0, <1>2 DEF IsPop, SameFlags
  <1>4. PICK h \in Items : h = r.queue[cid][1] /\ h = Head(r.queue[cid]) /\ 1 \in 1 .. Len(r.queue[cid])
    BY <1>2, QueueTypes
  <1>5. h.sn \in Nat /\ h.sn = First + h.id /\ h.id \in S
    BY <1>2, <1>4, ReorderAssumption DEF Items, Sns, Ordered, Ascending, Held
  <1>6. ASSUME NEW d \in Links, NEW x \in F[d] PROVE x \in Nat /\ h.sn < x
    <2>1. x \in Nat /\ d \in up /\ P[d] <= x /\ h.sn # x
      BY <1>5 DEF Flying
    <2>2. r.expected <= x /\ r.expected \in Nat /\ P[d] \in Nat
      BY <1>0, <1>2, ReorderAssumption DEF Awaited, Receivers, Sns
    <2>3. CASE h.sn = r.expected
      BY <1>5, <2>1, <2>2, <2>3
    <2>4. CASE h.inOrder
      <3>1. ~ (x < h.sn)
        <4>1. x < h.sn => 1 > 1
          BY <1>0, <1>4, <2>4 DEF Bridged
        <4> QED
          BY <4>1
      <3> QED
        BY <1>5, <2>1, <3>1
    <2>5. CASE \A link \in up : r.queue[link] # << >>
      <3>1. r.queue[d] # << >>
        BY <2>1, <2>5
      <3>2. 1 \in 1 .. Len(r.queue[d]) /\ r.queue[d][1] \in Items
        BY <1>2, <3>1, QueueTypes
      <3>3. r.queue[d][1].sn < P[d] /\ r.queue[d][1].sn \in Nat
        BY <1>2, <3>2, ReorderAssumption DEF Ordered, Positioned, Items, Sns
      <3>4. r.queue[cid][1].sn <= r.queue[d][1].sn
        BY <1>2, <3>2, HeadIsLeast DEF Ordered
      <3>5. PICK y \in Nat, p \in Nat, z \in Nat : y = r.queue[d][1].sn /\ p = P[d] /\ z = h.sn
        BY <1>5, <2>2, <3>3
      <3>6. z <= y /\ y < p /\ p <= x
        BY <1>4, <2>1, <3>3, <3>4, <3>5
      <3>7. z < x
        BY <2>1, <3>6
      <3> QED
        BY <2>1, <3>5, <3>7
    <2> QED
      BY <1>4, <2>3, <2>4, <2>5
  <1>7. Awaited(s.expected, F)
    <2> SUFFICES ASSUME NEW d \in Links, NEW x \in F[d] PROVE h.sn + 1 <= x
      BY <1>1, <1>4 DEF Awaited
    <2>1. x \in Nat /\ h.sn < x
      BY <1>6
    <2> QED
      BY <1>5, <2>1
  <1>8. Bridged(s.queue, F)
    <2> SUFFICES ASSUME NEW c \in Links, NEW i \in 1 .. Len(s.queue[c]), s.queue[c][i].inOrder,
                        NEW d \in Links, NEW x \in F[d], x < s.queue[c][i].sn
                 PROVE  i > 1 /\ x < s.queue[c][i - 1].sn
      BY DEF Bridged
    <2>1. CASE c # cid /\ i \in 1 .. Len(r.queue[c]) /\ s.queue[c][i] = r.queue[c][i]
      <3>1. s.queue[c] = r.queue[c]
        BY <1>2, <2>1 DEF IsPop
      <3> QED
        BY <1>0, <2>1, <3>1 DEF Bridged
    <2>2. CASE c = cid /\ i + 1 \in 1 .. Len(r.queue[c]) /\ s.queue[c][i] = r.queue[c][i + 1]
      <3>1. PICK k \in 1 .. Len(r.queue[cid]) : k = i + 1
        BY <2>2
      <3>2. r.queue[cid][k].inOrder /\ x < r.queue[cid][k].sn
        BY <2>2, <3>1
      <3>3. x < r.queue[cid][k - 1].sn
        BY <1>0, <3>2 DEF Bridged
      <3>4. x < r.queue[cid][i].sn
        BY <3>1, <3>3
      <3>5. i # 1
        <4> SUFFICES ASSUME i = 1 PROVE FALSE
          OBVIOUS
        <4>1. x < h.sn
          BY <1>4, <3>4
        <4>2. x \in Nat /\ h.sn < x
          BY <1>6
        <4> QED
          BY <1>5, <4>1, <4>2
      <3>6. Len(s.queue[cid]) \in Nat
        BY QueueTypes
      <3>7. PICK j \in 1 .. Len(s.queue[cid]) : j = i - 1 /\ j + 1 = i /\ i > 1
        BY <2>2, <3>5, <3>6
      <3>8. s.queue[cid][j] = r.queue[cid][i]
        BY <1>2, <3>7 DEF IsPop
      <3> QED
        BY <2>2, <3>4, <3>7, <3>8
    <2> QED
      BY <1>2, <2>1, <2>2, PopItems
  <1> QED
    BY <1>1, <1>3, <1>7, <1>8 DEF Patient

LEMMA PatientIsClosed ==
    ASSUME NEW n, Plain(n), NEW S, NEW P \in [Links -> Nat], NEW F, Flying(F, S, P)
    PROVE  Patient(S, P, n, F) \in SUBSET Receivers /\ Closed(Patient(S, P, n, F))
  <1>1. PICK G : G = Patient(S, P, n, F)
    OBVIOUS
  <1>2. \A r \in G : r \in Sorted(S, P, n) /\ r \in Receivers /\ r.newLink = NoCid /\ r.expired = 0
    BY <1>1 DEF Patient, Sorted, Once
  <1> SUFFICES ASSUME NEW r \in G
               PROVE  ReleaseMinStep(r) \in G /\ ReleaseInOrderStep(r) \in G
    BY <1>1, <1>2 DEF Closed
  <1>3. PICK cid : cid = MinCid(r.queue)
    OBVIOUS
  <1>4. ASSUME NEW s, Advances(s, r, cid),
               \/ Head(r.queue[cid]).sn = r.expected
               \/ Head(r.queue[cid]).inOrder
               \/ \A link \in up : r.queue[link] # << >>
        PROVE  s \in G
    <2>1. cid \in Links /\ s \in Receivers
      BY <1>4 DEF Advances, IsPop
    <2> QED
      BY <1>1, <1>4, <2>1, PatientAdvances
  <1>5. \/ ReleaseMinStep(r) = r
        \/ Advances(ReleaseMinStep(r), r, cid) /\ \A link \in up : r.queue[link] # << >>
    BY <1>2, <1>3, SortedSteps
  <1>6. \/ ReleaseInOrderStep(r) = r
        \/ /\ Advances(ReleaseInOrderStep(r), r, cid)
           /\ Head(r.queue[cid]).sn = r.expected \/ Head(r.queue[cid]).inOrder
        \/ r.newLink = cid /\ cid \in Links
        \/ r.expired > 0
    BY <1>2, <1>3, SortedSteps
  <1>7. ~ (r.newLink = cid /\ cid \in Links) /\ ~ (r.expired > 0)
    BY <1>2, LinksAreNumbers
  <1> QED
    BY <1>4, <1>5, <1>6, <1>7

\* E is what stays in flight of F when the packet arrives over cid: what stays over cid
\* is after it.
Lands(E, F, pkt, cid) ==
    /\ pkt.sn \in F[cid]
    /\ \A c \in Links : E[c] \subseteq F[c]
    /\ \A x \in E[cid] : pkt.sn < x
    /\ \A c \in Links : \A x \in E[c] : x # pkt.sn

LEMMA LessInFlight ==
    ASSUME NEW E, NEW F, \A c \in Links : E[c] \subseteq F[c]
    PROVE  /\ \A e : Awaited(e, F) => Awaited(e, E)
           /\ \A q : Bridged(q, F) => Bridged(q, E)
  BY DEF Awaited, Bridged

\* The packet is delivered when nothing in flight is before it.
LEMMA PatientDelivered ==
    ASSUME NEW n, Plain(n), NEW S, NEW T, NEW P, NEW Q, NEW E, NEW F,
           NEW r \in Patient(S, P, n, F), NEW pkt \in DataPackets, NEW cid \in Links,
           Flying(F, S, P), Lands(E, F, pkt, cid), NextSn(pkt.sn) = pkt.sn + 1,
           pkt.sn \in Nat, Delivered(r, pkt) \in Sorted(T, Q, n),
           \A c \in Links : \A x \in E[c] : pkt.sn <= x
    PROVE  Delivered(r, pkt) \in Patient(T, Q, n, E)
  <1>1. /\ r \in Receivers /\ r.newLink = NoCid /\ r.expired = 0 /\ Bridged(r.queue, F)
    BY DEF Patient, Sorted, Once
  <1>2. PICK s : s = Delivered(r, pkt) /\ IsDelivered(s, r, pkt)
    BY <1>1, DeliveredIsDelivered
  <1>3. s.newLink = NoCid /\ s.expired = 0 /\ s.queue = r.queue /\ s.expected = pkt.sn + 1
    BY <1>1, <1>2 DEF IsDelivered, SameFlags
  <1>4. Bridged(s.queue, E)
    BY <1>1, <1>3, LessInFlight DEF Lands
  <1>5. ASSUME NEW c \in Links, NEW x \in E[c] PROVE pkt.sn + 1 <= x
    <2>1. x \in Nat
      BY DEF Flying, Lands
    <2>2. pkt.sn <= x /\ x # pkt.sn
      BY DEF Lands
    <2> QED
      BY <2>1, <2>2
  <1>6. Awaited(s.expected, E)
    BY <1>3, <1>5 DEF Awaited
  <1> QED
    BY <1>2, <1>3, <1>4, <1>6 DEF Patient

\* The packet is queued, as in order when the numbers between it and the last one of its
\* link are not in flight over the other links.
LEMMA PatientQueued ==
    ASSUME NEW n, Plain(n), NEW S, NEW T, NEW P \in [Links -> Nat], NEW Q, NEW E, NEW F,
           NEW r \in Patient(S, P, n, F), NEW pkt \in DataPackets, NEW cid \in Links,
           Flying(F, S, P), Lands(E, F, pkt, cid), pkt.sn \in Nat, NEW lost \in BOOLEAN,
           Queued(r, pkt, cid, lost) \in Sorted(T, Q, n),
           lost => \A c \in Links \ {cid} : \A x \in F[c] : ~ (P[cid] <= x /\ x < pkt.sn)
    PROVE  Queued(r, pkt, cid, lost) \in Patient(T, Q, n, E)
  <1>1. /\ r \in Receivers /\ r.newLink = NoCid /\ r.expired = 0 /\ Ordered(r, P, n)
        /\ Bridged(r.queue, F) /\ Awaited(r.expected, F) /\ Held(r.queue, r.out, S)
    BY DEF Patient, Sorted, Once
  <1>2. PICK s : s = Queued(r, pkt, cid, lost) /\ IsQueued(s, r, pkt, cid, lost)
    BY <1>1, QueuedIsQueued
  <1>3. /\ s \in Receivers /\ s.newLink = NoCid /\ s.expired = 0 /\ s.expected = r.expected
        /\ \A i \in 1 .. Len(r.queue[cid]) : s.queue[cid][i] = r.queue[cid][i]
        /\ \A c \in Links : c # cid => s.queue[c] = r.queue[c]
    BY <1>1, <1>2 DEF IsQueued
  <1>4. Awaited(s.expected, E) /\ Bridged(r.queue, E)
    BY <1>1, <1>3, LessInFlight DEF Lands
  <1>5. Bridged(s.queue, E)
    <2> SUFFICES ASSUME NEW c \in Links, NEW i \in 1 .. Len(s.queue[c]), s.queue[c][i].inOrder,
                        NEW d \in Links, NEW x \in E[d], x < s.queue[c][i].sn
                 PROVE  i > 1 /\ x < s.queue[c][i - 1].sn
      BY DEF Bridged
    <2>1. CASE i \in 1 .. Len(r.queue[c]) /\ s.queue[c][i] = r.queue[c][i]
      <3>1. i > 1 /\ x < r.queue[c][i - 1].sn
        BY <1>4, <2>1 DEF Bridged
      <3>2. Len(r.queue[c]) \in Nat
        BY <1>1, QueueTypes
      <3>3. PICK j \in 1 .. Len(r.queue[c]) : j = i - 1
        BY <2>1, <3>1, <3>2
      <3>4. s.queue[c][j] = r.queue[c][j]
        BY <1>3
      <3> QED
        BY <3>1, <3>3, <3>4
    <2>2. CASE /\ c = cid /\ i = Len(r.queue[cid]) + 1
               /\ s.queue[c][i] = [sn |-> pkt.sn, id |-> pkt.id, inOrder |-> lost]
      <3>1. lost /\ x < pkt.sn
        BY <2>2
      <3>2. x \in Nat /\ x \in F[d] /\ r.expected <= x /\ r.expected \in Nat /\ P[cid] \in Nat
        BY <1>1, ReorderAssumption DEF Lands, Flying, Awaited, Receivers, Sns
      <3>3. d # cid
        <4> SUFFICES ASSUME d = cid PROVE FALSE
          OBVIOUS
        <4>1. pkt.sn < x
          BY DEF Lands
        <4> QED
          BY <3>1, <3>2, <4>1
      <3>4. x < P[cid]
        BY <3>1, <3>2, <3>3
      <3>5. r.queue[cid] # << >> /\ P[cid] <= r.queue[cid][Len(r.queue[cid])].sn + 1
        <4>1. ~ (P[cid] <= r.expected)
          <5>1. PICK p \in Nat, e \in Nat : p = P[cid] /\ e = r.expected
            BY <3>2
          <5>2. x < p /\ e <= x
            BY <3>2, <3>4, <5>1
          <5>3. ~ (p <= e)
            BY <3>2, <5>2
          <5> QED
            BY <5>1, <5>3
        <4> QED
          BY <1>1, <4>1 DEF Ordered, Positioned
      <3>6. Len(r.queue[cid]) \in 1 .. Len(r.queue[cid]) /\ Len(r.queue[cid]) \in Nat
        BY <1>1, <3>5, QueueTypes
      <3>7. PICK it \in Items : it = r.queue[cid][Len(r.queue[cid])]
        BY <1>1, <3>6, QueueTypes
      <3>8. it.sn = First + it.id /\ it.id \in S /\ it.sn \in Nat
        BY <1>1, <3>6, <3>7, ReorderAssumption DEF Ordered, Ascending, Held, Items, Sns
      <3>9. x # it.sn
        BY <3>2, <3>8 DEF Flying
      <3>10. x < it.sn
        <4>1. PICK y \in Nat, p \in Nat : y = it.sn /\ p = P[cid]
          BY <3>2, <3>8
        <4>2. x < p /\ p <= y + 1 /\ x # y
          BY <3>4, <3>5, <3>7, <3>9, <4>1
        <4>3. x < y
          BY <3>2, <4>2
        <4> QED
          BY <4>1, <4>3
      <3>11. i > 1 /\ i - 1 = Len(r.queue[cid])
        BY <2>2, <3>6
      <3>12. s.queue[cid][i - 1] = it
        BY <1>3, <3>6, <3>7, <3>11
      <3> QED
        BY <2>2, <3>10, <3>11, <3>12
    <2> QED
      BY <1>1, <1>2, <1>3, <2>1, <2>2, QueuedItems
  <1> QED
    BY <1>2, <1>3, <1>4, <1>5 DEF Patient

Flight(w) ==
    [c \in Links |-> {x \in Nat : \E i \in 1 .. Len(w[c]) : IsData(w[c][i]) /\ x = First + w[c][i].id}]

LEMMA FlightMembers ==
    ASSUME First \in Nat, NEW w \in Wires, NEW c \in Links
    PROVE  /\ \A x \in Flight(w)[c] : /\ x \in Nat
                                      /\ \E i \in 1 .. Len(w[c]) : IsData(w[c][i]) /\ x = First + w[c][i].id
           /\ \A i \in 1 .. Len(w[c]) : IsData(w[c][i]) => First + w[c][i].id \in Flight(w)[c]
  <1>1. ASSUME NEW i \in 1 .. Len(w[c]), IsData(w[c][i]) PROVE First + w[c][i].id \in Nat
    <2>1. w[c][i].id \in Nat
      BY <1>1, WireTypes
    <2> QED
      BY <2>1
  <1> QED
    BY <1>1 DEF Flight

LEMMA FlightShrinks ==
    ASSUME NEW v, NEW w, Within(v, w)
    PROVE  \A c \in Links : Flight(v)[c] \subseteq Flight(w)[c]
  <1> SUFFICES ASSUME NEW c \in Links, NEW x \in Flight(v)[c] PROVE x \in Flight(w)[c]
    OBVIOUS
  <1>1. x \in Nat
    BY DEF Flight
  <1>2. PICK i \in 1 .. Len(v[c]) : IsData(v[c][i]) /\ x = First + v[c][i].id
    BY DEF Flight
  <1>3. PICK j \in 1 .. Len(w[c]) : v[c][i] = w[c][j]
    BY <1>2 DEF Within
  <1> QED
    BY <1>1, <1>2, <1>3 DEF Flight

LEMMA FlightIsFlying ==
    ASSUME First \in Nat, NEW w \in Wires, NEW n \in Nat, NEW k, NEW last, FlightOK(w, k, last),
           \A c \in Links : Flight(w)[c] # {} => c \in up
    PROVE  Flying(Flight(w), Arrived(w, n), Positions(last))
  <1> SUFFICES ASSUME NEW c \in Links, NEW x \in Flight(w)[c]
               PROVE  /\ x \in Nat /\ c \in up /\ Pos(last[c]) <= x
                      /\ \A id \in Arrived(w, n) : First + id # x
    BY DEF Flying, Positions
  <1>1. PICK i \in 1 .. Len(w[c]) : IsData(w[c][i]) /\ x = First + w[c][i].id /\ x \in Nat
    BY FlightMembers
  <1>2. c \in up
    OBVIOUS
  <1>3. Pos(last[c]) <= x
    BY <1>1 DEF FlightOK
  <1>4. ASSUME NEW id \in Arrived(w, n) PROVE First + id # x
    <2>1. id # w[c][i].id /\ id \in Nat
      BY <1>1 DEF Arrived
    <2>2. w[c][i].id \in Nat
      BY <1>1, WireTypes
    <2>3. PICK F \in Nat, y \in Nat : F = First /\ y = w[c][i].id
      BY <2>2
    <2>4. F + id # F + y
      BY <2>1, <2>3
    <2> QED
      BY <1>1, <2>3, <2>4
  <1> QED
    BY <1>1, <1>2, <1>3, <1>4

LEMMA PacketLands ==
    ASSUME TypeOK, WireInv, NumberedInv, Unwrapped, scenario.mode # "duplicate",
           NEW cid \in Links, ReceiveData(cid), NEW pkt, pkt = Head(wire[cid])
    PROVE  Lands(Flight(wire'), Flight(wire), pkt, cid)
  <1>1. /\ pkt = wire[cid][1] /\ 1 \in 1 .. Len(wire[cid]) /\ IsData(wire[cid][1])
        /\ pkt.sn = First + pkt.id /\ wire \in Wires /\ wire' \in Wires /\ Within(wire', wire)
        /\ pkt.id \in Nat /\ First \in Nat
        /\ \A i \in 1 .. Len(wire'[cid]) : IsData(wire'[cid][i]) => pkt.id < wire'[cid][i].id
    BY ArrivingPacket, PlainNumbers
  <1>2. PICK v \in Wires : v = wire'
    BY <1>1
  <1>3. pkt.sn \in Flight(wire)[cid]
    BY <1>1, FlightMembers
  <1>4. \A c \in Links : Flight(v)[c] \subseteq Flight(wire)[c]
    BY <1>1, <1>2, FlightShrinks
  <1>5. ASSUME NEW x \in Flight(v)[cid] PROVE pkt.sn < x
    <2>1. PICK i \in 1 .. Len(v[cid]) : IsData(v[cid][i]) /\ x = First + v[cid][i].id
      BY <1>1, FlightMembers
    <2>2. v[cid][i].id \in Nat
      BY <2>1, WireTypes
    <2>3. PICK F \in Nat, y \in Nat, z \in Nat : F = First /\ y = v[cid][i].id /\ z = pkt.id
      BY <1>1, <2>2
    <2>4. z < y
      BY <1>1, <1>2, <2>1, <2>3
    <2>5. F + z < F + y
      BY <2>4
    <2> QED
      BY <1>1, <2>1, <2>3, <2>5
  <1>6. ASSUME NEW c \in Links, NEW x \in Flight(v)[c] PROVE x # pkt.sn
    <2>1. PICK i \in 1 .. Len(v[c]) : IsData(v[c][i]) /\ x = First + v[c][i].id
      BY <1>1, FlightMembers
    <2>2. v[c][i].id \in Nat
      BY <2>1, WireTypes
    <2>3. pkt.id # v[c][i].id
      <3>1. pkt.id \in Arrived(v, sent')
        BY <1>2, PacketArrives
      <3> QED
        BY <2>1, <3>1 DEF Arrived
    <2>4. PICK F \in Nat, y \in Nat, z \in Nat : F = First /\ y = v[c][i].id /\ z = pkt.id
      BY <1>1, <2>2
    <2>5. F + z # F + y
      BY <2>3, <2>4
    <2> QED
      BY <1>1, <2>1, <2>4, <2>5
  <1> QED
    BY <1>2, <1>3, <1>4, <1>5, <1>6 DEF Lands

PatientState ==
    /\ discarded = {} /\ up = scenario.links
    /\ \A c \in Links : Flight(wire)[c] # {} => c \in up
    /\ Awaited(m_gmaRxExpectedSn, Flight(wire)) /\ Bridged(m_reorderingQueue, Flight(wire))

OnlyLosses == Unwrapped /\ scenario.mode = "split" /\ scenario.faults \subseteq {"loss"}

\* The inductive invariant of split mode without time-outs and link failures.
PatientInv == OnlyLosses => PatientState

LEMMA PatientPrime ==
    ASSUME scenario' = scenario, discarded' = {}, up' = scenario.links,
           \A c \in Links : Flight(wire')[c] # {} => c \in up',
           Awaited(m_gmaRxExpectedSn', Flight(wire')), Bridged(m_reorderingQueue', Flight(wire'))
    PROVE  PatientState'
  BY DEF PatientState, Awaited, Bridged, Flight, First

LEMMA PatientReceiver ==
    ASSUME TypeOK, OnceInv, NumberedInv, Unwrapped, scenario.mode = "split", InOrder, PatientState,
           m_newLinkCid = NoCid
    PROVE  /\ Receiver(0) \in Patient(Arrived(wire, sent), Positions(m_gmaRxLast), sent, Flight(wire))
           /\ Flying(Flight(wire), Arrived(wire, sent), Positions(m_gmaRxLast))
  <1>1. /\ Receiver(0) \in Receivers
        /\ Receiver(0).queue = m_reorderingQueue /\ Receiver(0).out = forwarded
        /\ Receiver(0).expected = m_gmaRxExpectedSn /\ Receiver(0).newLink = NoCid
        /\ Receiver(0).expired = 0
    BY ReceiverIsReceiver
  <1>2. PICK r \in Receivers : r = Receiver(0)
    BY <1>1
  <1>3. r \in Sorted(Arrived(wire, sent), Positions(m_gmaRxLast), sent)
    BY <1>1, <1>2, SortedReceiver
  <1>4. PICK k \in Counts : NumberedOK(k)
    BY DEF NumberedInv
  <1>5. First \in Nat /\ wire \in Wires /\ sent \in Nat /\ FlightOK(wire, k, m_gmaRxLast)
    BY <1>4, PlainNumbers DEF TypeOK, Wires, Packets, NumberedOK
  <1>6. Flying(Flight(wire), Arrived(wire, sent), Positions(m_gmaRxLast))
    BY <1>5, FlightIsFlying DEF PatientState
  <1> QED
    BY <1>1, <1>2, <1>3, <1>6 DEF Patient, PatientState

LEMMA PatientReceive ==
    ASSUME TypeOK, WireInv, OnceInv, TimerInv, NumberedInv, SplitInv, OnlyLosses, PatientState,
           scenario' = scenario, NEW cid \in Links, ReceiveData(cid)
    PROVE  PatientState'
  <1>0. /\ Unwrapped /\ scenario.mode = "split" /\ scenario.mode # "duplicate"
        /\ SplitOrder /\ InOrder /\ m_newLinkCid = NoCid
        /\ ~ m_enableReordering => BeforeTsu(wire, m_gmaRxExpectedSn)
    BY DEF OnlyLosses, SplitInv, SplitOrder
  <1>1. PICK pkt \in DataPackets : pkt = Head(wire[cid])
    BY ReceiveDataCases
  <1>2. PICK x \in Expirations : \E r \in Receivers :
           /\ r = OnArrival(Receiver(x), cid)
           /\ \/ r.on /\ InOrderDelivery(r, pkt, cid)
              \/ /\ ~ r.on /\ Becomes(Delivered(r, pkt))
                 /\ UNCHANGED <<m_gmaRxLast, m_reorderingTimeoutEvent, discarded>>
    BY <1>1, ReceiveDataCases
  <1>3. x = 0
    BY DEF Expirations, May, OnlyLosses
  <1>4. PICK r \in Receivers :
           /\ r = OnArrival(Receiver(0), cid)
           /\ \/ r.on /\ InOrderDelivery(r, pkt, cid)
              \/ ~ r.on /\ Becomes(Delivered(r, pkt)) /\ UNCHANGED <<m_gmaRxLast, discarded>>
    BY <1>2, <1>3
  <1>5. /\ Receiver(0) \in Receivers /\ Receiver(0).queue = m_reorderingQueue
        /\ Receiver(0).expected = m_gmaRxExpectedSn /\ Receiver(0).on = m_enableReordering
    BY ReceiverIsReceiver
  <1>6. r = Receiver(0)
    BY <1>0, <1>4, <1>5, OnArrivalFacts
  <1>7. PICK S, T, P, Q, E, F :
           /\ S = Arrived(wire, sent) /\ T = Arrived(wire', sent')
           /\ P = Positions(m_gmaRxLast) /\ Q = Positions(m_gmaRxLast')
           /\ E = Flight(wire') /\ F = Flight(wire)
    OBVIOUS
  <1>8. r \in Patient(S, P, sent, F) /\ Flying(F, S, P)
    BY <1>0, <1>6, <1>7, PatientReceiver
  <1>9. r \in Sorted(S, P, sent) /\ Awaited(r.expected, F) /\ r.expected \in Nat
    BY <1>8, ReorderAssumption DEF Patient, Receivers, Sns
  <1>10. /\ sent \in Nat /\ sent <= sent /\ pkt.id < sent /\ sent' = sent /\ Plain(sent)
         /\ pkt = wire[cid][1] /\ 1 \in 1 .. Len(wire[cid]) /\ IsData(wire[cid][1])
         /\ wire \in Wires /\ wire' \in Wires /\ First \in Nat
    BY <1>0, <1>1, PlainNumbers, ArrivingPacket, PlainUpTo
  <1>11. Lands(E, F, pkt, cid)
    BY <1>0, <1>1, <1>7, PacketLands
  <1>12. r.expected <= pkt.sn
    BY <1>9, <1>11 DEF Awaited, Lands
  <1>13. P \in [Links -> Nat] /\ \A c \in Links : P[c] = Pos(m_gmaRxLast[c])
    BY <1>7, PositionsAreNumbers
  <1>14. /\ up' = scenario.links
         /\ \A c \in Links : E[c] # {} => c \in up'
    <2>1. up' = up
      BY ReceiveDataCases
    <2> QED
      BY <1>7, <1>11, <2>1 DEF PatientState, Lands
  <1>15. CASE r.on /\ InOrderDelivery(r, pkt, cid)
    <2>1. m_gmaRxLast' = [m_gmaRxLast EXCEPT ![cid] = [sn |-> pkt.sn, lsn |-> pkt.lsn]]
      BY <1>15 DEF InOrderDelivery
    <2>0. r.queue = m_reorderingQueue
      BY <1>5, <1>6
    <2>2. /\ Q \in [Links -> Nat]
          /\ ArrivalNumbers(r, S, T, P, Q, sent, pkt)
          /\ Accepts(Sorted(T, Q, sent), r, pkt, cid, GapIsLost(pkt, cid))
          /\ (pkt.sn # r.expected /\ SnDiff(pkt.sn, r.expected) < 0) => pkt.sn < r.expected
      BY <1>0, <1>1, <1>7, <1>9, <1>10, <2>0, <2>1, OrderedArrival
    <2>3. pkt.sn \in Nat /\ NextSn(pkt.sn) = pkt.sn + 1
      BY <2>2 DEF ArrivalNumbers
    <2>4. ~ (pkt.sn # r.expected /\ SnDiff(pkt.sn, r.expected) < 0)
      BY <1>9, <1>12, <2>2, <2>3
    <2>5. PICK lost \in BOOLEAN : lost = GapIsLost(pkt, cid)
      BY DEF GapIsLost
    <2>6. ASSUME lost, NEW c \in Links \ {cid}, NEW z \in F[c]
          PROVE  ~ (P[cid] <= z /\ z < pkt.sn)
      <3>1. PICK i \in 1 .. Len(wire[c]) : IsData(wire[c][i]) /\ z = First + wire[c][i].id
        BY <1>7, <1>10, FlightMembers
      <3>2. GapIsLost(Head(wire[cid]), cid)
        BY <1>1, <2>5, <2>6
      <3>3. ~ (/\ Pos(m_gmaRxLast[cid]) <= First + wire[c][i].id
               /\ First + wire[c][i].id < First + Head(wire[cid]).id)
        BY <1>0, <3>1, <3>2, GapMeansSent
      <3>4. pkt.sn = First + Head(wire[cid]).id
        BY <1>0, <1>1, ArrivingPacket
      <3> QED
        BY <1>13, <3>1, <3>3, <3>4
    <2>7. PICK G : G = Patient(T, Q, sent, E)
      OBVIOUS
    <2>8. Accepts(G, r, pkt, cid, GapIsLost(pkt, cid))
      <3>1. ASSUME Queued(r, pkt, cid, lost) \in Sorted(T, Q, sent)
            PROVE  Queued(r, pkt, cid, lost) \in G
        BY <1>8, <1>10, <1>11, <1>13, <2>3, <2>6, <2>7, <3>1, PatientQueued
      <3>2. ASSUME Delivered(r, pkt) \in Sorted(T, Q, sent),
                   \A c \in Links : \A z \in E[c] : pkt.sn <= z
            PROVE  Delivered(r, pkt) \in G
        BY <1>8, <1>10, <1>11, <2>3, <2>7, <3>2, PatientDelivered
      <3>3. ASSUME pkt.sn = r.expected, NEW c \in Links, NEW z \in E[c]
            PROVE  pkt.sn <= z
        BY <1>9, <1>11, <3>3 DEF Awaited, Lands
      <3>4. ASSUME lost, r.queue[cid] = << >>, NEW c \in Links, NEW z \in E[c]
            PROVE  pkt.sn <= z
        <4>1. z \in F[c]
          BY <1>11 DEF Lands
        <4>2. z \in Nat /\ r.expected <= z
          BY <1>8, <1>9, <4>1 DEF Flying, Awaited
        <4>3. CASE c = cid
          <5>1. pkt.sn < z
            BY <1>11, <4>3 DEF Lands
          <5> QED
            BY <2>3, <4>2, <5>1
        <4>4. CASE c # cid
          <5>1. ~ (P[cid] <= z /\ z < pkt.sn)
            BY <2>6, <3>4, <4>1, <4>4
          <5>2. P[cid] <= r.expected
            BY <1>9, <3>4 DEF Sorted, Ordered, Positioned
          <5>3. PICK p \in Nat, e \in Nat, y \in Nat : p = P[cid] /\ e = r.expected /\ y = pkt.sn
            BY <1>9, <1>13, <2>3
          <5>4. ~ (p <= z /\ z < y) /\ p <= e /\ e <= z
            BY <4>2, <5>1, <5>2, <5>3
          <5>5. y <= z
            BY <4>2, <5>4
          <5> QED
            BY <5>3, <5>5
        <4> QED
          BY <4>3, <4>4
      <3> QED
        BY <2>2, <2>5, <3>1, <3>2, <3>3, <3>4 DEF Accepts
    <2>9. Flying(E, T, Q)
      <3>1. PICK k \in Counts : NumberedOK(k)
        BY <1>0 DEF NumberedInv
      <3>2. FlightOK(wire', k, m_gmaRxLast')
        BY <1>0, <3>1, NumberedReceive
      <3>3. PICK v, l : v = wire' /\ l = m_gmaRxLast' /\ v \in Wires
        BY <1>10
      <3>4. \A c \in Links : Flight(v)[c] # {} => c \in up
        BY <1>7, <1>14, <3>3 DEF PatientState
      <3>5. Flying(Flight(v), Arrived(v, sent), Positions(l))
        BY <1>10, <3>2, <3>3, <3>4, FlightIsFlying
      <3> QED
        BY <1>7, <1>10, <3>3, <3>5
    <2>10. G \in SUBSET Receivers /\ Closed(G)
      BY <1>10, <2>2, <2>7, <2>9, PatientIsClosed
    <2>11. (\E s \in G : Becomes(s)) /\ UNCHANGED discarded
      BY <1>15, <2>4, <2>8, <2>10, ArrivalStays
    <2>12. PICK s \in G : Becomes(s)
      BY <2>11
    <2>13. Awaited(m_gmaRxExpectedSn', E) /\ Bridged(m_reorderingQueue', E)
      BY <2>7, <2>12 DEF Patient, Becomes
    <2> QED
      BY <1>7, <1>14, <2>11, <2>13, PatientPrime DEF PatientState
  <1>16. CASE ~ r.on /\ Becomes(Delivered(r, pkt)) /\ UNCHANGED <<m_gmaRxLast, discarded>>
    <2>1. IsEmpty(r)
      BY <1>5, <1>6, <1>16 DEF TimerInv, QueuesEmpty, IsEmpty
    <2>2. Delivered(r, pkt) \in Sorted(T, P, sent)
      BY <1>0, <1>1, <1>7, <1>9, <1>10, <1>12, <2>1, DirectArrival
    <2>3. pkt.sn \in Nat /\ NextSn(pkt.sn) = pkt.sn + 1
      <3>1. PICK y \in Nat : y = First + pkt.id /\ y = pkt.sn /\ y < MAX_GMA_SN
        <4>1. pkt.id \in Nat /\ pkt.id < sent /\ pkt.sn = First + pkt.id
          BY <1>0, <1>1, ArrivingPacket
        <4>2. First + pkt.id \in Nat
          BY <1>10, <4>1
        <4>3. First + pkt.id < MAX_GMA_SN
          BY <1>0, <4>1, PlainNumbers
        <4> QED
          BY <4>1, <4>2, <4>3
      <3>2. y \in Sns /\ y # MAX_GMA_SN
        BY <3>1, ReorderAssumption DEF Sns
      <3> QED
        BY <3>1, <3>2, NextSnIsSn
    <2>4. ASSUME NEW c \in Links, NEW z \in E[c] PROVE pkt.sn <= z
      <3>1. BeforeTsu(wire, m_gmaRxExpectedSn)
        BY <1>0, <1>5, <1>6, <1>16
      <3>2. cid = DefaultCid
        BY <1>10, <3>1 DEF BeforeTsu
      <3>3. z \in F[c] /\ z \in Nat
        BY <1>8, <1>11 DEF Lands, Flying
      <3>4. PICK i \in 1 .. Len(wire[c]) : IsData(wire[c][i])
        BY <1>7, <1>10, <3>3, FlightMembers
      <3>5. c = cid
        BY <3>1, <3>2, <3>4 DEF BeforeTsu
      <3>6. pkt.sn < z
        BY <1>11, <3>5 DEF Lands
      <3> QED
        BY <2>3, <3>3, <3>6
    <2>5. Delivered(r, pkt) \in Patient(T, P, sent, E)
      BY <1>8, <1>10, <1>11, <2>2, <2>3, <2>4, PatientDelivered
    <2>6. Awaited(m_gmaRxExpectedSn', E) /\ Bridged(m_reorderingQueue', E)
      BY <1>16, <2>5 DEF Patient, Becomes
    <2> QED
      BY <1>7, <1>14, <1>16, <2>6, PatientPrime DEF PatientState
  <1> QED
    BY <1>4, <1>15, <1>16

LEMMA PatientInit == ASSUME Init PROVE PatientInv
  <1>1. \A c \in Links : wire[c] = << >> /\ m_reorderingQueue[c] = << >>
    BY DEF Init
  <1>2. Len(<< >>) = 0 /\ 1 .. 0 = {}
    OBVIOUS
  <1>3. \A c \in Links : Flight(wire)[c] = {}
    BY <1>1, <1>2 DEF Flight
  <1>4. Awaited(m_gmaRxExpectedSn, Flight(wire)) /\ Bridged(m_reorderingQueue, Flight(wire))
    BY <1>3 DEF Awaited, Bridged
  <1>5. discarded = {} /\ up = scenario.links
    BY DEF Init
  <1> QED
    BY <1>3, <1>4, <1>5 DEF PatientInv, PatientState

LEMMA PatientTransmit ==
    ASSUME TypeOK, WireInv, OnceInv, SplitInv, OnlyLosses, PatientState,
           scenario' = scenario, NEW cids \in SUBSET Links, Transmit(cids)
    PROVE  PatientState'
  <1>0. /\ Unwrapped /\ scenario.mode = "split" /\ scenario.mode # "duplicate" /\ InOrder
    BY DEF OnlyLosses, SplitInv, SplitOrder
  <1>1. PICK d \in scenario.links : cids = {d} /\ d \in Links
    BY <1>0, WireTransmit
  <1>2. PICK p : p = [type |-> "data", sn |-> SnOf(sent), lsn |-> m_gmaTxLocalSn[d], id |-> sent]
    OBVIOUS
  <1>3. /\ wire \in Wires /\ wire' \in Wires /\ Grows(wire', wire, d, p)
        /\ \A c \in Links : c # d => wire'[c] = wire[c]
    BY <1>1, <1>2, WireTransmit
  <1>4. p.id = sent /\ First \in Nat /\ sent \in Nat /\ m_gmaRxExpectedSn \in Nat
    BY <1>0, <1>2, PlainNumbers DEF TypeOK, Sns
  <1>5. PICK v \in Wires : v = wire'
    BY <1>3
  <1>6. ASSUME NEW c \in Links, NEW x \in Flight(v)[c]
        PROVE  x \in Flight(wire)[c] \/ x = First + sent
    <2>1. PICK i \in 1 .. Len(v[c]) : IsData(v[c][i]) /\ x = First + v[c][i].id
      BY <1>4, FlightMembers
    <2>2. CASE i \in 1 .. Len(wire[c]) /\ v[c][i] = wire[c][i]
      BY <1>3, <1>4, <2>1, <2>2, FlightMembers
    <2>3. CASE v[c][i] = p
      BY <1>4, <2>1, <2>3
    <2>4. CASE c # d
      BY <1>3, <1>5, <2>1, <2>2, <2>4
    <2>5. CASE c = d
      BY <1>3, <1>5, <2>2, <2>3, <2>5, GrowsCases
    <2> QED
      BY <2>4, <2>5
  <1>7. UNCHANGED <<m_gmaRxExpectedSn, m_reorderingQueue, up, discarded>>
    BY DEF Transmit, rxVars
  <1>8. Awaited(m_gmaRxExpectedSn, Flight(v))
    <2>1. m_gmaRxExpectedSn <= First + sent
      BY <1>0 DEF InOrder, Ordered, Contents
    <2> QED
      BY <1>6, <2>1 DEF Awaited, PatientState
  <1>9. Bridged(m_reorderingQueue, Flight(v))
    <2> SUFFICES ASSUME NEW c \in Links, NEW i \in 1 .. Len(m_reorderingQueue[c]),
                        m_reorderingQueue[c][i].inOrder, NEW e \in Links, NEW x \in Flight(v)[e],
                        x < m_reorderingQueue[c][i].sn
                 PROVE  i > 1 /\ x < m_reorderingQueue[c][i - 1].sn
      BY DEF Bridged
    <2>1. PICK it \in Items : it = m_reorderingQueue[c][i]
      BY ElementOfSeq DEF TypeOK
    <2>2. it.sn = First + it.id /\ it.id < sent /\ it.id \in Nat
      BY <1>0, <2>1 DEF InOrder, Ordered, Ascending, Contents, Items
    <2>3. x # First + sent
      <3> SUFFICES ASSUME x = First + sent PROVE FALSE
        OBVIOUS
      <3>1. PICK F \in Nat, y \in Nat, n \in Nat : F = First /\ y = it.id /\ n = sent
        BY <1>4, <2>2
      <3>2. F + n < F + y /\ y < n
        BY <2>1, <2>2, <3>1
      <3> QED
        BY <3>2
    <2> QED
      BY <1>6, <2>3 DEF PatientState, Bridged
  <1>10. ASSUME NEW c \in Links, Flight(v)[c] # {} PROVE c \in up'
    <2>1. CASE c = d
      BY <1>1, <1>7, <2>1 DEF PatientState
    <2>2. CASE c # d
      <3>1. Flight(v)[c] = Flight(wire)[c]
        BY <1>3, <1>5, <2>2 DEF Flight
      <3> QED
        BY <1>7, <1>10, <3>1 DEF PatientState
    <2> QED
      BY <2>1, <2>2
  <1> QED
    BY <1>5, <1>7, <1>8, <1>9, <1>10, PatientPrime DEF PatientState

LEMMA PatientNext ==
    ASSUME TypeOK, WireInv, OnceInv, TimerInv, NumberedInv, SplitInv, PatientInv, [Next]_vars
    PROVE  PatientInv'
  <1>1. CASE UNCHANGED vars
    <2>1. UNCHANGED <<m_reorderingQueue, m_gmaRxExpectedSn, up, scenario, wire, discarded>>
      BY <1>1 DEF vars, rxVars, txVars
    <2> QED
      BY <2>1 DEF PatientInv, PatientState, OnlyLosses, Unwrapped, Awaited, Bridged, Flight, First
  <1>2. CASE Next
    <2>0. scenario' = scenario /\ scenario.links \subseteq Links
      BY <1>2, DefaultCidIsLink DEF Next, TypeOK
    <2> SUFFICES ASSUME OnlyLosses PROVE PatientState'
      BY <2>0 DEF PatientInv, OnlyLosses, Unwrapped
    <2>1. /\ PatientState /\ Unwrapped /\ scenario.mode = "split" /\ m_newLinkCid = NoCid
          /\ ~ May("timeout") /\ ~ May("linkdown")
      BY DEF PatientInv, OnlyLosses, May, SplitInv, SplitOrder
    <2>2. ASSUME NEW cids \in SUBSET Links, Transmit(cids) PROVE PatientState'
      BY <2>0, <2>1, <2>2, PatientTransmit
    <2>3. ASSUME NEW cid \in scenario.links, ReceiveData(cid) PROVE PatientState'
      BY <2>0, <2>1, <2>3, PatientReceive
    <2>4. ASSUME UNCHANGED <<m_reorderingQueue, m_gmaRxExpectedSn, up, discarded>>,
                 ~ \E cids \in SUBSET Links : Transmit(cids)
          PROVE  PatientState'
      <3>1. Within(wire', wire)
        BY <1>2, <2>4, WithinCases
      <3>2. \A c \in Links : Flight(wire')[c] \subseteq Flight(wire)[c]
        BY <3>1, FlightShrinks
      <3>3. Awaited(m_gmaRxExpectedSn, Flight(wire')) /\ Bridged(m_reorderingQueue, Flight(wire'))
        BY <2>1, <3>2, LessInFlight DEF PatientState
      <3>4. \A c \in Links : Flight(wire')[c] # {} => c \in up'
        BY <2>1, <2>4, <3>2 DEF PatientState
      <3> QED
        BY <2>0, <2>1, <2>4, <3>3, <3>4, PatientPrime DEF PatientState
    <2>5. ASSUME NEW cid \in scenario.links, Lose(cid) \/ ReceiveEndMarker(cid)
          PROVE  PatientState'
      <3>1. UNCHANGED <<m_reorderingQueue, m_gmaRxExpectedSn, up, discarded, sent>>
        <4>1. CASE Lose(cid)
          BY <4>1 DEF Lose, rxVars
        <4>2. CASE ReceiveEndMarker(cid)
          <5>0. cid \in Links /\ UNCHANGED <<up, sent, discarded>>
            BY <2>0, <4>2 DEF ReceiveEndMarker
          <5>1. cid # NoCid
            BY <5>0, LinksAreNumbers
          <5>2. PICK s \in Receivers :
                   /\ Becomes(s)
                   /\ \/ m_newLinkCid = NoCid /\ s = Receiver(0)
                      \/ m_newLinkCid = cid
                      \/ m_newLinkCid # NoCid
            BY <4>2, <5>0, EndMarkerCases
          <5>3. s = Receiver(0)
            BY <2>1, <5>1, <5>2
          <5> QED
            BY <5>0, <5>2, <5>3, ReceiverIsReceiver DEF Becomes
        <4> QED
          BY <2>5, <4>1, <4>2
      <3>2. ~ \E cids \in SUBSET Links : Transmit(cids)
        BY <2>1, <3>1, PlainNumbers DEF Transmit
      <3> QED
        BY <2>4, <3>1, <3>2
    <2>6. ASSUME SendTsu PROVE PatientState'
      <3>1. UNCHANGED <<m_reorderingQueue, m_gmaRxExpectedSn, up, discarded, sent>>
        BY <2>6 DEF SendTsu, txVars
      <3>2. ~ \E cids \in SUBSET Links : Transmit(cids)
        BY <2>1, <3>1, PlainNumbers DEF Transmit
      <3> QED
        BY <2>4, <3>1, <3>2
    <2>7. /\ \A cid \in scenario.links : ~ Steer(cid) /\ ~ LinkChanges(cid)
          /\ \A x \in Expirations : ~ ReorderingTimeout(x)
          /\ ~ StopReorderTimeout
      BY <2>1 DEF Steer, LinkChanges, ReorderingTimeout, StopReorderTimeout
    <2> QED
      BY <1>2, <2>2, <2>3, <2>5, <2>6, <2>7 DEF Next, Step
  <1> QED
    BY <1>1, <1>2

\* InOrderDelivery throws nothing away that was not lost: in split mode, when only losses
\* happen, no packet that arrives is before the expected one.
THEOREM OnlyLostSkipped == Spec => [](Unwrapped => OnlyLostPacketsAreSkipped)
  <1>1. Init => PatientInv
    BY PatientInit
  <1>2. TypeOK /\ WireInv /\ OnceInv /\ TimerInv /\ NumberedInv /\ SplitInv /\ PatientInv
           /\ [Next]_vars => PatientInv'
    BY PatientNext
  <1>3. PatientInv => (Unwrapped => OnlyLostPacketsAreSkipped)
    BY DEF PatientInv, PatientState, OnlyLosses, OnlyLostPacketsAreSkipped
  <1> QED
    BY <1>1, <1>2, <1>3, TypeCorrect, WireInvariant, OnceInvariant, TimerInvariant,
       NumberedInvariant, SplitInvariant, PTL DEF Spec

-----------------------------------------------------------------------------
(***************************************************************************)
(* Steer mode without faults.  First what the loops do at most once.       *)
(***************************************************************************)
LEMMA OneRound ==
    ASSUME NEW d \in Receivers, NEW s \in Receivers, ~ IsEmpty(d),
           ReleaseInOrderStep(d) = s, ReleaseInOrderStep(s) = s
    PROVE  ReleaseInOrderPackets(d) = s
  <1> DEFINE N == TotalQueueSize(d.queue)
  <1>1. {d, s} \in SUBSET Receivers /\ d \in {d, s}
        /\ \A t \in {d, s} : ReleaseInOrderStep(t) \in {d, s}
    OBVIOUS
  <1>2. PICK f \in [0 .. N -> {d, s}] :
           /\ f[0] = d /\ f[N] = ReleaseInOrderPackets(d)
           /\ \A n \in 1 .. N : f[n] = ReleaseInOrderStep(f[n - 1])
    BY <1>1, InOrderRounds
  <1>3. N \in Nat /\ N > 0
    BY TotalIsNumber, TotalOfReceiver DEF Receivers
  <1> DEFINE R == {n \in 0 .. N : n = 0 \/ f[n] = s}
  <1> HIDE DEF N
  <1>4. 0 \in R /\ R \in SUBSET (0 .. N)
    BY <1>3
  <1>5. \A n \in 0 .. N : (n \in R /\ n < N) => n + 1 \in R
    <2> SUFFICES ASSUME NEW n \in 0 .. N, n \in R, n < N PROVE n + 1 \in R
      OBVIOUS
    <2>1. n + 1 \in 1 .. N /\ (n + 1) - 1 = n /\ n + 1 \in 0 .. N
      BY <1>3
    <2>2. f[n + 1] = ReleaseInOrderStep(f[n])
      BY <1>2, <2>1
    <2>3. f[n] = d \/ f[n] = s
      BY <1>2
    <2> QED
      BY <2>1, <2>2, <2>3
  <1>6. R = 0 .. N
    <2> HIDE DEF R
    <2> QED
      BY <1>3, <1>4, <1>5, Rounds
  <1>7. N \in R /\ N # 0
    BY <1>3, <1>6
  <1> QED
    BY <1>2, <1>7

\* A loop with nothing to do.
LEMMA NoRound ==
    ASSUME NEW r \in Receivers
    PROVE  /\ ReleaseInOrderStep(r) = r => ReleaseInOrderPackets(r) = r
           /\ ReleaseMinStep(r) = r => ReleaseMinSnPacket(r) = r
  <1>1. {r} \in SUBSET Receivers /\ r \in {r}
    OBVIOUS
  <1>2. ASSUME ReleaseInOrderStep(r) = r PROVE ReleaseInOrderPackets(r) = r
    <2>1. \A s \in {r} : ReleaseInOrderStep(s) \in {r}
      BY <1>2
    <2>2. ReleaseInOrderPackets(r) \in {r}
      BY <1>1, <2>1, InOrderKeeps
    <2> QED
      BY <2>2
  <1>3. ASSUME ReleaseMinStep(r) = r PROVE ReleaseMinSnPacket(r) = r
    <2>1. \A s \in {r} : ReleaseMinStep(s) \in {r}
      BY <1>3
    <2>2. ReleaseMinSnPacket(r) \in {r}
      BY <1>1, <2>1, MinKeeps
    <2> QED
      BY <2>2
  <1> QED
    BY <1>2, <1>3

LEMMA StopsEmpty ==
    ASSUME NEW r \in Receivers, IsEmpty(r)
    PROVE  StopReordering(r) = Stopped(r)
  <1>1. PICK t \in Receivers : t = Stopped(r)
    BY StoppedFacts
  <1>2. SameContents(t, r) /\ StopReordering(r) = ReleaseAllPackets(t)
    BY <1>1, StoppedFacts
  <1>3. IsEmpty(t)
    BY <1>2 DEF IsEmpty, SameContents
  <1>4. ReleaseAllStep(t) = t
    BY <1>3, AllStepCases
  <1>5. {t} \in SUBSET Receivers /\ t \in {t} /\ \A s \in {t} : ReleaseAllStep(s) \in {t}
    BY <1>4
  <1>6. ReleaseAllPackets(t) \in {t}
    BY <1>5, AllKeeps
  <1> QED
    BY <1>1, <1>2, <1>6

\* The cases of InOrderDelivery.
LEMMA DeliverIntoEmpty ==
    ASSUME NEW r \in Receivers, NEW pkt \in DataPackets, NEW cid \in Links,
           InOrderDelivery(r, pkt, cid), pkt.sn = r.expected, IsEmpty(r)
    PROVE  /\ Becomes(IF r.newLink = cid THEN Stopped(Delivered(r, pkt)) ELSE Delivered(r, pkt))
  <1>1. PICK d \in Receivers : d = Delivered(r, pkt) /\ IsDelivered(d, r, pkt)
    BY DeliveredIsDelivered DEF IsDelivered
  <1>2. IsEmpty(d) /\ d.newLink = r.newLink
    BY <1>1 DEF IsDelivered, IsEmpty, SameFlags
  <1>3. ReleaseInOrderPackets(d) = d
    BY <1>2, NothingToRelease
  <1>4. Deliver(r, pkt, cid)
    BY DEF InOrderDelivery
  <1>5. Becomes(IF d.newLink = cid THEN StopReordering(d) ELSE d)
    BY <1>1, <1>3, <1>4 DEF Deliver, Delivered
  <1>6. StopReordering(d) = Stopped(d)
    BY <1>2, StopsEmpty
  <1> QED
    BY <1>1, <1>2, <1>5, <1>6

LEMMA DeliverAndRelease ==
    ASSUME NEW r \in Receivers, NEW pkt \in DataPackets, NEW cid \in Links,
           InOrderDelivery(r, pkt, cid), pkt.sn = r.expected,
           NEW t, t = ReleaseInOrderPackets(Delivered(r, pkt)), t.newLink # cid
    PROVE  Becomes(t)
  <1>1. Deliver(r, pkt, cid)
    BY DEF InOrderDelivery
  <1>2. Becomes(IF t.newLink = cid THEN StopReordering(t) ELSE t)
    BY <1>1 DEF Deliver, Delivered
  <1> QED
    BY <1>2

LEMMA EnqueueOnly ==
    ASSUME NEW r \in Receivers, NEW pkt \in DataPackets, NEW cid \in Links,
           InOrderDelivery(r, pkt, cid), pkt.sn # r.expected, ~ (SnDiff(pkt.sn, r.expected) < 0),
           NEW lost \in BOOLEAN, lost = GapIsLost(pkt, cid), ~ lost \/ r.queue[cid] # << >>,
           NEW t \in Receivers, t = Queued(r, pkt, cid, lost),
           ReleaseMinStep(t) = t, ReleaseInOrderStep(t) = t
    PROVE  Becomes(t)
  <1>1. Enqueue(r, pkt, cid, GapIsLost(pkt, cid))
    BY DEF InOrderDelivery
  <1>2. Enqueue(r, pkt, cid, lost)
    BY <1>1, Zenon
  <1>3. ReleaseInOrderPackets(ReleaseMinSnPacket(t)) = t
    BY NoRound
  <1>4. BecomesWithTimer(ReleaseInOrderPackets(ReleaseMinSnPacket(Queued(r, pkt, cid, lost))))
    BY <1>2 DEF Enqueue, Queued
  <1> QED
    BY <1>3, <1>4 DEF BecomesWithTimer

LEMMA ThrowAway ==
    ASSUME NEW r \in Receivers, NEW pkt \in DataPackets, NEW cid \in Links,
           InOrderDelivery(r, pkt, cid), pkt.sn # r.expected, SnDiff(pkt.sn, r.expected) < 0
    PROVE  Becomes(r)
  BY DEF InOrderDelivery

-----------------------------------------------------------------------------
(***************************************************************************)
(* What nobody lost: every packet from the expected one on is in flight    *)
(* (E) or queued.                                                          *)
(***************************************************************************)
Complete(q, e, F, n) ==
    \A id \in 0 .. n - 1 : e <= First + id =>
       \/ \E c \in Links : First + id \in F[c]
       \/ \E c \in Links : \E i \in 1 .. Len(q[c]) : q[c][i].id = id

Covering(F, n) == {s \in Receivers : Complete(s.queue, s.expected, F, n)}

LEMMA CoveringAdvances ==
    ASSUME NEW n, Plain(n), NEW N \in Nat, NEW S, NEW P \in [Links -> Nat], NEW F,
           NEW r \in Sorted(S, P, n), r \in Covering(F, N),
           NEW s \in Receivers, NEW cid \in Links, Advances(s, r, cid)
    PROVE  s \in Covering(F, N)
  <1>1. /\ s \in Sorted(S, P, n) /\ s.expected = r.queue[cid][1].sn + 1
        /\ r.expected < s.expected
    BY SortedAdvances
  <1>2. /\ r \in Receivers /\ First \in Nat /\ r.expected \in Nat /\ s.expected \in Nat
        /\ Ascending(r.queue, r.expected, n)
    BY DEF Plain, Covering, Receivers, Sns, Sorted, Ordered
  <1>3. /\ IsPop(s, r, cid) /\ r.queue[cid] # << >>
    BY DEF Advances
  <1> SUFFICES ASSUME NEW id \in 0 .. N - 1, s.expected <= First + id
               PROVE  \/ \E c \in Links : First + id \in F[c]
                      \/ \E c \in Links : \E i \in 1 .. Len(s.queue[c]) : s.queue[c][i].id = id
    BY DEF Covering, Complete
  <1>4. id \in Nat
    OBVIOUS
  <1>5. r.expected <= First + id
    <2>1. PICK e \in Nat, f \in Nat, x \in Nat : e = r.expected /\ f = s.expected /\ x = First + id
      BY <1>2, <1>4
    <2>2. e < f /\ f <= x
      BY <1>1, <2>1
    <2>3. e <= x
      BY <2>2
    <2> QED
      BY <2>1, <2>3
  <1>6. \/ \E c \in Links : First + id \in F[c]
        \/ \E c \in Links : \E i \in 1 .. Len(r.queue[c]) : r.queue[c][i].id = id
    BY <1>5 DEF Covering, Complete
  <1>7. ASSUME NEW c \in Links, NEW i \in 1 .. Len(r.queue[c]), r.queue[c][i].id = id
        PROVE  \E d \in Links : \E j \in 1 .. Len(s.queue[d]) : s.queue[d][j].id = id
    <2>1. CASE c # cid
      BY <1>3, <1>7, <2>1 DEF IsPop
    <2>2. CASE c = cid
      <3>1. Len(r.queue[cid]) \in Nat /\ Len(s.queue[cid]) = Len(r.queue[cid]) - 1
            /\ \A j \in 1 .. Len(s.queue[cid]) : s.queue[cid][j] = r.queue[cid][j + 1]
        BY <1>2, <1>3, QueueTypes DEF IsPop
      <3>2. i # 1
        <4> SUFFICES ASSUME i = 1 PROVE FALSE
          OBVIOUS
        <4>1. r.queue[cid][1].sn = First + id
          BY <1>2, <1>7, <2>2 DEF Ascending
        <4>2. PICK x \in Nat : x = First + id
          BY <1>2, <1>4
        <4>3. s.expected = x + 1 /\ s.expected <= x
          BY <1>1, <4>1, <4>2
        <4> QED
          BY <4>2, <4>3
      <3>3. i - 1 \in 1 .. Len(s.queue[cid]) /\ (i - 1) + 1 = i
        BY <1>7, <2>2, <3>1, <3>2
      <3>4. s.queue[cid][i - 1] = r.queue[cid][i]
        BY <3>1, <3>3
      <3> QED
        BY <1>7, <2>2, <3>3, <3>4
    <2> QED
      BY <2>1, <2>2
  <1> QED
    BY <1>6, <1>7

\* The contents alone decide.
LEMMA CoveringSame ==
    ASSUME NEW F, NEW N, NEW r \in Covering(F, N), NEW s \in Receivers,
           SameContents(s, r), s.expected = r.expected
    PROVE  s \in Covering(F, N)
  BY DEF Covering, SameContents

LEMMA CoveringIsClosed ==
    ASSUME NEW n, Plain(n), NEW N \in Nat, NEW S, NEW P \in [Links -> Nat], NEW F
    PROVE  Closed(Sorted(S, P, n) \cap Covering(F, N))
  <1>1. PICK G : G = Sorted(S, P, n) \cap Covering(F, N)
    OBVIOUS
  <1>2. G \in SUBSET Receivers
    BY <1>1 DEF Covering
  <1>3. ASSUME NEW r \in G, NEW s, Advances(s, r, MinCid(r.queue))
        PROVE  s \in G
    <2>1. s \in Receivers /\ MinCid(r.queue) \in Links
      BY <1>3 DEF Advances, IsPop
    <2> QED
      BY <1>1, <1>3, <2>1, SortedAdvances, CoveringAdvances
  <1>4. \A s \in G : ReleaseAllStep(s) \in G
    BY <1>2, <1>3, AllStepCases
  <1>5. ASSUME NEW r \in G PROVE StopReordering(r) \in G
    <2>1. PICK t \in Receivers : t = Stopped(r)
      BY <1>2, StoppedFacts
    <2>2. /\ SameContents(t, r) /\ t.expected = r.expected
          /\ StopReordering(r) = ReleaseAllPackets(t)
      BY <1>2, <2>1, StoppedFacts
    <2>3. t \in G
      BY <1>1, <2>2, SortedSame, CoveringSame
    <2> QED
      BY <1>2, <1>4, <2>2, <2>3, AllKeeps
  <1>6. ASSUME NEW r \in G PROVE ReleaseMinStep(r) \in G /\ ReleaseInOrderStep(r) \in G
    <2>1. ReleaseMinStep(r) \in G
      BY <1>1, <1>3, SortedSteps
    <2>2. \/ ReleaseInOrderStep(r) = r
          \/ Advances(ReleaseInOrderStep(r), r, MinCid(r.queue))
          \/ \E t \in Receivers :
                /\ Advances(t, r, MinCid(r.queue))
                /\ \/ ReleaseInOrderStep(r) = StopReordering(t)
                   \/ /\ r.expired > 0
                      /\ ReleaseInOrderStep(r) = [t EXCEPT !.expired = @ - 1]
      BY <1>1, SortedSteps
    <2>3. ASSUME NEW t \in Receivers, Advances(t, r, MinCid(r.queue)), r.expired > 0
          PROVE  [t EXCEPT !.expired = @ - 1] \in G
      <3>1. t \in G /\ t.expired > 0
        BY <1>3, <2>3 DEF Advances, IsPop, SameFlags
      <3>2. PICK u \in Receivers : u = [t EXCEPT !.expired = @ - 1]
        BY <3>1, LessExpired
      <3>3. SameContents(u, t) /\ u.expected = t.expected
        BY <3>1, <3>2, LessExpired
      <3> QED
        BY <1>1, <3>1, <3>2, <3>3, SortedSame, CoveringSame
    <2> QED
      BY <1>3, <1>5, <2>1, <2>2, <2>3
  <1> QED
    BY <1>1, <1>5, <1>6 DEF Closed

\* Only the packet that arrives leaves the flight.
LandsAlone(E, F, pkt) == \A c \in Links : \A x \in F[c] : x \in E[c] \/ x = pkt.sn

LEMMA CoveringArrival ==
    ASSUME First \in Nat, NEW N \in Nat, NEW E, NEW F, NEW pkt \in DataPackets,
           LandsAlone(E, F, pkt), NEW cid \in Links, NEW r \in Covering(F, N),
           pkt.sn = First + pkt.id, NextSn(pkt.sn) = pkt.sn + 1
    PROVE  /\ pkt.sn < r.expected => r \in Covering(E, N)
           /\ r.expected <= pkt.sn =>
                 /\ Delivered(r, pkt) \in Covering(E, N)
                 /\ \A lost \in BOOLEAN : Queued(r, pkt, cid, lost) \in Covering(E, N)
  <1>1. /\ r \in Receivers /\ r.expected \in Nat /\ pkt.sn \in Nat /\ pkt.id \in Nat
    BY DEF Covering, Receivers, Sns, DataPackets
  <1>2. ASSUME NEW id \in 0 .. N - 1, r.expected <= First + id
        PROVE  \/ id = pkt.id
               \/ \E c \in Links : First + id \in E[c]
               \/ \E c \in Links : \E i \in 1 .. Len(r.queue[c]) : r.queue[c][i].id = id
    <2>1. \/ \E c \in Links : First + id \in F[c]
          \/ \E c \in Links : \E i \in 1 .. Len(r.queue[c]) : r.queue[c][i].id = id
      BY <1>2 DEF Covering, Complete
    <2>2. First + id = pkt.sn => id = pkt.id
      BY <1>1
    <2> QED
      BY <2>1, <2>2 DEF LandsAlone
  <1>3. ASSUME pkt.sn < r.expected PROVE r \in Covering(E, N)
    <2> SUFFICES ASSUME NEW id \in 0 .. N - 1, r.expected <= First + id PROVE id # pkt.id
      BY <1>1, <1>2 DEF Covering, Complete
    <2>1. ~ (r.expected <= pkt.sn)
      BY <1>1, <1>3
    <2> QED
      BY <2>1
  <1>4. ASSUME r.expected <= pkt.sn PROVE Delivered(r, pkt) \in Covering(E, N)
    <2>1. PICK s \in Receivers : s = Delivered(r, pkt) /\ IsDelivered(s, r, pkt)
      BY <1>1, DeliveredIsDelivered DEF IsDelivered
    <2>2. s.queue = r.queue /\ s.expected = pkt.sn + 1
      BY <2>1 DEF IsDelivered
    <2> SUFFICES ASSUME NEW id \in 0 .. N - 1, s.expected <= First + id
                 PROVE  \/ \E c \in Links : First + id \in E[c]
                        \/ \E c \in Links : \E i \in 1 .. Len(s.queue[c]) : s.queue[c][i].id = id
      BY <2>1 DEF Covering, Complete
    <2>3. PICK e \in Nat, F0 \in Nat, a \in Nat, y \in Nat :
             e = r.expected /\ F0 = First /\ a = pkt.id /\ y = id
      BY <1>1
    <2>4. e <= F0 + a /\ (F0 + a) + 1 <= F0 + y
      BY <1>4, <2>2, <2>3
    <2>5. y # a /\ e <= F0 + y
      BY <2>4
    <2>6. id # pkt.id /\ r.expected <= First + id
      BY <2>3, <2>5
    <2> QED
      BY <1>2, <2>2, <2>6
  <1>5. ASSUME NEW lost \in BOOLEAN PROVE Queued(r, pkt, cid, lost) \in Covering(E, N)
    <2>1. PICK s : s = Queued(r, pkt, cid, lost) /\ IsQueued(s, r, pkt, cid, lost)
      BY <1>1, QueuedIsQueued
    <2>2. /\ s \in Receivers /\ s.expected = r.expected
          /\ \A c \in Links : c # cid => s.queue[c] = r.queue[c]
          /\ Len(s.queue[cid]) = Len(r.queue[cid]) + 1
          /\ \A i \in 1 .. Len(r.queue[cid]) : s.queue[cid][i] = r.queue[cid][i]
          /\ s.queue[cid][Len(s.queue[cid])].id = pkt.id
      BY <2>1 DEF IsQueued
    <2>3. Len(r.queue[cid]) \in Nat
      BY <1>1, QueueTypes
    <2>4. Len(s.queue[cid]) \in 1 .. Len(s.queue[cid])
          /\ \A i \in 1 .. Len(r.queue[cid]) : i \in 1 .. Len(s.queue[cid])
      BY <2>2, <2>3
    <2>5. ASSUME NEW c \in Links, NEW i \in 1 .. Len(r.queue[c])
          PROVE  i \in 1 .. Len(s.queue[c]) /\ s.queue[c][i] = r.queue[c][i]
      BY <2>2, <2>4, <2>5
    <2> SUFFICES ASSUME NEW id \in 0 .. N - 1, s.expected <= First + id
                 PROVE  \/ \E c \in Links : First + id \in E[c]
                        \/ \E c \in Links : \E i \in 1 .. Len(s.queue[c]) : s.queue[c][i].id = id
      BY <2>1, <2>2 DEF Covering, Complete
    <2>6. \/ id = pkt.id
          \/ \E c \in Links : First + id \in E[c]
          \/ \E c \in Links : \E i \in 1 .. Len(r.queue[c]) : r.queue[c][i].id = id
      BY <1>2, <2>2
    <2>7. CASE id = pkt.id
      BY <2>2, <2>4, <2>7
    <2>8. ASSUME NEW c \in Links, NEW i \in 1 .. Len(r.queue[c]), r.queue[c][i].id = id
          PROVE  \E j \in 1 .. Len(s.queue[c]) : s.queue[c][j].id = id
      BY <2>5, <2>8
    <2> QED
      BY <2>6, <2>7, <2>8
  <1> QED
    BY <1>3, <1>4, <1>5

-----------------------------------------------------------------------------
(***************************************************************************)
(* Steer mode without faults.  D is the delivery link; at most one other   *)
(* link, the previous one, still carries packets, which are older than     *)
(* those over D and followed by an end marker.                             *)
(***************************************************************************)
Old(F, D) == {x \in Nat : \E c \in Links \ {D} : x \in F[c]}

SteerWire(w, D) ==
    /\ \A c \in Links \ {D} : \A d \in Links \ {D} : (w[c] # << >> /\ w[d] # << >>) => c = d
    /\ \A i \in 1 .. Len(w[D]) : IsData(w[D][i])
    /\ \A c \in Links \ {D} : \A i \in 1 .. Len(w[c]) : IsData(w[c][i]) <=> i # Len(w[c])
    /\ \A x \in Flight(w)[D] : \A y \in Old(Flight(w), D) : y < x

\* The receiver has not noticed the last move; has noticed it after what was sent over the
\* previous link; or waits for that.  O is what is in flight over the previous link.
Fresh(s, D, O) ==
    /\ IsEmpty(s)
    /\ s.newLink = NoCid \/ (~ s.on /\ s.newLink # D)
    /\ \A x \in O : s.expected <= x

Passed(s, D, O) ==
    /\ IsEmpty(s)
    /\ (s.newLink = D /\ ~ s.on) \/ (s.newLink \notin {NoCid, D} /\ s.on)
    /\ \A x \in O : x < s.expected

Waiting(s, D, O) ==
    /\ s.newLink = D /\ s.on /\ s.queue[D] # << >> /\ ~ s.queue[D][1].inOrder
    /\ \A c \in Links : c # D => s.queue[c] = << >>
    /\ s.expected \in O
    /\ \A x \in O : s.expected <= x
    /\ \A x \in O : \A i \in 1 .. Len(s.queue[D]) : x < s.queue[D][i].sn

\* The previous link, when the receiver still takes it for the current one, will carry the
\* end marker.
Phase(s, w, D, O) ==
    /\ s.newLink \notin {NoCid, D} => w[s.newLink] # << >>
    /\ Fresh(s, D, O) \/ Passed(s, D, O) \/ Waiting(s, D, O)

LEMMA PhaseSame ==
    ASSUME NEW s, NEW t, NEW w, NEW D, NEW O, Phase(s, w, D, O), t.queue = s.queue,
           t.expected = s.expected, t.on = s.on, t.newLink = s.newLink
    PROVE  Phase(t, w, D, O)
  <1>1. Fresh(s, D, O) => Fresh(t, D, O)
    BY DEF Fresh, IsEmpty
  <1>2. Passed(s, D, O) => Passed(t, D, O)
    BY DEF Passed, IsEmpty
  <1>3. Waiting(s, D, O) => Waiting(t, D, O)
    BY DEF Waiting
  <1> QED
    BY <1>1, <1>2, <1>3 DEF Phase

LEMMA FlightLandsAlone ==
    ASSUME TypeOK, WireInv, Unwrapped, NEW cid \in Links, ReceiveData(cid),
           NEW pkt, pkt = Head(wire[cid])
    PROVE  LandsAlone(Flight(wire'), Flight(wire), pkt)
  <1>1. /\ pkt = wire[cid][1] /\ pkt.sn = First + pkt.id /\ wire \in Wires /\ wire' \in Wires
        /\ First \in Nat /\ Shifts(wire', wire, cid)
        /\ \A c \in Links : c # cid => wire'[c] = wire[c]
    BY ArrivingPacket, PlainNumbers
  <1>2. PICK v \in Wires : v = wire'
    BY <1>1
  <1> SUFFICES ASSUME NEW c \in Links, NEW x \in Flight(wire)[c], x # pkt.sn
               PROVE  x \in Flight(v)[c]
    BY <1>2 DEF LandsAlone
  <1>3. PICK i \in 1 .. Len(wire[c]) : IsData(wire[c][i]) /\ x = First + wire[c][i].id
    BY <1>1, FlightMembers
  <1>4. CASE c # cid
    BY <1>1, <1>2, <1>3, <1>4, FlightMembers
  <1>5. CASE c = cid
    <2>1. i # 1
      BY <1>1, <1>3, <1>5
    <2>2. Len(wire[cid]) \in Nat /\ Len(v[cid]) = Len(wire[cid]) - 1
          /\ \A j \in 1 .. Len(v[cid]) : v[cid][j] = wire[cid][j + 1]
      BY <1>1, <1>2, WireTypes DEF Shifts
    <2>3. i - 1 \in 1 .. Len(v[cid]) /\ (i - 1) + 1 = i
      BY <1>5, <2>1, <2>2
    <2>4. v[cid][i - 1] = wire[cid][i]
      BY <2>2, <2>3
    <2> QED
      BY <1>1, <1>3, <1>5, <2>3, <2>4, FlightMembers
  <1> QED
    BY <1>4, <1>5

\* What the arrival of a packet leaves in flight.
OldLands(O, U, X, D, cid, p) ==
    /\ U \subseteq O
    /\ \A x \in O : x \in U \/ x = p
    /\ cid = D => U = O /\ p \in X /\ \A x \in X : p <= x
    /\ cid # D => p \in O /\ \A x \in U : p < x

LEMMA OldArrival ==
    ASSUME NEW E, NEW F, NEW D \in Links, NEW cid \in Links, NEW pkt, pkt.sn \in Nat,
           Lands(E, F, pkt, cid), LandsAlone(E, F, pkt), \A c \in Links : F[c] \subseteq Nat,
           \A c \in Links \ {D} : \A d \in Links \ {D} : (F[c] # {} /\ F[d] # {}) => c = d,
           \A x \in F[D] : \A y \in Old(F, D) : y < x
    PROVE  OldLands(Old(F, D), Old(E, D), F[D], D, cid, pkt.sn)
  <1>1. \A c \in Links : E[c] \subseteq F[c]
    BY DEF Lands
  <1>2. Old(E, D) \subseteq Old(F, D)
    BY <1>1 DEF Old
  <1>3. \A x \in Old(F, D) : x \in Old(E, D) \/ x = pkt.sn
    BY DEF Old, LandsAlone
  <1>4. ASSUME cid = D
        PROVE  Old(E, D) = Old(F, D) /\ pkt.sn \in F[D] /\ \A x \in F[D] : pkt.sn <= x
    <2>1. pkt.sn \in F[D] /\ \A x \in E[D] : pkt.sn < x
      BY <1>4 DEF Lands
    <2>2. \A x \in F[D] : pkt.sn <= x
      <3> SUFFICES ASSUME NEW x \in F[D] PROVE pkt.sn <= x
        OBVIOUS
      <3>1. x \in E[D] \/ x = pkt.sn
        BY DEF LandsAlone
      <3>2. x \in Nat
        OBVIOUS
      <3>3. x \in E[D] => pkt.sn < x
        BY <2>1
      <3> QED
        BY <3>1, <3>2, <3>3
    <2>3. ASSUME NEW x \in Old(F, D) PROVE x \in Old(E, D)
      <3>1. x < pkt.sn
        BY <2>1
      <3>2. x \in Nat
        BY DEF Old
      <3>3. x # pkt.sn
        BY <3>1, <3>2
      <3> QED
        BY <1>3, <3>3
    <2> QED
      BY <1>2, <2>1, <2>2, <2>3
  <1>5. ASSUME cid # D PROVE pkt.sn \in Old(F, D) /\ \A x \in Old(E, D) : pkt.sn < x
    <2>1. pkt.sn \in F[cid] /\ \A x \in E[cid] : pkt.sn < x
      BY DEF Lands
    <2>2. pkt.sn \in Old(F, D)
      BY <1>5, <2>1 DEF Old
    <2>3. ASSUME NEW x \in Old(E, D) PROVE pkt.sn < x
      <3>1. PICK c \in Links \ {D} : x \in E[c]
        BY DEF Old
      <3>2. F[c] # {} /\ F[cid] # {}
        BY <1>1, <2>1, <3>1
      <3>3. c = cid
        BY <1>5, <3>2
      <3> QED
        BY <2>1, <3>1, <3>3
    <2> QED
      BY <2>2, <2>3
  <1> QED
    BY <1>2, <1>3, <1>4, <1>5 DEF OldLands

\* Where the packet that arrives stands to the expected one.
Placed(s, D, O, cid, p, e) ==
    /\ Fresh(s, D, O) =>
          /\ e <= p
          /\ cid # D => p = e
          /\ cid = D => \/ p = e /\ O = {}
                        \/ e < p /\ e \in O
    /\ Passed(s, D, O) =>
          /\ cid = D => p = e
          /\ cid # D => p < e
    /\ Waiting(s, D, O) =>
          /\ cid = D => e < p
          /\ cid # D => p = e

LEMMA SteerNumbers ==
    ASSUME NEW s, NEW D \in Links, NEW cid \in Links, NEW p \in Nat, NEW e \in Nat,
           s.expected = e, NEW X \in SUBSET Nat, NEW O \in SUBSET Nat, NEW U,
           OldLands(O, U, X, D, cid, p), \A x \in X : e <= x /\ \A y \in O : y < x,
           (e <= p /\ IsEmpty(s)) => e \in X \/ e \in O
    PROVE  Placed(s, D, O, cid, p, e)
  <1>1. /\ U \subseteq O
        /\ \A x \in O : x \in U \/ x = p
        /\ cid = D => U = O /\ p \in X /\ \A x \in X : p <= x
        /\ cid # D => p \in O /\ \A x \in U : p < x
    BY DEF OldLands
  <1>2. ASSUME Fresh(s, D, O)
        PROVE  /\ e <= p
               /\ cid # D => p = e
               /\ cid = D => \/ p = e /\ O = {}
                             \/ e < p /\ e \in O
    <2>1. IsEmpty(s) /\ \A x \in O : e <= x
      BY <1>2 DEF Fresh
    <2>2. CASE cid # D
      <3>1. p \in O /\ e <= p /\ \A x \in O : p <= x
        BY <1>1, <2>1, <2>2
      <3>2. e \in X => p < e
        BY <3>1
      <3>3. e \in O
        BY <2>1, <3>1, <3>2
      <3> QED
        BY <2>2, <3>1, <3>3
    <2>3. CASE cid = D
      <3>1. p \in X /\ e <= p /\ \A x \in X : p <= x
        BY <1>1, <2>3
      <3>2. CASE e \in O
        BY <2>3, <3>1, <3>2
      <3>3. CASE e \in X
        <4>1. p = e
          BY <3>1, <3>3
        <4>2. \A x \in O : e <= x /\ x < p
          BY <2>1, <3>1
        <4>3. O = {}
          BY <4>1, <4>2
        <4> QED
          BY <2>3, <4>1, <4>3
      <3> QED
        BY <2>1, <3>1, <3>2, <3>3
    <2> QED
      BY <2>2, <2>3
  <1>3. ASSUME Passed(s, D, O)
        PROVE  /\ cid = D => p = e
               /\ cid # D => p < e
    <2>1. IsEmpty(s) /\ \A x \in O : x < e
      BY <1>3 DEF Passed
    <2>2. CASE cid # D
      BY <1>1, <2>1, <2>2
    <2>3. CASE cid = D
      <3>1. p \in X /\ e <= p /\ \A x \in X : p <= x
        BY <1>1, <2>3
      <3>2. e \notin O
        BY <2>1
      <3>3. e \in X
        BY <2>1, <3>1, <3>2
      <3> QED
        BY <2>3, <3>1, <3>3
    <2> QED
      BY <2>2, <2>3
  <1>4. ASSUME Waiting(s, D, O)
        PROVE  /\ cid = D => e < p
               /\ cid # D => p = e
    <2>1. e \in O /\ \A x \in O : e <= x
      BY <1>4 DEF Waiting
    <2>2. cid = D => e < p
      BY <1>1, <2>1
    <2>3. ASSUME cid # D PROVE p = e
      <3>1. p \in O /\ \A x \in O : p <= x
        BY <1>1, <2>3
      <3> QED
        BY <2>1, <3>1
    <2> QED
      BY <2>2, <2>3
  <1> QED
    BY <1>2, <1>3, <1>4 DEF Placed

SteerState ==
    /\ up = scenario.links
    /\ \A c \in Links : Flight(wire)[c] # {} => c \in up
    /\ SteerWire(wire, deliveryLink)
    /\ \A x \in Flight(wire)[deliveryLink] : m_gmaRxExpectedSn <= x
    /\ Complete(m_reorderingQueue, m_gmaRxExpectedSn, Flight(wire), sent)
    /\ Phase(Receiver(0), wire, deliveryLink, Old(Flight(wire), deliveryLink))

NoFaults == Unwrapped /\ scenario.mode = "steer" /\ scenario.faults = {}

\* The inductive invariant of steer mode.
SteerInv == NoFaults => InOrder /\ SteerState

LEMMA FlightIsNat ==
    ASSUME NEW w, NEW D
    PROVE  /\ \A c \in Links : Flight(w)[c] \in SUBSET Nat
           /\ Old(Flight(w), D) \in SUBSET Nat
  BY DEF Flight, Old

LEMMA QuietWire ==
    ASSUME First \in Nat, NEW w \in Wires, NEW c \in Links, Flight(w)[c] # {}
    PROVE  w[c] # << >>
  <1>1. PICK x \in Flight(w)[c] : TRUE
    OBVIOUS
  <1>2. PICK i \in 1 .. Len(w[c]) : IsData(w[c][i])
    BY FlightMembers
  <1> QED
    BY <1>2, WireTypes

LEMMA SteerArrival ==
    ASSUME TypeOK, WireInv, NumberedInv, NoFaults, InOrder, SteerState,
           NEW cid \in Links, ReceiveData(cid), NEW pkt \in DataPackets, pkt = Head(wire[cid]),
           NEW D, D = deliveryLink,
           NEW O, O = Old(Flight(wire), D), NEW U, U = Old(Flight(wire'), D)
    PROVE  /\ D \in Links /\ pkt.sn \in Nat /\ m_gmaRxExpectedSn \in Nat
           /\ U \in SUBSET Nat /\ O \in SUBSET Nat
           /\ OldLands(O, U, Flight(wire)[D], D, cid, pkt.sn)
           /\ Placed(Receiver(0), D, O, cid, pkt.sn, m_gmaRxExpectedSn)
           /\ \A x \in Flight(wire)[D] : x \in Nat /\ \A y \in O : y < x
           /\ cid # D => /\ wire'[cid] # << >>
                         /\ \A c \in Links : (c # D /\ wire[c] # << >>) => c = cid
  <1>1. /\ Unwrapped /\ scenario.mode = "steer" /\ scenario.mode # "duplicate"
        /\ D \in Links /\ m_gmaRxExpectedSn \in Nat /\ pkt.sn \in Nat
    <2>1. scenario.links \subseteq Links /\ deliveryLink \in scenario.links
      BY DefaultCidIsLink DEF TypeOK
    <2> QED
      BY <2>1, ReorderAssumption DEF NoFaults, TypeOK, Sns, DataPackets
  <1>2. PICK E, F : E = Flight(wire') /\ F = Flight(wire)
    OBVIOUS
  <1>3. Lands(E, F, pkt, cid) /\ LandsAlone(E, F, pkt)
    BY <1>1, <1>2, PacketLands, FlightLandsAlone
  <1>4. First \in Nat /\ wire \in Wires /\ wire' \in Wires
        /\ Len(wire[cid]) \in Nat /\ 1 \in 1 .. Len(wire[cid]) /\ IsData(wire[cid][1])
        /\ Shifts(wire', wire, cid)
    BY <1>1, PlainNumbers, ArrivingPacket, WireTypes
  <1>5. SteerWire(wire, D)
    BY DEF SteerState
  <1>6. \A c \in Links \ {D} : \A d \in Links \ {D} : (F[c] # {} /\ F[d] # {}) => c = d
    BY <1>2, <1>4, <1>5, QuietWire DEF SteerWire
  <1>7. \A x \in F[D] : \A y \in O : y < x
    BY <1>2, <1>5 DEF SteerWire
  <1>8. \A c \in Links : F[c] \subseteq Nat
    BY <1>2, FlightIsNat
  <1>9. OldLands(O, U, F[D], D, cid, pkt.sn)
    <2>1. O = Old(F, D) /\ U = Old(E, D)
      BY <1>2
    <2>2. \A x \in F[D] : \A y \in Old(F, D) : y < x
      BY <1>7, <2>1
    <2>3. OldLands(Old(F, D), Old(E, D), F[D], D, cid, pkt.sn)
      BY <1>1, <1>3, <1>6, <1>8, <2>2, OldArrival
    <2> QED
      BY <2>1, <2>3
  <1>10. PICK e \in Nat, p \in Nat : e = m_gmaRxExpectedSn /\ p = pkt.sn
    BY <1>1
  <1> DEFINE s == Receiver(0)
  <1> HIDE DEF s
  <1>11. s.expected = e /\ s.queue = m_reorderingQueue
    BY <1>10, ReceiverIsReceiver DEF s
  <1>12. O \in SUBSET Nat /\ U \in SUBSET Nat /\ F[D] \in SUBSET Nat
    BY <1>1, <1>2, FlightIsNat
  <1>13. ASSUME e <= p, IsEmpty(s) PROVE e \in F[D] \/ e \in O
    <2>1. First <= e
      BY <1>10 DEF InOrder, Ordered, Contents
    <2>2. PICK a \in Nat : a = pkt.id /\ p = First + a /\ a < sent /\ sent \in Nat
      BY <1>1, <1>10, ArrivingPacket, PlainNumbers
    <2>3. PICK f \in Nat, n \in Nat : f = First /\ n = sent
      BY <1>4, <2>2
    <2>4. e - f \in 0 .. n - 1 /\ f + (e - f) = e /\ e <= e
      BY <1>13, <2>1, <2>2, <2>3
    <2>5. PICK id \in 0 .. sent - 1 : e <= First + id /\ First + id = e
      BY <2>3, <2>4
    <2>6. \/ \E c \in Links : e \in F[c]
          \/ \E c \in Links : \E i \in 1 .. Len(m_reorderingQueue[c]) : m_reorderingQueue[c][i].id = id
      BY <1>2, <1>10, <2>5 DEF SteerState, Complete
    <2>7. \A c \in Links : m_reorderingQueue[c] = << >>
      BY <1>11, <1>13 DEF IsEmpty
    <2>8. Len(<< >>) = 0 /\ 1 .. 0 = {}
      OBVIOUS
    <2>9. \E c \in Links : e \in F[c]
      BY <2>6, <2>7, <2>8
    <2> QED
      BY <1>2, <2>9 DEF Old
  <1>14. \A x \in F[D] : e <= x
    BY <1>2, <1>10 DEF SteerState
  <1>15. Placed(s, D, O, cid, p, e)
    BY <1>1, <1>7, <1>9, <1>10, <1>11, <1>12, <1>13, <1>14, SteerNumbers
  <1>16. ASSUME cid # D
         PROVE  /\ wire'[cid] # << >>
                /\ \A c \in Links : (c # D /\ wire[c] # << >>) => c = cid
    <2>1. Len(wire[cid]) # 1
      <3>1. \A i \in 1 .. Len(wire[cid]) : IsData(wire[cid][i]) <=> i # Len(wire[cid])
        BY <1>5, <1>16 DEF SteerWire
      <3>2. IsData(wire[cid][1]) <=> 1 # Len(wire[cid])
        BY <1>4, <3>1
      <3> QED
        BY <1>4, <3>2
    <2>2. PICK a \in Nat : a = Len(wire[cid])
      BY <1>4
    <2>7. a - 1 > 0
      <3>1. 1 \in 1 .. a /\ a # 1
        BY <1>4, <2>1, <2>2
      <3> QED
        BY <3>1
    <2>8. Len(wire'[cid]) = Len(wire[cid]) - 1
      BY <1>4 DEF Shifts
    <2>3. Len(wire'[cid]) > 0
      BY <2>2, <2>7, <2>8
    <2>4. PICK v \in Wires : v = wire'
      BY <1>4
    <2>5. v[cid] # << >>
      BY <2>3, <2>4, WireTypes
    <2>6. wire[cid] # << >>
      BY <1>4, WireTypes
    <2> QED
      BY <1>5, <1>16, <2>4, <2>5, <2>6 DEF SteerWire
  <1> QED
    BY <1>1, <1>2, <1>7, <1>9, <1>10, <1>12, <1>15, <1>16 DEF s

\* Without reordering a packet that arrives is not before the expected one.
LEMMA SteerDirect ==
    ASSUME NEW s \in Receivers, NEW r, NEW cid \in Links, r = OnArrival(s, cid),
           scenario.mode = "steer", NEW w, NEW D \in Links, NEW O, Phase(s, w, D, O), ~ r.on,
           NEW p \in Nat, NEW e \in Nat, Placed(s, D, O, cid, p, e)
    PROVE  e <= p
  <1>1. r.on = (s.on \/ s.newLink \notin {NoCid, cid})
    BY OnArrivalFacts
  <1>2. ~ s.on /\ s.newLink \in {NoCid, cid}
    BY <1>1
  <1>3. CASE Fresh(s, D, O)
    BY <1>3 DEF Placed
  <1>4. CASE Passed(s, D, O)
    <2>1. s.newLink = D /\ D # NoCid
      BY <1>2, <1>4, LinksAreNumbers DEF Passed
    <2>2. p = e
      BY <1>2, <1>4, <2>1 DEF Placed
    <2> QED
      BY <2>2
  <1>5. ~ Waiting(s, D, O)
    BY <1>2 DEF Waiting
  <1> QED
    BY <1>3, <1>4, <1>5 DEF Phase

LEMMA SteerContents ==
    ASSUME TypeOK, WireInv, OnceInv, TimerInv, NumberedInv, NoFaults, InOrder, SteerState,
           scenario' = scenario, NEW cid \in Links, ReceiveData(cid)
    PROVE  /\ InOrder'
           /\ Complete(m_reorderingQueue', m_gmaRxExpectedSn', Flight(wire'), sent)
           /\ \A x \in Flight(wire')[deliveryLink] : m_gmaRxExpectedSn' <= x
  <1>0. Unwrapped /\ scenario.mode = "steer" /\ scenario.mode # "duplicate"
    BY DEF NoFaults
  <1>1. PICK pkt \in DataPackets : pkt = Head(wire[cid])
    BY ReceiveDataCases
  <1>2. PICK x \in Expirations : \E r \in Receivers :
           /\ r = OnArrival(Receiver(x), cid)
           /\ \/ r.on /\ InOrderDelivery(r, pkt, cid)
              \/ /\ ~ r.on /\ Becomes(Delivered(r, pkt))
                 /\ UNCHANGED <<m_gmaRxLast, m_reorderingTimeoutEvent, discarded>>
    BY <1>1, ReceiveDataCases
  <1>3. x = 0
    BY DEF Expirations, May, NoFaults
  <1>4. PICK s \in Receivers : s = Receiver(0)
    BY ReceiverIsReceiver
  <1>5. /\ s.queue = m_reorderingQueue /\ s.out = forwarded
        /\ s.expected = m_gmaRxExpectedSn /\ s.on = m_enableReordering
    BY <1>4, ReceiverIsReceiver
  <1>6. PICK r \in Receivers :
           /\ r = OnArrival(s, cid)
           /\ \/ r.on /\ InOrderDelivery(r, pkt, cid)
              \/ ~ r.on /\ Becomes(Delivered(r, pkt)) /\ UNCHANGED m_gmaRxLast
    BY <1>2, <1>3, <1>4
  <1>7. /\ r.queue = m_reorderingQueue /\ r.out = forwarded
        /\ r.expected = m_gmaRxExpectedSn /\ (m_enableReordering => r.on)
    BY <1>5, <1>6, OnArrivalFacts DEF SameContents
  <1>8. PICK D \in Links, O \in SUBSET Nat, U \in SUBSET Nat, e \in Nat, p \in Nat :
           /\ D = deliveryLink /\ O = Old(Flight(wire), D) /\ U = Old(Flight(wire'), D)
           /\ e = m_gmaRxExpectedSn /\ p = pkt.sn
           /\ OldLands(O, U, Flight(wire)[D], D, cid, p)
           /\ Placed(Receiver(0), D, O, cid, p, e)
           /\ \A y \in Flight(wire)[D] : y \in Nat /\ \A z \in O : z < y
    <2>1. PICK D : D = deliveryLink
      OBVIOUS
    <2>2. PICK O, U : O = Old(Flight(wire), D) /\ U = Old(Flight(wire'), D)
      OBVIOUS
    <2>3. /\ D \in Links /\ pkt.sn \in Nat /\ m_gmaRxExpectedSn \in Nat
          /\ U \in SUBSET Nat /\ O \in SUBSET Nat
          /\ OldLands(O, U, Flight(wire)[D], D, cid, pkt.sn)
          /\ Placed(Receiver(0), D, O, cid, pkt.sn, m_gmaRxExpectedSn)
          /\ \A y \in Flight(wire)[D] : y \in Nat /\ \A z \in O : z < y
      BY <1>0, <1>1, <2>1, <2>2, SteerArrival
    <2> QED
      BY <2>1, <2>2, <2>3
  <1>9. PICK E, F, S, P : /\ E = Flight(wire') /\ F = Flight(wire)
                          /\ S = Arrived(wire, sent) /\ P = Positions(m_gmaRxLast)
    OBVIOUS
  <1>10. /\ OldLands(O, U, F[D], D, cid, p)
         /\ Placed(s, D, O, cid, p, e)
         /\ \A y \in F[D] : y \in Nat /\ \A z \in O : z < y
    BY <1>4, <1>8, <1>9
  <1>11. Phase(s, wire, D, O)
    BY <1>4, <1>8 DEF SteerState
  <1>12. ~ r.on => e <= p
    BY <1>0, <1>6, <1>10, <1>11, SteerDirect
  <1>13. \/ r.on /\ InOrderDelivery(r, pkt, cid)
         \/ /\ ~ r.on /\ Becomes(Delivered(r, pkt)) /\ UNCHANGED m_gmaRxLast
            /\ m_gmaRxExpectedSn <= pkt.sn
    BY <1>6, <1>8, <1>12
  <1>14. r \in Sorted(S, P, sent)
    BY <1>0, <1>7, <1>9, SortedReceiver
  <1>15. /\ First \in Nat /\ sent \in Nat /\ sent <= sent /\ sent' = sent /\ pkt.id \in Nat
         /\ pkt.id < sent /\ pkt.sn = First + pkt.id /\ wire \in Wires
    BY <1>0, <1>1, PlainNumbers, ArrivingPacket
  <1>16. NextSn(pkt.sn) = pkt.sn + 1
    <2>1. PICK y \in Nat : y = First + pkt.id
      BY <1>15
    <2>2. y < MAX_GMA_SN
      BY <1>0, <1>15, <2>1, PlainNumbers
    <2>3. y \in Sns /\ y # MAX_GMA_SN
      BY <2>2, ReorderAssumption DEF Sns
    <2> QED
      BY <1>15, <2>1, <2>3, NextSnIsSn
  <1>17. Lands(E, F, pkt, cid) /\ LandsAlone(E, F, pkt)
    BY <1>0, <1>1, <1>9, PacketLands, FlightLandsAlone
  <1>18. PICK s1 \in Covering(E, sent) :
            /\ Becomes(s1)
            /\ s1 \in Sorted(Arrived(wire', sent'), Positions(m_gmaRxLast'), sent)
    <2>1. PICK G : G = Covering(E, sent)
      OBVIOUS
    <2>2. r \in Covering(F, sent)
      BY <1>7, <1>9 DEF SteerState, Covering
    <2>3. /\ pkt.sn < r.expected => r \in G
          /\ r.expected <= pkt.sn =>
                /\ Delivered(r, pkt) \in G
                /\ \A lost \in BOOLEAN : Queued(r, pkt, cid, lost) \in G
      BY <1>15, <1>16, <1>17, <2>1, <2>2, CoveringArrival
    <2>4. \A T : \A Q \in [Links -> Nat] : Closed(Sorted(T, Q, sent) \cap G)
      BY <1>0, <1>15, <2>1, CoveringIsClosed, PlainUpTo
    <2>5. G \in SUBSET Receivers
      BY <2>1 DEF Covering
    <2>6. r \in Sorted(Arrived(wire, sent), Positions(m_gmaRxLast), sent)
      BY <1>9, <1>14
    <2>7. \E t \in G : /\ Becomes(t)
                      /\ t \in Sorted(Arrived(wire', sent'), Positions(m_gmaRxLast'), sent)
      BY <1>0, <1>1, <1>7, <1>13, <1>15, <2>3, <2>4, <2>5, <2>6, InOrderReceive
    <2> QED
      BY <2>1, <2>7
  <1>19. InOrder'
    <2>1. s1 \in Sorted(Arrived(wire', sent'), Positions(m_gmaRxLast'), sent')
      BY <1>15, <1>18
    <2> QED
      BY <1>18, <2>1, BecomesInOrder
  <1>20. Complete(m_reorderingQueue', m_gmaRxExpectedSn', Flight(wire'), sent)
    BY <1>9, <1>18 DEF Covering, Becomes
  <1>21. ASSUME NEW x0 \in E[D] PROVE m_gmaRxExpectedSn' <= x0
    <2>1. x0 \in F[D] /\ x0 \in Nat
      BY <1>10, <1>17 DEF Lands
    <2>2. PICK j \in 1 .. Len(wire[D]) : IsData(wire[D][j]) /\ x0 = First + wire[D][j].id
      BY <1>9, <1>15, <2>1, FlightMembers
    <2>3. PICK n \in Nat : n = wire[D][j].id /\ x0 = First + n /\ n < sent /\ n <= sent
      <3>1. wire[D][j].id \in Nat
        BY <1>15, <2>2, WireTypes
      <3>2. wire[D][j].id < sent
        BY <2>2 DEF WireInv, WireOK
      <3>3. PICK n \in Nat : n = wire[D][j].id
        BY <3>1
      <3>4. n < sent /\ n <= sent
        BY <1>15, <3>2, <3>3
      <3> QED
        BY <2>2, <3>3, <3>4
    <2>4. p < x0
      <3>1. CASE cid = D
        BY <1>8, <1>17, <3>1 DEF Lands
      <3>2. CASE cid # D
        BY <1>10, <2>1, <3>2 DEF OldLands
      <3> QED
        BY <3>1, <3>2
    <2>5. pkt.id < n
      <3>1. PICK f \in Nat, a \in Nat : f = First /\ a = pkt.id
        BY <1>15
      <3>2. f + a < f + n
        BY <1>8, <1>15, <2>3, <2>4, <3>1
      <3>3. a < n
        BY <3>2
      <3> QED
        BY <3>1, <3>3
    <2>6. ASSUME NEW c \in Links, NEW i \in 1 .. Len(r.queue[c])
          PROVE  r.queue[c][i].sn < x0
      <3>1. r.queue[c][i] \in Items /\ r.queue[c][i].sn \in Nat
        BY QueueTypes, ReorderAssumption DEF Items, Sns
      <3>2. c = D
        <4>1. Len(<< >>) = 0 /\ 1 .. 0 = {}
          OBVIOUS
        <4>2. c # D => r.queue[c] = << >>
          BY <1>5, <1>7, <1>11 DEF Phase, Fresh, Passed, Waiting, IsEmpty
        <4> QED
          BY <4>1, <4>2
      <3>3. r.queue[c][i].sn < P[D]
        BY <1>14, <3>2 DEF Sorted, Ordered, Positioned
      <3>4. P[D] <= x0 /\ P[D] \in Nat
        <4>1. PICK k \in Counts : NumberedOK(k)
          BY <1>0, <1>8 DEF NumberedInv
        <4>2. FlightOK(wire, k, m_gmaRxLast)
          BY <4>1 DEF NumberedOK
        <4>3. Flying(Flight(wire), Arrived(wire, sent), Positions(m_gmaRxLast))
          BY <1>15, <4>2, FlightIsFlying DEF SteerState
        <4> QED
          BY <1>9, <2>1, <4>3, PositionsAreNumbers DEF Flying
      <3>5. PICK a \in Nat, b \in Nat : a = r.queue[c][i].sn /\ b = P[D]
        BY <3>1, <3>4
      <3>6. a < x0
        BY <2>1, <3>3, <3>4, <3>5
      <3> QED
        BY <3>5, <3>6
    <2>7. r \in Sorted(S, P, n)
      <3>1. Ordered(r, P, sent) /\ r \in Once(S)
        BY <1>14 DEF Sorted
      <3>2. r.expected <= First + n
        BY <1>7, <1>9, <2>1, <2>3, <1>8 DEF SteerState
      <3>3. ASSUME NEW c \in Links, NEW i \in 1 .. Len(r.queue[c]) PROVE r.queue[c][i].id < n
        <4>1. r.queue[c][i].sn = First + r.queue[c][i].id /\ r.queue[c][i].id \in Nat
          <5>1. r.queue[c][i] \in Items
            BY QueueTypes
          <5> QED
            BY <3>1, <5>1 DEF Ordered, Ascending, Items
        <4>2. PICK f \in Nat, a \in Nat : f = First /\ a = r.queue[c][i].id
          BY <1>15, <4>1
        <4>3. f + a < f + n
          BY <2>3, <2>6, <4>1, <4>2
        <4>4. a < n
          BY <4>3
        <4> QED
          BY <4>2, <4>4
      <3> QED
        BY <3>1, <3>2, <3>3 DEF Sorted, Ordered, Ascending
    <2>8. \A T : \A Q \in [Links -> Nat] : Closed(Sorted(T, Q, n) \cap Receivers)
      <3>1. Plain(n)
        BY <1>0, <2>3, PlainUpTo
      <3>2. \A T : \A Q \in [Links -> Nat] :
               Sorted(T, Q, n) \in SUBSET Receivers /\ Closed(Sorted(T, Q, n))
        BY <3>1, SortedIsClosed
      <3>3. \A T : \A Q \in [Links -> Nat] : Sorted(T, Q, n) \cap Receivers = Sorted(T, Q, n)
        BY <3>2
      <3> QED
        BY <3>2, <3>3
    <2>9. Delivered(r, pkt) \in Receivers /\ \A lost \in BOOLEAN : Queued(r, pkt, cid, lost) \in Receivers
      <3>1. IsDelivered(Delivered(r, pkt), r, pkt)
        BY DeliveredIsDelivered
      <3>2. \A lost \in BOOLEAN : IsQueued(Queued(r, pkt, cid, lost), r, pkt, cid, lost)
        BY QueuedIsQueued
      <3> QED
        BY <3>1, <3>2 DEF IsDelivered, IsQueued
    <2>10. r \in Sorted(Arrived(wire, sent), Positions(m_gmaRxLast), n)
      BY <1>9, <2>7
    <2>11. PICK G : G = Receivers
      OBVIOUS
    <2>14. /\ pkt.sn < r.expected => r \in G
           /\ r.expected <= pkt.sn =>
                 /\ Delivered(r, pkt) \in G
                 /\ \A lost \in BOOLEAN : Queued(r, pkt, cid, lost) \in G
      BY <1>6, <2>9, <2>11
    <2>15. \A T : \A Q \in [Links -> Nat] : Closed(Sorted(T, Q, n) \cap G)
      BY <2>8, <2>11
    <2>16. G \in SUBSET Receivers
      BY <2>11
    <2>12. \E t \in G : /\ Becomes(t)
                       /\ t \in Sorted(Arrived(wire', sent'), Positions(m_gmaRxLast'), n)
      <3>1. n \in Nat /\ n <= sent /\ pkt.id < n
        BY <2>3, <2>5
      <3>2. r \in Receivers /\ pkt \in DataPackets /\ pkt = Head(wire[cid])
        BY <1>1, <1>6
      <3>3. r.queue = m_reorderingQueue /\ r.expected = m_gmaRxExpectedSn /\ (m_enableReordering => r.on)
        BY <1>7
      <3> QED
        BY <1>0, <1>13, <3>1, <3>2, <3>3, <2>10, <2>14, <2>15, <2>16, InOrderReceive
    <2>13. PICK t : Becomes(t) /\ t \in Sorted(Arrived(wire', sent'), Positions(m_gmaRxLast'), n)
      BY <2>12
    <2> QED
      BY <2>3, <2>13 DEF Becomes, Sorted, Ordered
  <1> QED
    BY <1>8, <1>9, <1>19, <1>20, <1>21

-----------------------------------------------------------------------------
\* An arrival: the receiver s before it and r after OnArrival, the packet with its number p
\* over cid, the expected number e, what is in flight over the other links before it (O) and
\* after it (U) and over the delivery link before it (X), and the wires before it and after.
Meets(s, r, D, cid, p, e, O, U, X, w, v) ==
    /\ s \in Receivers /\ r \in Receivers /\ r.queue = s.queue
    /\ s.expected = e /\ r.expected = e /\ s.expired = 0 /\ r.expired = 0
    /\ r.newLink = IF s.newLink = NoCid \/ ~ s.on THEN cid ELSE s.newLink
    /\ r.on = (s.on \/ s.newLink \notin {NoCid, cid})
    /\ Placed(s, D, O, cid, p, e)
    /\ OldLands(O, U, X, D, cid, p)
    /\ \A x \in X : \A y \in O : y < x
    /\ \A c \in Links : c # cid => v[c] = w[c]
    /\ cid # D => v[cid] # << >> /\ \A c \in Links : (c # D /\ w[c] # << >>) => c = cid
    /\ s.newLink \notin {NoCid, D} => w[s.newLink] # << >>

\* What the steps of the loops need: the numbers are those of Sorted, and a packet is too
\* early or too late by SnDiff when its number says so.
Grasped(G, r, pkt, cid, p, e) ==
    /\ p = e => Delivered(r, pkt) \in G
    /\ (e < p /\ ~ (GapIsLost(pkt, cid) /\ r.queue[cid] = << >>)) =>
          Queued(r, pkt, cid, GapIsLost(pkt, cid)) \in G
    /\ p < e => SnDiff(p, e) < 0
    /\ e < p => ~ (SnDiff(p, e) < 0)

\* Delivering an in-order packet, or the first one of a link without reordering, goes on.
LEMMA MeetsDelivered ==
    ASSUME NEW s, NEW r, NEW D \in Links, NEW cid \in Links, NEW p \in Nat, NEW e \in Nat,
           NEW O \in SUBSET Nat, NEW U \in SUBSET Nat, NEW X, NEW w, NEW v,
           Meets(s, r, D, cid, p, e, O, U, X, w, v), NEW pkt \in DataPackets, pkt.sn = p,
           NextSn(p) = p + 1, ~ r.on, Fresh(s, D, O) \/ Passed(s, D, O)
    PROVE  Phase(Delivered(r, pkt), v, D, U)
  <1>1. PICK t : t = Delivered(r, pkt) /\ IsDelivered(t, r, pkt)
    BY DeliveredIsDelivered DEF Meets
  <1>2. /\ t.queue = s.queue /\ t.expected = p + 1 /\ t.on = r.on /\ t.newLink = r.newLink
    BY <1>1 DEF IsDelivered, SameFlags, Meets
  <1>3. ~ s.on /\ r.newLink = cid /\ s.newLink \in {NoCid, cid}
    BY DEF Meets
  <1>4. IsEmpty(t)
    BY <1>2 DEF Fresh, Passed, IsEmpty
  <1>5. cid # NoCid /\ D # NoCid
    BY LinksAreNumbers
  <1>6. CASE cid = D
    <2>1. U = O /\ p \in X
      BY <1>6 DEF Meets, OldLands
    <2>2. \A x \in U : x < p + 1
      BY <2>1 DEF Meets
    <2>3. Passed(t, D, U)
      BY <1>2, <1>3, <1>4, <1>6, <2>2 DEF Passed
    <2> QED
      BY <1>1, <1>2, <1>3, <1>6, <2>3 DEF Phase
  <1>7. CASE cid # D
    <2>1. \A x \in U : p + 1 <= x
      BY <1>7 DEF Meets, OldLands
    <2>2. Fresh(t, D, U)
      BY <1>2, <1>3, <1>4, <1>7, <2>1 DEF Fresh
    <2>3. v[cid] # << >>
      BY <1>7 DEF Meets
    <2> QED
      BY <1>1, <1>2, <1>3, <2>2, <2>3 DEF Phase
  <1> QED
    BY <1>6, <1>7

\* The in-order packet of an empty receiver that reorders.
LEMMA MeetsInOrder ==
    ASSUME NEW s, NEW r, NEW D \in Links, NEW cid \in Links, NEW p \in Nat, NEW e \in Nat,
           NEW O \in SUBSET Nat, NEW U \in SUBSET Nat, NEW X, NEW w, NEW v,
           Meets(s, r, D, cid, p, e, O, U, X, w, v), NEW pkt \in DataPackets, pkt.sn = p,
           NextSn(p) = p + 1, r.on, InOrderDelivery(r, pkt, cid), p = e,
           Fresh(s, D, O) \/ Passed(s, D, O)
    PROVE  \E t \in Receivers : Becomes(t) /\ Phase(t, v, D, U)
  <1>1. PICK t : t = Delivered(r, pkt) /\ IsDelivered(t, r, pkt)
    BY DeliveredIsDelivered DEF Meets
  <1>2. /\ t.queue = s.queue /\ t.expected = p + 1 /\ t.on = r.on /\ t.newLink = r.newLink
        /\ t \in Receivers
    BY <1>1 DEF IsDelivered, SameFlags, Meets
  <1>3. IsEmpty(t) /\ IsEmpty(r)
    BY <1>2 DEF Fresh, Passed, IsEmpty, Meets
  <1>4. Becomes(IF r.newLink = cid THEN Stopped(t) ELSE t)
    BY <1>1, <1>3, DeliverIntoEmpty DEF Meets
  <1>5. cid # NoCid /\ D # NoCid
    BY LinksAreNumbers
  <1>6. CASE Fresh(s, D, O)
    <2>1. r.newLink = cid
      BY <1>6 DEF Fresh, Meets
    <2>2. PICK z : z = Stopped(t)
      OBVIOUS
    <2>3. /\ z \in Receivers /\ z.queue = t.queue /\ z.on = FALSE /\ z.expected = t.expected
          /\ z.newLink = NoCid
      BY <1>2, <2>2, StoppedFacts DEF SameContents
    <2>4. \A x \in U : p + 1 <= x
      <3>1. CASE cid = D
        BY <1>6, <3>1 DEF Meets, OldLands, Placed
      <3>2. CASE cid # D
        BY <3>2 DEF Meets, OldLands
      <3> QED
        BY <3>1, <3>2
    <2>5. Fresh(z, D, U)
      BY <1>2, <1>3, <2>3, <2>4 DEF Fresh, IsEmpty
    <2>6. Phase(z, v, D, U)
      BY <2>3, <2>5 DEF Phase
    <2> QED
      BY <1>4, <2>1, <2>2, <2>3, <2>6
  <1>7. CASE Passed(s, D, O)
    <2>1. cid = D
      BY <1>7 DEF Meets, Placed
    <2>2. s.newLink \notin {NoCid, D} /\ s.on /\ r.newLink = s.newLink
      BY <1>7, <2>1, <1>5 DEF Passed, Meets
    <2>3. U = O
      BY <2>1 DEF Meets, OldLands
    <2>4. \A x \in U : x < p + 1
      BY <1>7, <2>3 DEF Passed, Meets
    <2>5. Passed(t, D, U)
      BY <1>2, <1>3, <2>2, <2>4 DEF Passed
    <2>6. s.newLink \in Links
      BY <2>2 DEF Meets, Receivers, Cids
    <2>7. v[s.newLink] # << >>
      BY <2>1, <2>2, <2>6 DEF Meets
    <2>8. Phase(t, v, D, U)
      BY <1>2, <2>2, <2>5, <2>7 DEF Phase
    <2> QED
      BY <1>2, <1>4, <2>1, <2>2, <2>8
  <1> QED
    BY <1>6, <1>7

\* A packet of a former link that the packets of the new one have passed is thrown away.
LEMMA MeetsLate ==
    ASSUME NEW s, NEW r, NEW D \in Links, NEW cid \in Links, NEW p \in Nat, NEW e \in Nat,
           NEW O \in SUBSET Nat, NEW U \in SUBSET Nat, NEW X, NEW w, NEW v,
           Meets(s, r, D, cid, p, e, O, U, X, w, v), NEW pkt \in DataPackets, pkt.sn = p,
           r.on, InOrderDelivery(r, pkt, cid), p < e, SnDiff(p, e) < 0,
           Passed(s, D, O)
    PROVE  Becomes(r) /\ Phase(r, v, D, U)
  <1>1. Becomes(r)
    BY ThrowAway DEF Meets
  <1>2. cid # D
    BY DEF Meets, Placed
  <1>3. cid # NoCid /\ D # NoCid
    BY LinksAreNumbers
  <1>4. r.newLink = cid
    <2>1. CASE s.newLink = D /\ ~ s.on
      BY <2>1 DEF Meets
    <2>2. CASE s.newLink \notin {NoCid, D} /\ s.on
      <3>1. s.newLink \in Links /\ w[s.newLink] # << >>
        BY <2>2 DEF Meets, Receivers, Cids
      <3>2. s.newLink = cid
        BY <1>2, <2>2, <3>1 DEF Meets
      <3> QED
        BY <2>2, <3>2 DEF Meets
    <2> QED
      BY <2>1, <2>2 DEF Passed
  <1>5. \A x \in U : x < r.expected
    BY DEF Meets, OldLands, Passed
  <1>6. IsEmpty(r)
    BY DEF Meets, Passed, IsEmpty
  <1>7. Passed(r, D, U)
    BY <1>2, <1>3, <1>4, <1>5, <1>6 DEF Passed
  <1>8. v[cid] # << >>
    BY <1>2 DEF Meets
  <1> QED
    BY <1>1, <1>4, <1>7, <1>8 DEF Phase

\* A receiver that waits does not release: the head of the only queue that is not empty
\* is not the expected packet, is not in order and has not expired.
LEMMA WaitingHolds ==
    ASSUME NEW n, Plain(n), NEW T, NEW Q, NEW t \in Sorted(T, Q, n), NEW D \in Links,
           \A c \in Links : c # D => t.queue[c] = << >>,
           t.queue[D] # << >>, ~ t.queue[D][1].inOrder,
           t.queue[D][1].sn # t.expected, t.expired = 0
    PROVE  ReleaseInOrderStep(t) = t
  <1>1. t \in Receivers
    BY DEF Sorted, Once
  <1>2. MinCid(t.queue) = D
    <2>1. PICK q : q = t.queue
      OBVIOUS
    <2>2. /\ MinCid(q) \in Cids
          /\ MinCid(q) # NoCid => q[MinCid(q)] # << >>
          /\ MinCid(q) = NoCid => \A c \in Links : q[c] = << >>
      BY MinCidFinds
    <2> QED
      BY <2>1, <2>2 DEF Cids
  <1>3. Head(t.queue[D]) = t.queue[D][1]
    BY <1>1, QueueTypes
  <1>4. PICK cid, head, z : cid = MinCid(t.queue) /\ head = Head(t.queue[cid]) /\ z = ReleaseInOrderStep(t)
    OBVIOUS
  <1>5. \/ z = t
        \/ head.sn = t.expected \/ head.inOrder
        \/ t.expired > 0
    BY <1>4, SortedSteps
  <1> QED
    BY <1>2, <1>3, <1>4, <1>5

\* A packet of the delivery link that is too early is queued, and nothing else happens.
LEMMA MeetsEarly ==
    ASSUME NEW s, NEW r, NEW D \in Links, NEW cid \in Links, NEW p \in Nat, NEW e \in Nat,
           NEW O \in SUBSET Nat, NEW U \in SUBSET Nat, NEW X, NEW w, NEW v,
           Meets(s, r, D, cid, p, e, O, U, X, w, v), NEW pkt \in DataPackets, pkt.sn = p,
           NEW n, Plain(n), NEW T, NEW Q, Grasped(Sorted(T, Q, n), r, pkt, cid, p, e),
           cid = D, e < p, e \in O, r.on, r.newLink = D, InOrderDelivery(r, pkt, cid),
           \A x \in O : e <= x,
           \A c \in Links : c # D => s.queue[c] = << >>,
           s.queue[D] = << >> => ~ GapIsLost(pkt, cid),
           s.queue[D] # << >> => ~ s.queue[D][1].inOrder,
           \A x \in O : \A i \in 1 .. Len(s.queue[D]) : x < s.queue[D][i].sn,
           \E link \in up : link \in Links /\ link # D
    PROVE  \E t \in Receivers : Becomes(t) /\ Phase(t, v, D, U)
  <1>0. r \in Receivers /\ r.queue = s.queue /\ r.expected = e /\ r.expired = 0 /\ s \in Receivers
    BY DEF Meets
  <1>1. PICK lost \in BOOLEAN : lost = GapIsLost(pkt, cid)
    BY DEF GapIsLost
  <1>2. PICK t : t = Queued(r, pkt, cid, lost) /\ IsQueued(t, r, pkt, cid, lost)
    BY <1>0, QueuedIsQueued
  <1>3. ~ lost \/ r.queue[cid] # << >>
    BY <1>0, <1>1
  <1>4. /\ t \in Receivers /\ t.expected = e /\ t.expired = 0 /\ t.on /\ t.newLink = D
        /\ \A c \in Links : c # D => t.queue[c] = << >>
    BY <1>0, <1>2 DEF IsQueued
  <1>5. PICK N \in Nat : N = Len(s.queue[D])
    BY <1>0, QueueTypes
  <1>6. /\ Len(t.queue[D]) = N + 1
        /\ \A i \in 1 .. N : t.queue[D][i] = s.queue[D][i]
        /\ t.queue[D][N + 1] = [sn |-> p, id |-> pkt.id, inOrder |-> lost]
    BY <1>0, <1>2, <1>5 DEF IsQueued
  <1>7. t.queue[D] # << >>
    BY <1>4, <1>5, <1>6, QueueTypes
  <1>8. \A x \in O : x < p
    BY DEF Meets, OldLands
  <1>9. \A x \in O : \A i \in 1 .. Len(t.queue[D]) : x < t.queue[D][i].sn
    <2> SUFFICES ASSUME NEW x \in O, NEW i \in 1 .. Len(t.queue[D]) PROVE x < t.queue[D][i].sn
      OBVIOUS
    <2>1. i \in 1 .. N \/ i = N + 1
      BY <1>5, <1>6
    <2>2. CASE i \in 1 .. N
      BY <1>5, <1>6, <2>2
    <2>3. CASE i = N + 1
      BY <1>6, <1>8, <2>3
    <2> QED
      BY <2>1, <2>2, <2>3
  <1>10. ~ t.queue[D][1].inOrder
    <2>1. CASE s.queue[D] = << >>
      <3>1. N = 0
        BY <1>5, <2>1
      <3> QED
        BY <1>1, <1>6, <2>1, <3>1
    <2>2. CASE s.queue[D] # << >>
      <3>1. N > 0
        BY <1>0, <1>5, <2>2, QueueTypes
      <3>2. 1 \in 1 .. N
        BY <3>1
      <3> QED
        BY <1>6, <2>2, <3>2
    <2> QED
      BY <2>1, <2>2
  <1>11. t \in Sorted(T, Q, n)
    <2>1. ~ (GapIsLost(pkt, cid) /\ r.queue[cid] = << >>)
      BY <1>1, <1>3
    <2> QED
      BY <1>1, <1>2, <2>1 DEF Grasped
  <1>12. ReleaseInOrderStep(t) = t
    <2>1. 1 \in 1 .. Len(t.queue[D])
      BY <1>5, <1>6
    <2>2. t.queue[D][1].sn # e
      BY <1>9, <2>1
    <2> QED
      BY <1>4, <1>7, <1>10, <1>11, <2>2, WaitingHolds
  <1>13. ReleaseMinStep(t) = t
    BY <1>4, MinStepCases
  <1>14. Becomes(t)
    BY <1>0, <1>1, <1>2, <1>3, <1>4, <1>12, <1>13, EnqueueOnly DEF Grasped
  <1>15. U = O
    BY DEF Meets, OldLands
  <1>16. Waiting(t, D, U)
    BY <1>4, <1>7, <1>9, <1>10, <1>15 DEF Waiting
  <1> QED
    BY <1>4, <1>14, <1>16 DEF Phase

\* The packet a waiting receiver expects arrives over a former link.  When it was the last
\* one of that link the queue is released and the reordering ends.
LEMMA MeetsAwaited ==
    ASSUME NEW s, NEW r, NEW D \in Links, NEW cid \in Links, NEW p \in Nat, NEW e \in Nat,
           NEW O \in SUBSET Nat, NEW U \in SUBSET Nat, NEW X, NEW w, NEW v,
           Meets(s, r, D, cid, p, e, O, U, X, w, v), NEW pkt \in DataPackets, pkt.sn = p,
           NEW n, Plain(n), NEW T, NEW Q, Grasped(Sorted(T, Q, n), r, pkt, cid, p, e),
           NextSn(p) = p + 1, r.on, InOrderDelivery(r, pkt, cid), Waiting(s, D, O), cid # D,
           p + 1 < s.queue[D][1].sn => p + 1 \in O
    PROVE  \E t \in Receivers : Becomes(t) /\ Phase(t, v, D, U)
  <1>0. /\ r \in Receivers /\ r.queue = s.queue /\ r.expected = e /\ r.expired = 0
        /\ s \in Receivers /\ p = e /\ r.newLink = D
    <2>1. s.newLink = D /\ s.on /\ D # NoCid
      BY LinksAreNumbers DEF Waiting
    <2> QED
      BY <2>1 DEF Meets, Placed
  <1>1. PICK d : d = Delivered(r, pkt) /\ IsDelivered(d, r, pkt)
    BY <1>0, DeliveredIsDelivered
  <1>2. /\ d \in Receivers /\ d.queue = s.queue /\ d.expected = p + 1 /\ d.on /\ d.newLink = D
        /\ d.expired = 0
    BY <1>0, <1>1 DEF IsDelivered, SameFlags
  <1>3. d \in Sorted(T, Q, n)
    BY <1>0, <1>1 DEF Grasped
  <1>4. /\ d.queue[D] # << >> /\ ~ d.queue[D][1].inOrder
        /\ \A c \in Links : c # D => d.queue[c] = << >>
        /\ \A x \in O : \A i \in 1 .. Len(d.queue[D]) : x < d.queue[D][i].sn
    BY <1>2 DEF Waiting
  <1>5. /\ Len(d.queue[D]) \in Nat /\ 1 \in 1 .. Len(d.queue[D])
        /\ Head(d.queue[D]) = d.queue[D][1] /\ d.queue[D][1].sn \in Nat
    <2>1. d.queue[D][1] \in Items /\ Len(d.queue[D]) \in Nat /\ Len(d.queue[D]) > 0
          /\ Head(d.queue[D]) = d.queue[D][1]
      BY <1>2, <1>4, QueueTypes
    <2> QED
      BY <2>1, ReorderAssumption DEF Items, Sns
  <1>6. PICK h \in Nat : h = d.queue[D][1].sn
    BY <1>5
  <1>7. \A x \in U : p < x /\ x \in O
    BY DEF Meets, OldLands
  <1>8. \A x \in O : x < h
    BY <1>4, <1>5, <1>6
  <1>9. p < h
    BY <1>0, <1>8 DEF Waiting, Meets
  <1>10. CASE h = p + 1
    <2>1. MinCid(d.queue) = D
      <3>1. PICK q : q = d.queue
        OBVIOUS
      <3>2. /\ MinCid(q) \in Cids
            /\ MinCid(q) # NoCid => q[MinCid(q)] # << >>
            /\ MinCid(q) = NoCid => \A c \in Links : q[c] = << >>
        BY MinCidFinds
      <3> QED
        BY <1>4, <3>1, <3>2 DEF Cids
    <2>2. PICK a : a = PopAndExpectNext(d, D) /\ IsPop(a, d, D)
      BY <1>2, <1>4, PopPops
    <2>3. a \in Receivers /\ a.on
      BY <1>2, <2>2 DEF IsPop, SameFlags
    <2>4. PICK z : z = StopReordering(a)
      OBVIOUS
    <2>5. z \in Receivers /\ IsEmpty(z) /\ z.on = FALSE /\ z.newLink = NoCid
      BY <2>3, <2>4, StopReorderingEmpties
    <2>6. ReleaseInOrderStep(d) = z
      <3>1. D # NoCid
        BY LinksAreNumbers
      <3> QED
        BY <1>2, <1>5, <1>6, <1>10, <2>1, <2>2, <2>4, <3>1 DEF ReleaseInOrderStep
    <2>7. ReleaseInOrderStep(z) = z
      <3>1. MinCid(z.queue) = NoCid
        <4>1. MinCid(z.queue) = NoCid \/ ~ IsEmpty(z)
          BY <2>5, MinCidCases
        <4> QED
          BY <2>5, <4>1
      <3> QED
        BY <3>1 DEF ReleaseInOrderStep
    <2>8. ~ IsEmpty(d)
      BY <1>4 DEF IsEmpty
    <2>9. ReleaseInOrderPackets(d) = z
      BY <1>2, <2>5, <2>6, <2>7, <2>8, OneRound
    <2>10. z.newLink # cid
      BY <2>5, LinksAreNumbers
    <2>11. Becomes(z)
      BY <1>0, <1>1, <2>9, <2>10, DeliverAndRelease
    <2>12. U = {}
      BY <1>7, <1>8, <1>10
    <2>13. Fresh(z, D, U)
      BY <2>5, <2>12 DEF Fresh
    <2> QED
      BY <2>5, <2>11, <2>13 DEF Phase
  <1>11. CASE h # p + 1
    <2>1. p + 1 < h
      BY <1>9, <1>11
    <2>2. p + 1 \in O
      BY <1>2, <1>6, <2>1
    <2>3. p + 1 \in U
      BY <2>2 DEF Meets, OldLands
    <2>4. \A x \in U : p + 1 <= x
      BY <1>7
    <2>5. ReleaseInOrderStep(d) = d
      BY <1>2, <1>3, <1>4, <1>6, <1>11, WaitingHolds
    <2>6. ReleaseInOrderPackets(d) = d
      BY <1>2, <2>5, NoRound
    <2>7. Becomes(d)
      BY <1>0, <1>1, <1>2, <2>6, DeliverAndRelease
    <2>8. \A x \in U : \A i \in 1 .. Len(d.queue[D]) : x < d.queue[D][i].sn
      BY <1>4, <1>7
    <2>9. Waiting(d, D, U)
      BY <1>2, <1>4, <2>3, <2>4, <2>8 DEF Waiting
    <2> QED
      BY <1>2, <2>7, <2>9 DEF Phase
  <1> QED
    BY <1>10, <1>11

\* What is known of an arrival besides: what is done with the packet, that a former link
\* whose packet is awaited is up, that lost = gap does not hold over it, and that the
\* packets before the head of the queue are in flight.
Steered(G, s, r, pkt, D, O, cid, p, e) ==
    /\ InOrderDelivery(r, pkt, cid) => Grasped(G, r, pkt, cid, p, e)
    /\ \/ r.on /\ InOrderDelivery(r, pkt, cid)
       \/ ~ r.on /\ Becomes(Delivered(r, pkt))
    /\ e \in O => \E link \in up : link \in Links /\ link # D
    /\ (cid = D /\ e < p /\ e \in O /\ s.queue[D] = << >>) => ~ GapIsLost(pkt, cid)
    /\ (Waiting(s, D, O) /\ p = e /\ p + 1 < s.queue[D][1].sn) => p + 1 \in O

\* Every arrival leads from a phase to a phase.
LEMMA MeetsPhase ==
    ASSUME NEW s, NEW r, NEW D \in Links, NEW cid \in Links, NEW p \in Nat, NEW e \in Nat,
           NEW O \in SUBSET Nat, NEW U \in SUBSET Nat, NEW X, NEW w, NEW v,
           Meets(s, r, D, cid, p, e, O, U, X, w, v), NEW pkt \in DataPackets, pkt.sn = p,
           NEW n, Plain(n), NEW T, NEW Q,
           Steered(Sorted(T, Q, n), s, r, pkt, D, O, cid, p, e),
           NextSn(p) = p + 1, Phase(s, w, D, O)
    PROVE  \E t \in Receivers : Becomes(t) /\ Phase(t, v, D, U)
  <1>5. /\ InOrderDelivery(r, pkt, cid) => Grasped(Sorted(T, Q, n), r, pkt, cid, p, e)
        /\ \/ r.on /\ InOrderDelivery(r, pkt, cid)
           \/ ~ r.on /\ Becomes(Delivered(r, pkt))
        /\ e \in O => \E link \in up : link \in Links /\ link # D
        /\ (cid = D /\ e < p /\ e \in O /\ s.queue[D] = << >>) => ~ GapIsLost(pkt, cid)
        /\ (Waiting(s, D, O) /\ p = e /\ p + 1 < s.queue[D][1].sn) => p + 1 \in O
    BY DEF Steered
  <1>0. s \in Receivers /\ r \in Receivers /\ D # NoCid /\ cid # NoCid
    BY LinksAreNumbers DEF Meets
  <1>1. CASE ~ r.on
    <2>1. ~ Waiting(s, D, O)
      BY <1>1 DEF Waiting, Meets
    <2>2. Fresh(s, D, O) \/ Passed(s, D, O)
      BY <2>1 DEF Phase
    <2>3. Phase(Delivered(r, pkt), v, D, U)
      BY <1>1, <2>2, MeetsDelivered
    <2>4. PICK t : t = Delivered(r, pkt) /\ IsDelivered(t, r, pkt)
      BY <1>0, DeliveredIsDelivered
    <2> QED
      BY <1>1, <1>5, <2>3, <2>4 DEF IsDelivered
  <1>2. CASE r.on /\ Fresh(s, D, O)
    <2>1. CASE p = e
      BY <1>2, <1>5, <2>1, MeetsInOrder
    <2>2. CASE p # e
      <3>1. cid = D /\ e < p /\ e \in O
        BY <1>2, <2>2 DEF Meets, Placed
      <3>2. r.newLink = D
        BY <1>2, <3>1 DEF Meets, Fresh
      <3>3. \A c \in Links : s.queue[c] = << >>
        BY <1>2 DEF Fresh, IsEmpty
      <3>4. \A x \in O : \A i \in 1 .. Len(s.queue[D]) : x < s.queue[D][i].sn
        <4>1. Len(<< >>) = 0 /\ 1 .. 0 = {}
          OBVIOUS
        <4> QED
          BY <3>3, <4>1
      <3>5. \A x \in O : e <= x
        BY <1>2 DEF Fresh, Meets
      <3>6. InOrderDelivery(r, pkt, cid) /\ Grasped(Sorted(T, Q, n), r, pkt, cid, p, e)
        BY <1>2, <1>5
      <3>7. s.queue[D] = << >> /\ ~ GapIsLost(pkt, cid)
        BY <1>5, <3>1, <3>3
      <3>8. \E link \in up : link \in Links /\ link # D
        BY <1>5, <3>1
      <3>9. \A c \in Links : c # D => s.queue[c] = << >>
        BY <3>3
      <3>10. r.on
        BY <1>2
      <3>11. /\ s.queue[D] = << >> => ~ GapIsLost(pkt, cid)
             /\ s.queue[D] # << >> => ~ s.queue[D][1].inOrder
        BY <3>7
      <3>12. \E t \in Receivers : Becomes(t) /\ Phase(t, v, D, U)
        BY <3>1, <3>2, <3>4, <3>5, <3>6, <3>8, <3>9, <3>10, <3>11, MeetsEarly
      <3> QED
        BY <3>12
    <2> QED
      BY <2>1, <2>2
  <1>3. CASE r.on /\ Passed(s, D, O)
    <2>1. CASE cid = D
      <3>1. p = e
        BY <1>3, <2>1 DEF Meets, Placed
      <3> QED
        BY <1>3, <1>5, <3>1, MeetsInOrder
    <2>2. CASE cid # D
      <3>1. p < e
        BY <1>3, <2>2 DEF Meets, Placed
      <3>2. InOrderDelivery(r, pkt, cid) /\ SnDiff(p, e) < 0
        BY <1>3, <1>5, <3>1 DEF Grasped
      <3>3. Becomes(r) /\ Phase(r, v, D, U)
        BY <1>3, <3>1, <3>2, MeetsLate
      <3> QED
        BY <1>0, <3>3
    <2> QED
      BY <2>1, <2>2
  <1>4. CASE r.on /\ Waiting(s, D, O)
    <2>0. InOrderDelivery(r, pkt, cid) /\ Grasped(Sorted(T, Q, n), r, pkt, cid, p, e)
      BY <1>4, <1>5
    <2>1. CASE cid = D
      <3>1. e < p
        BY <1>4, <2>1 DEF Meets, Placed
      <3>2. /\ e \in O /\ (\A x \in O : e <= x) /\ r.newLink = D
            /\ \A c \in Links : c # D => s.queue[c] = << >>
            /\ s.queue[D] # << >> /\ ~ s.queue[D][1].inOrder
            /\ \A x \in O : \A i \in 1 .. Len(s.queue[D]) : x < s.queue[D][i].sn
        BY <1>0, <1>4 DEF Meets, Waiting
      <3>3. \E link \in up : link \in Links /\ link # D
        BY <1>5, <3>2
      <3> QED
        BY <1>4, <2>0, <2>1, <3>1, <3>2, <3>3, MeetsEarly
    <2>2. CASE cid # D
      <3>1. p = e
        BY <1>4, <2>2 DEF Meets, Placed
      <3>2. p + 1 < s.queue[D][1].sn => p + 1 \in O
        BY <1>4, <1>5, <3>1
      <3> QED
        BY <1>4, <2>0, <2>2, <3>2, MeetsAwaited
    <2> QED
      BY <2>1, <2>2
  <1> QED
    BY <1>1, <1>2, <1>3, <1>4 DEF Phase

-----------------------------------------------------------------------------
\* While an earlier packet is in flight over a former link, and nothing is queued, lost = gap
\* does not hold for a packet of the delivery link.
LEMMA NoGapOverFormerLink ==
    ASSUME TypeOK, WireInv, NumberedInv, NoFaults, InOrder, NEW D \in Links, ReceiveData(D),
           NEW pkt \in DataPackets, pkt = Head(wire[D]), NEW e \in Nat, e = m_gmaRxExpectedSn,
           e < pkt.sn, e \in Old(Flight(wire), D), m_reorderingQueue[D] = << >>
    PROVE  ~ GapIsLost(pkt, D)
  <1> SUFFICES ASSUME GapIsLost(pkt, D) PROVE FALSE
    OBVIOUS
  <1>1. Unwrapped /\ scenario.mode # "duplicate"
    BY DEF NoFaults
  <1>2. First \in Nat /\ wire \in Wires /\ pkt.sn = First + pkt.id /\ pkt.id \in Nat
    BY <1>1, PlainNumbers, ArrivingPacket
  <1>3. PICK c \in Links : c # D /\ e \in Flight(wire)[c]
    BY DEF Old
  <1>4. PICK i \in 1 .. Len(wire[c]) : IsData(wire[c][i]) /\ e = First + wire[c][i].id
    BY <1>2, <1>3, FlightMembers
  <1>5. PICK a : a = Pos(m_gmaRxLast[D])
    OBVIOUS
  <1>6. ~ (a <= First + wire[c][i].id /\ First + wire[c][i].id < First + Head(wire[D]).id)
    BY <1>1, <1>3, <1>4, <1>5, GapMeansSent
  <1>7. e < First + Head(wire[D]).id
    BY <1>2
  <1>8. ~ (a <= e)
    BY <1>4, <1>6, <1>7
  <1>9. a <= e
    BY <1>5, PositionsAreNumbers DEF InOrder, Ordered, Positioned, Contents
  <1> QED
    BY <1>8, <1>9

\* What the queue of the delivery link holds was sent before what is in flight over it.
LEMMA QueueBeforeFlight ==
    ASSUME TypeOK, NumberedInv, NoFaults, InOrder, SteerState, NEW D \in Links,
           NEW i \in 1 .. Len(m_reorderingQueue[D]), NEW x \in Flight(wire)[D]
    PROVE  m_reorderingQueue[D][i].sn < x
  <1>1. Unwrapped /\ scenario.mode # "duplicate" /\ First \in Nat /\ sent \in Nat /\ wire \in Wires
    BY PlainNumbers DEF NoFaults, TypeOK, Wires, Packets
  <1>2. PICK P : P = Positions(m_gmaRxLast)
    OBVIOUS
  <1>3. PICK k \in Counts : NumberedOK(k)
    BY <1>1 DEF NumberedInv
  <1>4. FlightOK(wire, k, m_gmaRxLast)
    BY <1>3 DEF NumberedOK
  <1>5. Flying(Flight(wire), Arrived(wire, sent), Positions(m_gmaRxLast))
    BY <1>1, <1>4, FlightIsFlying DEF SteerState
  <1>6. P[D] <= x /\ P[D] \in Nat /\ x \in Nat
    BY <1>2, <1>5, PositionsAreNumbers DEF Flying
  <1>7. m_reorderingQueue[D][i].sn < P[D]
    BY <1>2 DEF InOrder, Ordered, Positioned, Contents
  <1>8. m_reorderingQueue[D][i].sn \in Nat
    <2>1. PICK s \in Receivers : s.queue = m_reorderingQueue
      BY ReceiverIsReceiver
    <2>2. m_reorderingQueue[D][i] \in Items
      BY <2>1, QueueTypes
    <2> QED
      BY <2>2, ReorderAssumption DEF Items, Sns
  <1>9. PICK a \in Nat, b \in Nat, y \in Nat : a = m_reorderingQueue[D][i].sn /\ b = P[D] /\ y = x
    BY <1>6, <1>8
  <1>10. a < y
    BY <1>6, <1>7, <1>9
  <1> QED
    BY <1>9, <1>10

\* While the receiver waits, the packet after the expected one is in flight over a former
\* link too, unless it is the head of the queue.
LEMMA NextIsInFlight ==
    ASSUME TypeOK, WireInv, NumberedInv, NoFaults, InOrder, SteerState, NEW D \in Links,
           NEW cid \in Links, ReceiveData(cid), NEW pkt \in DataPackets, pkt = Head(wire[cid]),
           NEW p \in Nat, p = pkt.sn, p = m_gmaRxExpectedSn,
           m_reorderingQueue[D] # << >>, \A c \in Links : c # D => m_reorderingQueue[c] = << >>,
           p + 1 < m_reorderingQueue[D][1].sn
    PROVE  p + 1 \in Old(Flight(wire), D)
  <1>1. Unwrapped /\ scenario.mode # "duplicate"
    BY DEF NoFaults
  <1>2. /\ First \in Nat /\ sent \in Nat /\ pkt.sn = First + pkt.id /\ pkt.id \in Nat
    BY <1>1, PlainNumbers, ArrivingPacket
  <1>3. /\ Len(m_reorderingQueue[D]) \in Nat /\ 1 \in 1 .. Len(m_reorderingQueue[D])
        /\ \A i \in 1 .. Len(m_reorderingQueue[D]) :
              m_reorderingQueue[D][i].sn \in Nat /\ m_reorderingQueue[D][i].id \in Nat
    <2>1. PICK s \in Receivers : s.queue = m_reorderingQueue
      BY ReceiverIsReceiver
    <2>2. /\ Len(m_reorderingQueue[D]) \in Nat /\ Len(m_reorderingQueue[D]) > 0
          /\ \A i \in 1 .. Len(m_reorderingQueue[D]) : m_reorderingQueue[D][i] \in Items
      BY <2>1, QueueTypes
    <2> QED
      BY <2>2, ReorderAssumption DEF Items, Sns
  <1>4. Ascending(m_reorderingQueue, m_gmaRxExpectedSn, sent)
    BY DEF InOrder, Ordered, Contents
  <1>5. \A i \in 1 .. Len(m_reorderingQueue[D]) :
           /\ m_reorderingQueue[D][i].sn = First + m_reorderingQueue[D][i].id
           /\ m_reorderingQueue[D][i].id < sent
           /\ 1 < i => m_reorderingQueue[D][1].sn < m_reorderingQueue[D][i].sn
    BY <1>3, <1>4 DEF Ascending
  <1>6. PICK f \in Nat, n \in Nat, a \in Nat, h \in Nat, g \in Nat :
           /\ f = First /\ n = sent /\ a = pkt.id /\ h = m_reorderingQueue[D][1].sn
           /\ g = m_reorderingQueue[D][1].id
    BY <1>2, <1>3
  <1>7. p = f + a /\ h = f + g /\ g < n /\ p + 1 < h
    BY <1>2, <1>3, <1>5, <1>6
  <1>8. a + 1 \in 0 .. n - 1 /\ p <= f + (a + 1) /\ f + (a + 1) = p + 1
    BY <1>7
  <1>9. PICK id \in 0 .. sent - 1 : id = a + 1 /\ m_gmaRxExpectedSn <= First + id /\ First + id = p + 1
    BY <1>6, <1>8
  <1>10. \/ \E c \in Links : p + 1 \in Flight(wire)[c]
         \/ \E c \in Links : \E i \in 1 .. Len(m_reorderingQueue[c]) : m_reorderingQueue[c][i].id = id
    BY <1>9 DEF SteerState, Complete
  <1>11. p + 1 \notin Flight(wire)[D]
    <2> SUFFICES ASSUME p + 1 \in Flight(wire)[D] PROVE FALSE
      OBVIOUS
    <2>1. PICK y \in Flight(wire)[D] : y = p + 1
      OBVIOUS
    <2>2. m_reorderingQueue[D][1].sn < y
      BY <1>3, QueueBeforeFlight
    <2>3. h < p + 1
      BY <1>6, <2>1, <2>2
    <2>4. p + 1 < h
      BY <1>7
    <2> QED
      BY <2>3, <2>4
  <1>12. ASSUME NEW c \in Links, NEW i \in 1 .. Len(m_reorderingQueue[c]),
                m_reorderingQueue[c][i].id = id
         PROVE  FALSE
    <2>1. c = D
      <3>1. Len(<< >>) = 0 /\ 1 .. 0 = {}
        OBVIOUS
      <3> QED
        BY <1>12, <3>1
    <2>2. m_reorderingQueue[D][i].sn = p + 1
      BY <1>5, <1>9, <1>12, <2>1
    <2>3. i = 1 \/ 1 < i
      BY <1>3, <1>12, <2>1
    <2>4. m_reorderingQueue[D][1].sn <= m_reorderingQueue[D][i].sn
      BY <1>3, <1>5, <1>12, <2>1, <2>3
    <2>5. h <= p + 1
      BY <1>6, <2>2, <2>4
    <2>6. p + 1 < h
      BY <1>7
    <2> QED
      BY <2>5, <2>6
  <1>13. PICK c \in Links : p + 1 \in Flight(wire)[c]
    BY <1>10, <1>12
  <1> QED
    BY <1>11, <1>13 DEF Old

\* What is in flight keeps its form when the first packet of a link arrives.
LEMMA SteerWireTail ==
    ASSUME NEW w \in Wires, NEW v \in Wires, NEW D \in Links, NEW cid \in Links,
           SteerWire(w, D), Shifts(v, w, cid), \A c \in Links : c # cid => v[c] = w[c]
    PROVE  /\ SteerWire(v, D)
           /\ \A c \in Links : Flight(v)[c] \subseteq Flight(w)[c]
           /\ Old(Flight(v), D) \subseteq Old(Flight(w), D)
  <1>1. \A c \in Links : Flight(v)[c] \subseteq Flight(w)[c]
    BY TailWithin, FlightShrinks
  <1>2. Old(Flight(v), D) \subseteq Old(Flight(w), D)
    BY <1>1 DEF Old
  <1>3. Len(v[cid]) \in Nat /\ Len(w[cid]) \in Nat /\ w[cid] # << >>
    BY WireTypes DEF Shifts
  <1>4. \A c \in Links : v[c] # << >> => w[c] # << >>
    BY <1>3
  <1>5. ASSUME NEW c \in Links, NEW d \in Links, c # D, d # D, v[c] # << >>, v[d] # << >>
        PROVE  c = d
    BY <1>4, <1>5 DEF SteerWire
  <1>6. ASSUME NEW i \in 1 .. Len(v[cid])
        PROVE  /\ i + 1 \in 1 .. Len(w[cid]) /\ v[cid][i] = w[cid][i + 1]
               /\ i = Len(v[cid]) <=> i + 1 = Len(w[cid])
    <2>1. i + 1 \in 2 .. Len(w[cid]) /\ v[cid][i] = w[cid][i + 1]
      BY ShiftsCases
    <2>2. Len(v[cid]) = Len(w[cid]) - 1
      BY DEF Shifts
    <2> QED
      BY <1>3, <2>1, <2>2
  <1>7. ASSUME NEW i \in 1 .. Len(v[D]) PROVE IsData(v[D][i])
    <2>1. CASE cid = D
      BY <1>6, <2>1 DEF SteerWire
    <2>2. CASE cid # D
      BY <2>2 DEF SteerWire
    <2> QED
      BY <2>1, <2>2
  <1>8. ASSUME NEW c \in Links \ {D}, NEW i \in 1 .. Len(v[c])
        PROVE  IsData(v[c][i]) <=> i # Len(v[c])
    <2>1. CASE cid = c
      <3>1. IsData(w[c][i + 1]) <=> i + 1 # Len(w[c])
        BY <1>6, <2>1 DEF SteerWire
      <3> QED
        BY <1>6, <2>1, <3>1
    <2>2. CASE cid # c
      BY <2>2 DEF SteerWire
    <2> QED
      BY <2>1, <2>2
  <1>9. ASSUME NEW x \in Flight(v)[D], NEW y \in Old(Flight(v), D) PROVE y < x
    <2>1. x \in Flight(w)[D] /\ y \in Old(Flight(w), D)
      BY <1>1, <1>2
    <2> QED
      BY <2>1 DEF SteerWire
  <1> QED
    BY <1>1, <1>2, <1>5, <1>7, <1>8, <1>9 DEF SteerWire

\* The parts of SteerState make it up after a step.
LEMMA SteerPrime ==
    ASSUME scenario' = scenario, up' = scenario.links, NEW D, deliveryLink' = D,
           NEW v, v = wire', NEW n, n = sent',
           \A c \in Links : Flight(v)[c] # {} => c \in scenario.links,
           SteerWire(v, D), \A x \in Flight(v)[D] : m_gmaRxExpectedSn' <= x,
           Complete(m_reorderingQueue', m_gmaRxExpectedSn', Flight(v), n),
           NEW t, Becomes(t), Phase(t, v, D, Old(Flight(v), D))
    PROVE  SteerState'
  <1>1. First' = First
    BY DEF First
  <1>2. Flight(wire)' = Flight(v)
    BY <1>1 DEF Flight, IsData
  <1>3. Old(Flight(wire), deliveryLink)' = Old(Flight(v), D)
    BY <1>2 DEF Old
  <1>4. SteerWire(wire, deliveryLink)'
    BY <1>2, <1>3 DEF SteerWire, IsData
  <1>5. Complete(m_reorderingQueue, m_gmaRxExpectedSn, Flight(wire), sent)'
    BY <1>1, <1>2 DEF Complete
  <1>6. PICK z : z = [queue |-> m_reorderingQueue', expected |-> m_gmaRxExpectedSn',
                      out |-> forwarded', on |-> m_enableReordering', newLink |-> m_newLinkCid',
                      stop |-> m_stopReorderEvent', expired |-> 0]
    OBVIOUS
  <1>7. z.queue = t.queue /\ z.expected = t.expected /\ z.on = t.on /\ z.newLink = t.newLink
    BY <1>6 DEF Becomes
  <1>8. Phase(z, v, D, Old(Flight(v), D))
    BY <1>7, PhaseSame
  <1>9. Receiver(0)' = z
    BY <1>6 DEF Receiver
  <1>10. Phase(Receiver(0), wire, deliveryLink, Old(Flight(wire), deliveryLink))'
    BY <1>3, <1>8, <1>9 DEF Phase, Fresh, Passed, Waiting, IsEmpty
  <1> QED
    BY <1>2, <1>4, <1>5, <1>10 DEF SteerState

\* What InOrderDelivery does with the packet is within the order of the receiver.
LEMMA SteerGrasp ==
    ASSUME TypeOK, WireInv, OnceInv, NumberedInv, NoFaults, InOrder,
           NEW cid \in Links, ReceiveData(cid), NEW pkt \in DataPackets, pkt = Head(wire[cid]),
           NEW r \in Receivers, r.queue = m_reorderingQueue, r.out = forwarded,
           r.expected = m_gmaRxExpectedSn, InOrderDelivery(r, pkt, cid),
           NEW T, T = Arrived(wire', sent'), NEW Q, Q = Positions(m_gmaRxLast'),
           NEW p \in Nat, p = pkt.sn, NEW e \in Nat, e = r.expected
    PROVE  Plain(sent) /\ Grasped(Sorted(T, Q, sent), r, pkt, cid, p, e)
  <1>1. /\ Unwrapped /\ scenario.mode # "duplicate" /\ sent \in Nat /\ sent <= sent
        /\ pkt.id < sent
    <2>1. Unwrapped /\ scenario.mode # "duplicate"
      BY DEF NoFaults
    <2> QED
      BY <2>1, PlainNumbers, ArrivingPacket
  <1>2. PICK S, P : S = Arrived(wire, sent) /\ P = Positions(m_gmaRxLast)
    OBVIOUS
  <1>3. r \in Sorted(S, P, sent)
    BY <1>1, <1>2, SortedReceiver
  <1>4. m_gmaRxLast' = [m_gmaRxLast EXCEPT ![cid] = [sn |-> pkt.sn, lsn |-> pkt.lsn]]
    BY DEF InOrderDelivery
  <1>5. /\ Plain(sent)
        /\ Accepts(Sorted(T, Q, sent), r, pkt, cid, GapIsLost(pkt, cid))
        /\ (pkt.sn # r.expected /\ SnDiff(pkt.sn, r.expected) < 0) => pkt.sn < r.expected
        /\ (pkt.sn # r.expected /\ ~ (SnDiff(pkt.sn, r.expected) < 0)) => r.expected < pkt.sn
    BY <1>1, <1>2, <1>3, <1>4, OrderedArrival
  <1>6. PICK lost \in BOOLEAN : lost = GapIsLost(pkt, cid)
    BY DEF GapIsLost
  <1>7. PICK G, less : G = Sorted(T, Q, sent) /\ (less <=> SnDiff(p, e) < 0)
    OBVIOUS
  <1>8. /\ (p # e /\ less) => p < e
        /\ (p # e /\ ~ less) => e < p
    BY <1>5, <1>7
  <1>9. (p < e => less) /\ (e < p => ~ less) /\ (e < p => p # e)
    BY <1>7, <1>8
  <1>10. Accepts(G, r, pkt, cid, lost)
    BY <1>5, <1>6, <1>7
  <1>11. /\ p = e => Delivered(r, pkt) \in G
         /\ (p # e /\ ~ less /\ ~ (lost /\ r.queue[cid] = << >>)) =>
               Queued(r, pkt, cid, lost) \in G
    BY <1>7, <1>10 DEF Accepts
  <1>12. (e < p /\ ~ (lost /\ r.queue[cid] = << >>)) => Queued(r, pkt, cid, lost) \in G
    BY <1>9, <1>11
  <1> QED
    BY <1>5, <1>6, <1>7, <1>9, <1>11, <1>12 DEF Grasped

\* After an arrival the receiver is in a phase again.
LEMMA SteerArrives ==
    ASSUME TypeOK, WireInv, OnceInv, TimerInv, NumberedInv, NoFaults, InOrder, SteerState,
           NEW cid \in Links, ReceiveData(cid), NEW D, D = deliveryLink, NEW v, v = wire'
    PROVE  \E t \in Receivers : Becomes(t) /\ Phase(t, v, D, Old(Flight(v), D))
  <1>0. Unwrapped /\ scenario.mode = "steer" /\ scenario.mode # "duplicate"
    BY DEF NoFaults
  <1>1. PICK pkt \in DataPackets : pkt = Head(wire[cid])
    BY ReceiveDataCases
  <1>2. PICK x \in Expirations : \E r \in Receivers :
           /\ r = OnArrival(Receiver(x), cid)
           /\ \/ r.on /\ InOrderDelivery(r, pkt, cid)
              \/ ~ r.on /\ Becomes(Delivered(r, pkt)) /\ UNCHANGED m_gmaRxLast
    BY <1>1, ReceiveDataCases
  <1>3. x = 0
    BY DEF Expirations, May, NoFaults
  <1>4. PICK s \in Receivers : s = Receiver(0)
    BY ReceiverIsReceiver
  <1>5. /\ s.queue = m_reorderingQueue /\ s.out = forwarded /\ s.newLink = m_newLinkCid
        /\ s.expected = m_gmaRxExpectedSn /\ s.on = m_enableReordering /\ s.expired = 0
    BY <1>4, ReceiverIsReceiver
  <1>6. PICK r \in Receivers :
           /\ r = OnArrival(s, cid)
           /\ \/ r.on /\ InOrderDelivery(r, pkt, cid)
              \/ ~ r.on /\ Becomes(Delivered(r, pkt)) /\ UNCHANGED m_gmaRxLast
    BY <1>2, <1>3, <1>4
  <1>7. /\ r.queue = s.queue /\ r.out = s.out /\ r.expected = s.expected /\ r.expired = 0
        /\ r.newLink = IF s.newLink = NoCid \/ ~ s.on THEN cid ELSE s.newLink
        /\ r.on = (s.on \/ s.newLink \notin {NoCid, cid})
    BY <1>0, <1>5, <1>6, OnArrivalFacts DEF SameContents
  <1>8. PICK O, U, X : O = Old(Flight(wire), D) /\ U = Old(Flight(v), D) /\ X = Flight(wire)[D]
    OBVIOUS
  <1>9. /\ D \in Links /\ pkt.sn \in Nat /\ m_gmaRxExpectedSn \in Nat
        /\ U \in SUBSET Nat /\ O \in SUBSET Nat
        /\ OldLands(O, U, Flight(wire)[D], D, cid, pkt.sn)
        /\ Placed(Receiver(0), D, O, cid, pkt.sn, m_gmaRxExpectedSn)
        /\ \A y \in Flight(wire)[D] : y \in Nat /\ \A z \in O : z < y
        /\ cid # D => /\ wire'[cid] # << >>
                      /\ \A c \in Links : (c # D /\ wire[c] # << >>) => c = cid
    BY <1>0, <1>1, <1>8, SteerArrival
  <1>10. PICK p \in Nat, e \in Nat : p = pkt.sn /\ e = m_gmaRxExpectedSn
    BY <1>9
  <1>11. PICK w : w = wire
    OBVIOUS
  <1>12. Phase(s, w, D, O)
    BY <1>4, <1>8, <1>11 DEF SteerState
  <1>13. /\ \A c \in Links : c # cid => v[c] = w[c]
         /\ NextSn(p) = p + 1
    <2>1. \A c \in Links : c # cid => v[c] = w[c]
      BY <1>0, <1>11, ArrivingPacket
    <2>2. pkt.sn = First + pkt.id /\ First + pkt.id < MAX_GMA_SN /\ MAX_GMA_SN \in Nat
      BY <1>0, <1>1, ArrivingPacket, PlainNumbers
    <2>3. p \in Sns /\ p # MAX_GMA_SN
      BY <1>10, <2>2 DEF Sns
    <2> QED
      BY <2>1, <2>3, NextSnIsSn
  <1>14. Meets(s, r, D, cid, p, e, O, U, X, w, v)
    <2>1. Placed(s, D, O, cid, p, e)
      BY <1>4, <1>9, <1>10
    <2>2. OldLands(O, U, X, D, cid, p) /\ \A x1 \in X : \A y \in O : y < x1
      BY <1>8, <1>9, <1>10
    <2>3. cid # D => v[cid] # << >> /\ \A c \in Links : (c # D /\ w[c] # << >>) => c = cid
      BY <1>9, <1>11
    <2>4. s.newLink \notin {NoCid, D} => w[s.newLink] # << >>
      BY <1>12 DEF Phase
    <2>5. s \in Receivers /\ r \in Receivers
      BY <1>4, <1>6
    <2> QED
      BY <1>5, <1>7, <1>10, <1>13, <2>1, <2>2, <2>3, <2>4, <2>5 DEF Meets
  <1>15. PICK T, Q : T = Arrived(wire', sent') /\ Q = Positions(m_gmaRxLast')
    OBVIOUS
  <1>16. PICK n : n = sent
    OBVIOUS
  <1>17. Plain(n) /\ (InOrderDelivery(r, pkt, cid) => Grasped(Sorted(T, Q, n), r, pkt, cid, p, e))
    <2>1. Plain(n)
      <3>1. sent \in Nat /\ sent <= sent
        BY <1>0, PlainNumbers
      <3> QED
        BY <1>0, <1>16, <3>1, PlainUpTo
    <2>2. ASSUME InOrderDelivery(r, pkt, cid) PROVE Grasped(Sorted(T, Q, n), r, pkt, cid, p, e)
      <3>1. r.queue = m_reorderingQueue /\ r.out = forwarded /\ r.expected = m_gmaRxExpectedSn
        BY <1>5, <1>7
      <3>2. e = r.expected /\ p = pkt.sn
        BY <1>10, <3>1
      <3>3. Grasped(Sorted(T, Q, sent), r, pkt, cid, p, e)
        BY <1>1, <1>6, <1>10, <1>15, <2>2, <3>1, <3>2, SteerGrasp
      <3> QED
        BY <1>16, <3>3
    <2> QED
      BY <2>1, <2>2
  <1>18. e \in O => \E link \in up : link \in Links /\ link # D
    BY <1>8 DEF Old, SteerState
  <1>19. (cid = D /\ e < p /\ e \in O /\ s.queue[D] = << >>) => ~ GapIsLost(pkt, cid)
    <2> SUFFICES ASSUME cid = D, e < p, e \in O, s.queue[D] = << >> PROVE ~ GapIsLost(pkt, cid)
      OBVIOUS
    <2>1. e < pkt.sn /\ e \in Old(Flight(wire), D) /\ m_reorderingQueue[D] = << >> /\ e = m_gmaRxExpectedSn
      BY <1>5, <1>8, <1>10
    <2>2. ReceiveData(D) /\ pkt = Head(wire[D]) /\ D \in Links
      BY <1>1
    <2>3. ~ GapIsLost(pkt, D)
      BY <1>1, <1>10, <2>1, <2>2, NoGapOverFormerLink
    <2> QED
      BY <2>3
  <1>20. (Waiting(s, D, O) /\ p = e /\ p + 1 < s.queue[D][1].sn) => p + 1 \in O
    <2> SUFFICES ASSUME Waiting(s, D, O), p = e, p + 1 < s.queue[D][1].sn PROVE p + 1 \in O
      OBVIOUS
    <2>1. /\ m_reorderingQueue[D] # << >> /\ p + 1 < m_reorderingQueue[D][1].sn
          /\ \A c \in Links : c # D => m_reorderingQueue[c] = << >>
      BY <1>5 DEF Waiting
    <2>2. p = pkt.sn /\ p = m_gmaRxExpectedSn
      BY <1>10
    <2>3. p + 1 \in Old(Flight(wire), D)
      BY <1>1, <1>9, <1>10, <2>1, <2>2, NextIsInFlight
    <2> QED
      BY <1>8, <2>3
  <1>21. \/ r.on /\ InOrderDelivery(r, pkt, cid)
         \/ ~ r.on /\ Becomes(Delivered(r, pkt))
    BY <1>6
  <1>22. pkt.sn = p /\ D \in Links /\ O \in SUBSET Nat /\ U \in SUBSET Nat
    BY <1>9, <1>10
  <1>24. Steered(Sorted(T, Q, n), s, r, pkt, D, O, cid, p, e)
    BY <1>17, <1>18, <1>19, <1>20, <1>21 DEF Steered
  <1>23. \E t \in Receivers : Becomes(t) /\ Phase(t, v, D, U)
    BY <1>1, <1>10, <1>12, <1>13, <1>14, <1>17, <1>22, <1>24, MeetsPhase
  <1> QED
    BY <1>8, <1>23

\* ReceiveData keeps the invariant of steer mode.
LEMMA SteerReceive ==
    ASSUME TypeOK, WireInv, OnceInv, TimerInv, NumberedInv, NoFaults, InOrder, SteerState,
           scenario' = scenario, NEW cid \in Links, ReceiveData(cid)
    PROVE  InOrder' /\ SteerState'
  <1>1. PICK D, v : D = deliveryLink /\ v = wire'
    OBVIOUS
  <1>2. /\ InOrder'
        /\ Complete(m_reorderingQueue', m_gmaRxExpectedSn', Flight(v), sent)
        /\ \A x \in Flight(v)[D] : m_gmaRxExpectedSn' <= x
    BY <1>1, SteerContents
  <1>3. PICK t \in Receivers : Becomes(t) /\ Phase(t, v, D, Old(Flight(v), D))
    BY <1>1, SteerArrives
  <1>4. UNCHANGED <<up, sent, deliveryLink>>
    BY ReceiveDataCases
  <1>5. /\ wire \in Wires /\ v \in Wires /\ Shifts(v, wire, cid)
        /\ \A c \in Links : c # cid => v[c] = wire[c]
    <2>1. Unwrapped
      BY DEF NoFaults
    <2> QED
      BY <1>1, <2>1, ArrivingPacket
  <1>6. D \in Links /\ SteerWire(wire, D)
    <2>1. scenario.links \subseteq Links /\ deliveryLink \in scenario.links
      BY DefaultCidIsLink DEF TypeOK
    <2> QED
      BY <1>1, <2>1 DEF SteerState
  <1>7. SteerWire(v, D) /\ \A c \in Links : Flight(v)[c] \subseteq Flight(wire)[c]
    BY <1>5, <1>6, SteerWireTail
  <1>8. \A c \in Links : Flight(v)[c] # {} => c \in scenario.links
    BY <1>7 DEF SteerState
  <1>9. up' = scenario.links /\ deliveryLink' = D /\ sent = sent'
    BY <1>1, <1>4 DEF SteerState
  <1>10. SteerState'
    BY <1>1, <1>2, <1>3, <1>7, <1>8, <1>9, SteerPrime
  <1> QED
    BY <1>2, <1>10

-----------------------------------------------------------------------------
\* What a packet or an end marker adds to the numbers in flight.
LEMMA FlightGrows ==
    ASSUME First \in Nat, NEW w \in Wires, NEW v \in Wires, NEW d \in Links, NEW p,
           Grows(v, w, d, p), \A c \in Links : c # d => v[c] = w[c],
           IsData(p) => First + p.id \in Nat
    PROVE  /\ \A c \in Links : Flight(w)[c] \subseteq Flight(v)[c]
           /\ \A c \in Links : c # d => Flight(v)[c] = Flight(w)[c]
           /\ \A x \in Flight(v)[d] : x \in Flight(w)[d] \/ (IsData(p) /\ x = First + p.id)
           /\ IsData(p) => First + p.id \in Flight(v)[d]
  <1>1. \A c \in Links : c # d => Flight(v)[c] = Flight(w)[c]
    BY DEF Flight
  <1>2. Len(w[d]) \in Nat /\ Len(v[d]) = Len(w[d]) + 1
    BY WireTypes DEF Grows
  <1>3. ASSUME NEW x \in Flight(w)[d] PROVE x \in Flight(v)[d]
    <2>1. PICK i \in 1 .. Len(w[d]) : IsData(w[d][i]) /\ x = First + w[d][i].id
      BY FlightMembers
    <2>2. i \in 1 .. Len(v[d]) /\ v[d][i] = w[d][i]
      BY <1>2 DEF Grows
    <2> QED
      BY <2>1, <2>2, FlightMembers
  <1>4. ASSUME NEW x \in Flight(v)[d] PROVE x \in Flight(w)[d] \/ (IsData(p) /\ x = First + p.id)
    <2>1. PICK i \in 1 .. Len(v[d]) : IsData(v[d][i]) /\ x = First + v[d][i].id
      BY FlightMembers
    <2>2. \/ i \in 1 .. Len(w[d]) /\ v[d][i] = w[d][i]
          \/ i = Len(w[d]) + 1 /\ v[d][i] = p
      BY GrowsCases
    <2>3. CASE i \in 1 .. Len(w[d]) /\ v[d][i] = w[d][i]
      BY <2>1, <2>3, FlightMembers
    <2>4. CASE v[d][i] = p
      BY <2>1, <2>4
    <2> QED
      BY <2>2, <2>3, <2>4
  <1>5. ASSUME IsData(p) PROVE First + p.id \in Flight(v)[d]
    <2>1. Len(v[d]) \in 1 .. Len(v[d]) /\ v[d][Len(v[d])] = p
      BY <1>2 DEF Grows
    <2> QED
      BY <1>5, <2>1, FlightMembers
  <1>6. ASSUME NEW c \in Links PROVE Flight(w)[c] \subseteq Flight(v)[c]
    BY <1>1, <1>3
  <1> QED
    BY <1>1, <1>4, <1>5, <1>6

\* What every step of steer mode knows.
LEMMA SteerBasics ==
    ASSUME TypeOK, NoFaults, SteerState, NEW D, D = deliveryLink
    PROVE  /\ Unwrapped /\ scenario.mode = "steer" /\ scenario.mode # "duplicate"
           /\ First \in Nat /\ sent \in Nat /\ wire \in Wires /\ m_gmaRxExpectedSn \in Nat
           /\ D \in Links /\ D \in scenario.links /\ scenario.links \subseteq Links
           /\ NoCid \notin Links /\ up = scenario.links
           /\ SteerWire(wire, D) /\ Phase(Receiver(0), wire, D, Old(Flight(wire), D))
           /\ Receiver(0) \in Receivers /\ Receiver(0).newLink \in Cids
           /\ \A c \in Links : Flight(wire)[c] # {} => c \in scenario.links
  <1>1. Unwrapped /\ scenario.mode = "steer" /\ scenario.mode # "duplicate"
    BY DEF NoFaults
  <1>2. First \in Nat /\ sent \in Nat /\ wire \in Wires /\ m_gmaRxExpectedSn \in Nat
    BY <1>1, PlainNumbers, ReorderAssumption DEF TypeOK, Sns, Wires, Packets
  <1>3. D \in Links /\ D \in scenario.links /\ scenario.links \subseteq Links
    BY DefaultCidIsLink DEF TypeOK
  <1>4. Receiver(0) \in Receivers
    BY ReceiverIsReceiver
  <1> QED
    BY <1>1, <1>2, <1>3, <1>4, LinksAreNumbers DEF SteerState, Receivers

\* An end marker ends the phase of its link: nothing is queued when it arrives.
LEMMA SteerEnd ==
    ASSUME TypeOK, NoFaults, InOrder, SteerState, scenario' = scenario,
           NEW cid \in Links, ReceiveEndMarker(cid)
    PROVE  InOrder' /\ SteerState'
  <1>0. PICK D : D = deliveryLink
    OBVIOUS
  <1>1. /\ Unwrapped /\ scenario.mode = "steer" /\ scenario.mode # "duplicate"
        /\ First \in Nat /\ sent \in Nat /\ wire \in Wires /\ m_gmaRxExpectedSn \in Nat
        /\ D \in Links /\ D \in scenario.links /\ scenario.links \subseteq Links
        /\ NoCid \notin Links /\ up = scenario.links
        /\ SteerWire(wire, D) /\ Phase(Receiver(0), wire, D, Old(Flight(wire), D))
        /\ Receiver(0) \in Receivers /\ Receiver(0).newLink \in Cids
        /\ \A c \in Links : Flight(wire)[c] # {} => c \in scenario.links
    BY <1>0, SteerBasics
  <1>2. /\ wire[cid] # << >> /\ Head(wire[cid]).type = "end"
        /\ wire' = [wire EXCEPT ![cid] = Tail(@)]
        /\ UNCHANGED <<m_gmaRxLast, up, sent, deliveryLink>>
    BY DEF ReceiveEndMarker
  <1>3. PICK v \in Wires : v = wire' /\ Shifts(v, wire, cid) /\ \A c \in Links : c # cid => v[c] = wire[c]
    BY <1>2, WireTail
  <1>4. /\ SteerWire(v, D)
        /\ \A c \in Links : Flight(v)[c] \subseteq Flight(wire)[c]
    BY <1>1, <1>3, SteerWireTail
  <1>5. 1 \in 1 .. Len(wire[cid]) /\ ~ IsData(wire[cid][1]) /\ Len(wire[cid]) \in Nat
    BY <1>1, <1>2, WireTypes DEF IsData
  <1>6. cid # D /\ Len(wire[cid]) = 1
    BY <1>1, <1>5 DEF SteerWire
  <1>7. Flight(wire)[cid] = {}
    <2> SUFFICES ASSUME NEW x \in Flight(wire)[cid] PROVE FALSE
      OBVIOUS
    <2>1. PICK i \in 1 .. Len(wire[cid]) : IsData(wire[cid][i])
      BY <1>1, FlightMembers
    <2>2. i = 1
      BY <1>6
    <2> QED
      BY <1>5, <2>1, <2>2
  <1>8. \A c \in Links : (c # D /\ wire[c] # << >>) => c = cid
    BY <1>1, <1>2, <1>6 DEF SteerWire
  <1>9. Old(Flight(wire), D) = {}
    <2> SUFFICES ASSUME NEW c \in Links \ {D}, NEW x \in Flight(wire)[c] PROVE FALSE
      BY DEF Old
    <2>1. wire[c] # << >>
      BY <1>1, QuietWire
    <2>2. c = cid
      BY <1>8, <2>1
    <2> QED
      BY <1>7, <2>2
  <1>10. Old(Flight(v), D) = {}
    BY <1>4, <1>9 DEF Old
  <1>11. \A c \in Links : Flight(v)[c] = Flight(wire)[c]
    <2>1. \A c \in Links : c # cid => Flight(v)[c] = Flight(wire)[c]
      BY <1>3 DEF Flight
    <2> QED
      BY <1>4, <1>7, <2>1
  <1>12. PICK s \in Receivers : s = Receiver(0)
    BY <1>1
  <1>13. /\ s.queue = m_reorderingQueue /\ s.expected = m_gmaRxExpectedSn /\ s.out = forwarded
         /\ s.newLink = m_newLinkCid /\ s.on = m_enableReordering
    BY <1>12, ReceiverIsReceiver
  <1>14. Phase(s, wire, D, {})
    BY <1>1, <1>9, <1>12
  <1>15. s.newLink \in {NoCid, D, cid}
    <2>1. CASE s.newLink \notin {NoCid, D}
      <3>1. s.newLink \in Links /\ wire[s.newLink] # << >>
        BY <1>14, <2>1 DEF Phase, Receivers, Cids
      <3> QED
        BY <1>8, <2>1, <3>1
    <2> QED
      BY <2>1
  <1>16. IsEmpty(s) /\ (s.newLink = D => ~ s.on)
    BY <1>1, <1>14 DEF Phase, Fresh, Passed, Waiting
  <1>17. PICK t \in Receivers :
            /\ Becomes(t)
            /\ \/ m_newLinkCid = NoCid /\ t = Receiver(0)
               \/ m_newLinkCid = cid /\ t = [Receiver(0) EXCEPT !.newLink = NoCid]
               \/ m_newLinkCid \notin {NoCid, cid} /\ t = StopReordering(Receiver(0))
    BY EndMarkerCases
  <1>18. /\ t.queue = s.queue /\ t.expected = s.expected /\ t.out = s.out
         /\ \/ t.newLink = NoCid
            \/ t.newLink = D /\ s.newLink = D /\ t.on = s.on
    <2>1. CASE m_newLinkCid = NoCid /\ t = s
      BY <1>13, <2>1
    <2>2. CASE m_newLinkCid = cid /\ t = [s EXCEPT !.newLink = NoCid]
      BY <2>2 DEF Receivers
    <2>3. CASE m_newLinkCid \notin {NoCid, cid} /\ t = StopReordering(s)
      <3>1. s.newLink = D /\ ~ s.on
        BY <1>13, <1>15, <1>16, <2>3
      <3>2. StopReordering(s) = s
        BY <1>16, <3>1, StopsEmpty DEF Stopped
      <3> QED
        BY <2>3, <3>1, <3>2
    <2> QED
      BY <1>12, <1>17, <2>1, <2>2, <2>3
  <1>19. Phase(t, v, D, Old(Flight(v), D))
    <2>1. CASE t.newLink = NoCid
      <3>1. Fresh(t, D, {})
        BY <1>16, <1>18, <2>1 DEF Fresh, IsEmpty
      <3> QED
        BY <1>10, <2>1, <3>1 DEF Phase
    <2>2. CASE t.newLink = D /\ s.newLink = D /\ t.on = s.on
      <3>1. Passed(t, D, {})
        BY <1>16, <1>18, <2>2 DEF Passed, IsEmpty
      <3> QED
        BY <1>10, <2>2, <3>1 DEF Phase
    <2> QED
      BY <1>18, <2>1, <2>2
  <1>20. UNCHANGED <<m_reorderingQueue, m_gmaRxExpectedSn, forwarded>>
    BY <1>13, <1>17, <1>18 DEF Becomes
  <1>21. InOrder'
    BY <1>2, <1>20, InOrderSame
  <1>22. Complete(m_reorderingQueue', m_gmaRxExpectedSn', Flight(v), sent)
    BY <1>11, <1>20 DEF SteerState, Complete
  <1>23. \A x \in Flight(v)[D] : m_gmaRxExpectedSn' <= x
    BY <1>0, <1>1, <1>11, <1>20 DEF SteerState
  <1>24. \A c \in Links : Flight(v)[c] # {} => c \in scenario.links
    BY <1>1, <1>11
  <1>25. up' = scenario.links /\ deliveryLink' = D /\ sent = sent'
    BY <1>0, <1>1, <1>2
  <1>26. SteerState'
    BY <1>3, <1>4, <1>17, <1>19, <1>22, <1>23, <1>24, <1>25, SteerPrime
  <1> QED
    BY <1>21, <1>26

\* What the receiver has not changed.
LEMMA ReceiverBecomesItself ==
    ASSUME TypeOK, UNCHANGED rxVars
    PROVE  /\ Becomes(Receiver(0))
           /\ UNCHANGED <<m_reorderingQueue, m_gmaRxExpectedSn, forwarded, m_gmaRxLast, up>>
  BY ReceiverIsReceiver DEF rxVars, Becomes

\* A packet is sent over the delivery link.
LEMMA SteerTransmit ==
    ASSUME TypeOK, WireInv, NoFaults, InOrder, SteerState, scenario' = scenario,
           NEW cids \in SUBSET Links, Transmit(cids)
    PROVE  InOrder' /\ SteerState'
  <1>0. PICK D : D = deliveryLink
    OBVIOUS
  <1>1. /\ Unwrapped /\ scenario.mode = "steer" /\ scenario.mode # "duplicate"
        /\ First \in Nat /\ sent \in Nat /\ wire \in Wires /\ m_gmaRxExpectedSn \in Nat
        /\ D \in Links /\ D \in scenario.links /\ scenario.links \subseteq Links
        /\ NoCid \notin Links /\ up = scenario.links
        /\ SteerWire(wire, D) /\ Phase(Receiver(0), wire, D, Old(Flight(wire), D))
        /\ Receiver(0) \in Receivers /\ Receiver(0).newLink \in Cids
        /\ \A c \in Links : Flight(wire)[c] # {} => c \in scenario.links
    BY <1>0, SteerBasics
  <1>2. cids = {D}
    BY <1>0, <1>1 DEF Transmit
  <1>3. PICK p : p = [type |-> "data", sn |-> SnOf(sent), lsn |-> m_gmaTxLocalSn[D], id |-> sent]
    OBVIOUS
  <1>4. PICK v \in Wires : /\ v = wire' /\ Grows(v, wire, D, p)
                           /\ \A c \in Links : c # D => v[c] = wire[c]
    BY <1>1, <1>2, <1>3, WireTransmit
  <1>5. p.id = sent /\ IsData(p)
    BY <1>3 DEF IsData
  <1>6. PICK y \in Nat : y = First + sent
    BY <1>1
  <1>7. /\ \A c \in Links : Flight(wire)[c] \subseteq Flight(v)[c]
        /\ \A c \in Links : c # D => Flight(v)[c] = Flight(wire)[c]
        /\ \A x \in Flight(v)[D] : x \in Flight(wire)[D] \/ x = y
        /\ y \in Flight(v)[D]
    <2>1. First + p.id = y /\ First + p.id \in Nat
      BY <1>5, <1>6
    <2> QED
      BY <1>1, <1>4, <1>5, <2>1, FlightGrows
  <1>8. Old(Flight(v), D) = Old(Flight(wire), D)
    BY <1>7 DEF Old
  <1>9. ASSUME NEW c \in Links, NEW x \in Flight(wire)[c] PROVE x < y
    <2>1. PICK i \in 1 .. Len(wire[c]) : IsData(wire[c][i]) /\ x = First + wire[c][i].id
      BY <1>1, FlightMembers
    <2>2. wire[c][i].id \in Nat /\ wire[c][i].id < sent
      BY <1>1, <2>1, WireTypes DEF WireInv, WireOK
    <2>3. PICK f \in Nat, a \in Nat, n \in Nat : f = First /\ a = wire[c][i].id /\ n = sent
      BY <1>1, <2>2
    <2>4. f + a < f + n
      BY <2>2, <2>3
    <2> QED
      BY <1>6, <2>1, <2>3, <2>4
  <1>10. SteerWire(v, D)
    <2>1. \A c \in Links \ {D} : \A d \in Links \ {D} : (v[c] # << >> /\ v[d] # << >>) => c = d
      BY <1>1, <1>4 DEF SteerWire
    <2>2. \A c \in Links \ {D} : \A i \in 1 .. Len(v[c]) : IsData(v[c][i]) <=> i # Len(v[c])
      BY <1>1, <1>4 DEF SteerWire
    <2>3. ASSUME NEW i \in 1 .. Len(v[D]) PROVE IsData(v[D][i])
      <3>1. \/ i \in 1 .. Len(wire[D]) /\ v[D][i] = wire[D][i]
            \/ i = Len(wire[D]) + 1 /\ v[D][i] = p
        BY <1>1, <1>4, GrowsCases
      <3> QED
        BY <1>1, <1>5, <3>1 DEF SteerWire
    <2>4. ASSUME NEW x \in Flight(v)[D], NEW z \in Old(Flight(v), D) PROVE z < x
      <3>1. z \in Old(Flight(wire), D)
        BY <1>8
      <3>2. CASE x \in Flight(wire)[D]
        BY <1>1, <3>1, <3>2 DEF SteerWire
      <3>3. CASE x = y
        BY <1>9, <3>1, <3>3 DEF Old
      <3> QED
        BY <1>7, <3>2, <3>3
    <2> QED
      BY <2>1, <2>2, <2>3, <2>4 DEF SteerWire
  <1>11. UNCHANGED rxVars /\ deliveryLink' = D /\ sent' = sent + 1
    BY <1>0 DEF Transmit
  <1>12. /\ Becomes(Receiver(0))
         /\ UNCHANGED <<m_reorderingQueue, m_gmaRxExpectedSn, forwarded, m_gmaRxLast, up>>
    BY <1>11, ReceiverBecomesItself
  <1>13. PICK t \in Receivers : t = Receiver(0)
    BY <1>1
  <1>14. Phase(t, v, D, Old(Flight(v), D))
    <2>1. t.newLink \notin {NoCid, D} => v[t.newLink] # << >>
      <3>1. t.newLink \in Cids
        BY <1>1, <1>13
      <3> QED
        BY <1>1, <1>4, <1>13, <3>1 DEF Phase, Cids
    <2> QED
      BY <1>1, <1>8, <1>13, <2>1 DEF Phase
  <1>15. m_gmaRxExpectedSn <= y
    BY <1>6 DEF InOrder, Ordered, Contents
  <1>16. \A x \in Flight(v)[D] : m_gmaRxExpectedSn' <= x
    BY <1>0, <1>7, <1>12, <1>15 DEF SteerState
  <1>17. PICK n : n = sent + 1
    OBVIOUS
  <1>18. Complete(m_reorderingQueue', m_gmaRxExpectedSn', Flight(v), n)
    <2> SUFFICES ASSUME NEW id \in 0 .. n - 1, m_gmaRxExpectedSn <= First + id
                 PROVE  \/ \E c \in Links : First + id \in Flight(v)[c]
                        \/ \E c \in Links : \E i \in 1 .. Len(m_reorderingQueue[c]) :
                              m_reorderingQueue[c][i].id = id
      BY <1>12 DEF Complete
    <2>1. id = sent \/ id \in 0 .. sent - 1
      BY <1>1, <1>17
    <2>2. CASE id = sent
      BY <1>1, <1>6, <1>7, <2>2
    <2>3. CASE id \in 0 .. sent - 1
      BY <1>7, <2>3 DEF SteerState, Complete
    <2> QED
      BY <2>1, <2>2, <2>3
  <1>19. \A c \in Links : Flight(v)[c] # {} => c \in scenario.links
    BY <1>1, <1>7
  <1>20. up' = scenario.links /\ deliveryLink' = D /\ n = sent'
    BY <1>1, <1>11, <1>12, <1>17
  <1>21. Becomes(t)
    BY <1>12, <1>13
  <1>22. SteerState'
    BY <1>4, <1>10, <1>14, <1>16, <1>18, <1>19, <1>20, <1>21, SteerPrime
  <1>23. InOrder'
    BY InOrderTransmit
  <1> QED
    BY <1>22, <1>23

\* The delivery link moves: what is in flight over it is now what a former link holds, and
\* the packets of the other links have arrived.
LEMMA SteerMoves ==
    ASSUME TypeOK, NoFaults, InOrder, SteerState, scenario' = scenario,
           NEW cid \in scenario.links, Steer(cid)
    PROVE  InOrder' /\ SteerState'
  <1>0. PICK D : D = deliveryLink
    OBVIOUS
  <1>1. /\ Unwrapped /\ scenario.mode = "steer" /\ scenario.mode # "duplicate"
        /\ First \in Nat /\ sent \in Nat /\ wire \in Wires /\ m_gmaRxExpectedSn \in Nat
        /\ D \in Links /\ D \in scenario.links /\ scenario.links \subseteq Links
        /\ NoCid \notin Links /\ up = scenario.links
        /\ SteerWire(wire, D) /\ Phase(Receiver(0), wire, D, Old(Flight(wire), D))
        /\ Receiver(0) \in Receivers /\ Receiver(0).newLink \in Cids
        /\ \A c \in Links : Flight(wire)[c] # {} => c \in scenario.links
    BY <1>0, SteerBasics
  <1>2. /\ cid # D /\ cid \in Links /\ \A c \in Links \ {D} : wire[c] = << >>
        /\ deliveryLink' = cid /\ UNCHANGED rxVars /\ sent' = sent
    BY <1>0, <1>1 DEF Steer, May, NoFaults
  <1>3. PICK p : p = [type |-> "end"]
    OBVIOUS
  <1>4. PICK v \in Wires : /\ v = wire' /\ Grows(v, wire, D, p)
                           /\ \A c \in Links : c # D => v[c] = wire[c]
    BY <1>0, <1>3, WireSteer
  <1>5. ~ IsData(p)
    BY <1>3 DEF IsData
  <1>6. \A c \in Links : Flight(v)[c] = Flight(wire)[c]
    <2>1. /\ \A c \in Links : Flight(wire)[c] \subseteq Flight(v)[c]
          /\ \A c \in Links : c # D => Flight(v)[c] = Flight(wire)[c]
          /\ \A x \in Flight(v)[D] : x \in Flight(wire)[D]
      BY <1>1, <1>4, <1>5, FlightGrows
    <2> QED
      BY <2>1
  <1>7. \A c \in Links : c # D => Flight(wire)[c] = {}
    BY <1>1, <1>2, QuietWire
  <1>8. Old(Flight(wire), D) = {} /\ Flight(v)[cid] = {}
    BY <1>2, <1>6, <1>7 DEF Old
  <1>9. \A x \in Old(Flight(v), cid) : m_gmaRxExpectedSn <= x
    <2> SUFFICES ASSUME NEW c \in Links, NEW x \in Flight(v)[c] PROVE m_gmaRxExpectedSn <= x
      BY DEF Old
    <2>1. c = D /\ x \in Flight(wire)[D]
      BY <1>6, <1>7
    <2> QED
      BY <1>0, <2>1 DEF SteerState
  <1>10. Len(wire[D]) \in Nat /\ Len(v[D]) = Len(wire[D]) + 1
    BY <1>1, <1>4, WireTypes DEF Grows
  <1>11. SteerWire(v, cid)
    <2>1. \A c \in Links : c # D => v[c] = << >>
      BY <1>2, <1>4
    <2>2. \A c \in Links \ {cid} : \A d \in Links \ {cid} : (v[c] # << >> /\ v[d] # << >>) => c = d
      BY <2>1
    <2>3. Len(<< >>) = 0 /\ 1 .. 0 = {}
      OBVIOUS
    <2>4. \A i \in 1 .. Len(v[cid]) : IsData(v[cid][i])
      BY <1>2, <2>1, <2>3
    <2>5. ASSUME NEW c \in Links \ {cid}, NEW i \in 1 .. Len(v[c])
          PROVE  IsData(v[c][i]) <=> i # Len(v[c])
      <3>1. c = D
        BY <2>1, <2>3, <2>5
      <3>2. \/ i \in 1 .. Len(wire[D]) /\ v[D][i] = wire[D][i]
            \/ i = Len(wire[D]) + 1 /\ v[D][i] = p
        BY <1>1, <1>4, <2>5, <3>1, GrowsCases
      <3>3. CASE i \in 1 .. Len(wire[D]) /\ v[D][i] = wire[D][i]
        <4>1. i # Len(v[D])
          BY <1>10, <3>3
        <4> QED
          BY <1>1, <3>1, <3>3, <4>1 DEF SteerWire
      <3>4. CASE i = Len(wire[D]) + 1 /\ v[D][i] = p
        BY <1>5, <1>10, <3>1, <3>4
      <3> QED
        BY <3>2, <3>3, <3>4
    <2> QED
      BY <1>8, <2>2, <2>4, <2>5 DEF SteerWire
  <1>12. /\ Becomes(Receiver(0))
         /\ UNCHANGED <<m_reorderingQueue, m_gmaRxExpectedSn, forwarded, m_gmaRxLast, up>>
    BY <1>2, ReceiverBecomesItself
  <1>13. PICK t \in Receivers : t = Receiver(0) /\ t.expected = m_gmaRxExpectedSn
    BY <1>1, ReceiverIsReceiver
  <1>14. Phase(t, wire, D, {})
    BY <1>1, <1>8, <1>13
  <1>15. t.newLink = NoCid \/ (t.newLink = D /\ ~ t.on)
    <2>1. t.newLink \in {NoCid, D}
      <3>1. t.newLink \in Cids
        BY <1>1, <1>13
      <3> QED
        BY <1>2, <1>14, <3>1 DEF Phase, Cids
    <2> QED
      BY <1>1, <1>14, <2>1 DEF Phase, Fresh, Passed, Waiting
  <1>16. IsEmpty(t)
    BY <1>14 DEF Phase, Fresh, Passed, Waiting
  <1>17. Fresh(t, cid, Old(Flight(v), cid))
    BY <1>2, <1>9, <1>13, <1>15, <1>16 DEF Fresh
  <1>18. v[D] # << >>
    BY <1>1, <1>4, <1>10, WireTypes
  <1>19. Phase(t, v, cid, Old(Flight(v), cid))
    BY <1>15, <1>17, <1>18 DEF Phase
  <1>20. \A x \in Flight(v)[cid] : m_gmaRxExpectedSn' <= x
    BY <1>8
  <1>21. Complete(m_reorderingQueue', m_gmaRxExpectedSn', Flight(v), sent)
    BY <1>6, <1>12 DEF SteerState, Complete
  <1>22. \A c \in Links : Flight(v)[c] # {} => c \in scenario.links
    BY <1>1, <1>6
  <1>23. up' = scenario.links /\ deliveryLink' = cid /\ sent = sent'
    BY <1>1, <1>2, <1>12
  <1>24. Becomes(t)
    BY <1>12, <1>13
  <1>25. SteerState'
    BY <1>4, <1>11, <1>19, <1>20, <1>21, <1>22, <1>23, <1>24, SteerPrime
  <1>26. InOrder'
    BY <1>2, <1>12, InOrderSame
  <1> QED
    BY <1>25, <1>26

\* A flow that has been running used the default link.
LEMMA SteerInit ==
    ASSUME Init, TypeOK
    PROVE  SteerInv
  <1> SUFFICES ASSUME NoFaults PROVE InOrder /\ SteerState
    BY DEF SteerInv
  <1>1. Unwrapped /\ scenario.mode = "steer"
    BY DEF NoFaults
  <1>2. First \in Nat /\ wire \in Wires
    BY <1>1, PlainNumbers DEF TypeOK, Wires, Packets
  <1>3. \A c \in Links : wire[c] = << >> /\ m_reorderingQueue[c] = << >>
    BY DEF Init
  <1>4. Len(<< >>) = 0 /\ 1 .. 0 = {}
    OBVIOUS
  <1>5. \A c \in Links : Flight(wire)[c] = {}
    BY <1>2, <1>3, QuietWire
  <1>6. PICK D : D = deliveryLink
    OBVIOUS
  <1>7. Old(Flight(wire), D) = {}
    BY <1>5 DEF Old
  <1>8. D \in Links /\ D = DefaultCid /\ NoCid \notin Links
    BY <1>6, DefaultCidIsLink, LinksAreNumbers DEF Init
  <1>9. SteerWire(wire, D)
    BY <1>3, <1>4, <1>5, <1>8 DEF SteerWire
  <1>10. PICK s \in Receivers : s = Receiver(0)
    BY ReceiverIsReceiver
  <1>11. /\ s.queue = m_reorderingQueue /\ s.newLink = m_newLinkCid /\ s.on = m_enableReordering
    BY <1>10, ReceiverIsReceiver
  <1>12. IsEmpty(s)
    BY <1>3, <1>11 DEF IsEmpty
  <1>13. (s.newLink = NoCid \/ s.newLink = D) /\ s.on = FALSE
    BY <1>1, <1>8, <1>11 DEF Init
  <1>14. Phase(s, wire, D, {})
    <2>1. CASE s.newLink = NoCid
      BY <1>12, <2>1 DEF Phase, Fresh
    <2>2. CASE s.newLink = D
      BY <1>12, <1>13, <2>2 DEF Phase, Passed
    <2> QED
      BY <1>13, <2>1, <2>2
  <1>15. Complete(m_reorderingQueue, m_gmaRxExpectedSn, Flight(wire), sent)
    <2>1. sent = 0 /\ 0 .. 0 - 1 = {}
      BY DEF Init
    <2> QED
      BY <2>1 DEF Complete
  <1>16. up = scenario.links
    BY DEF Init
  <1>17. SteerState
    BY <1>5, <1>6, <1>7, <1>8, <1>9, <1>10, <1>14, <1>15, <1>16 DEF SteerState
  <1> QED
    BY <1>17, InOrderInit

LEMMA SteerNext ==
    ASSUME TypeOK, WireInv, OnceInv, TimerInv, NumberedInv, SteerInv, [Next]_vars
    PROVE  SteerInv'
  <1>1. CASE UNCHANGED vars
    <2>1. ASSUME NoFaults PROVE InOrder' /\ SteerState'
      <3>1. /\ InOrder /\ SteerState
            /\ UNCHANGED rxVars /\ UNCHANGED <<wire, sent, deliveryLink, scenario>>
        BY <1>1, <2>1 DEF SteerInv, vars, txVars
      <3>2. /\ Becomes(Receiver(0))
            /\ UNCHANGED <<m_reorderingQueue, m_gmaRxExpectedSn, forwarded, m_gmaRxLast, up>>
        BY <3>1, ReceiverBecomesItself
      <3>3. InOrder'
        BY <3>1, <3>2, InOrderSame
      <3>4. PICK D, v, t, n : D = deliveryLink /\ v = wire /\ t = Receiver(0) /\ n = sent
        OBVIOUS
      <3>5. /\ SteerWire(v, D) /\ Phase(t, v, D, Old(Flight(v), D)) /\ up = scenario.links
            /\ \A c \in Links : Flight(v)[c] # {} => c \in scenario.links
            /\ \A x \in Flight(v)[D] : m_gmaRxExpectedSn' <= x
            /\ Complete(m_reorderingQueue', m_gmaRxExpectedSn', Flight(v), n)
        BY <3>1, <3>2, <3>4 DEF SteerState
      <3>6. deliveryLink' = D /\ v = wire' /\ n = sent' /\ scenario' = scenario /\ Becomes(t)
            /\ up' = scenario.links
        BY <3>1, <3>2, <3>4, <3>5
      <3>7. SteerState'
        BY <3>5, <3>6, SteerPrime
      <3> QED
        BY <3>3, <3>7
    <2>2. NoFaults' <=> NoFaults
      BY <1>1 DEF NoFaults, Unwrapped, vars
    <2> QED
      BY <2>1, <2>2 DEF SteerInv
  <1>2. CASE Next
    <2>0. scenario' = scenario
      BY <1>2 DEF Next
    <2>2. NoFaults' <=> NoFaults
      BY <2>0 DEF NoFaults, Unwrapped
    <2>1. ASSUME NoFaults PROVE InOrder' /\ SteerState'
      <3>0. InOrder /\ SteerState /\ scenario.links \subseteq Links
        BY <2>1, DefaultCidIsLink DEF SteerInv, TypeOK
      <3>1. ASSUME NEW cids \in SUBSET Links, Transmit(cids) PROVE InOrder' /\ SteerState'
        BY <2>0, <2>1, <3>0, <3>1, SteerTransmit
      <3>2. ASSUME NEW cid \in scenario.links, Steer(cid) PROVE InOrder' /\ SteerState'
        BY <2>0, <2>1, <3>0, <3>2, SteerMoves
      <3>3. ASSUME NEW cid \in scenario.links, ReceiveData(cid) PROVE InOrder' /\ SteerState'
        <4>1. cid \in Links
          BY <3>0
        <4> QED
          BY <2>0, <2>1, <3>0, <3>3, <4>1, SteerReceive
      <3>4. ASSUME NEW cid \in scenario.links, ReceiveEndMarker(cid) PROVE InOrder' /\ SteerState'
        <4>1. cid \in Links
          BY <3>0
        <4> QED
          BY <2>0, <2>1, <3>0, <3>4, <4>1, SteerEnd
      <3>5. /\ \A cid \in scenario.links : ~ Lose(cid) /\ ~ LinkChanges(cid)
            /\ \A x \in Expirations : ~ ReorderingTimeout(x)
            /\ ~ StopReorderTimeout /\ ~ SendTsu
        BY <2>1 DEF NoFaults, May, Lose, LinkChanges, ReorderingTimeout, StopReorderTimeout, SendTsu
      <3> QED
        BY <1>2, <3>1, <3>2, <3>3, <3>4, <3>5 DEF Next, Step
    <2> QED
      BY <2>1, <2>2 DEF SteerInv
  <1> QED
    BY <1>1, <1>2

LEMMA SteerInvariant == Spec => []SteerInv
  <1>1. Init => SteerInv
    BY InitType, SteerInit
  <1>2. TypeOK /\ WireInv /\ OnceInv /\ TimerInv /\ NumberedInv /\ SteerInv /\ [Next]_vars
           => SteerInv'
    BY SteerNext
  <1> QED
    BY <1>1, <1>2, TypeCorrect, WireInvariant, OnceInvariant, TimerInvariant,
       NumberedInvariant, PTL DEF Spec

-----------------------------------------------------------------------------
\* Packets reach the application in the order they were sent (InOrderDelivery, the release
\* loops and ReceiveEndMarker): in split mode whatever is lost, times out or fails, and in
\* steer mode when nothing does and the peer does not move hastily.
THEOREM ForwardsInOrder == Spec => [](Unwrapped => ForwardedInOrder)
  <1>1. TypeOK /\ SplitInv /\ SteerInv => (Unwrapped => ForwardedInOrder)
    BY InOrderForwards DEF SplitInv, SplitOrder, SteerInv, NoFaults, ForwardedInOrder
  <1> QED
    BY <1>1, TypeCorrect, SplitInvariant, SteerInvariant, PTL

=============================================================================
