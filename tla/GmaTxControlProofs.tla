------------------------- MODULE GmaTxControlProofs -------------------------
(***************************************************************************)
(* Proofs about GmaTxControl, for any list of links, any shares and all    *)
(* the burst sizes of the code: any window of picks gives every link its   *)
(* share, a burst is spread evenly, and steering keeps its primary link.   *)
(***************************************************************************)
EXTENDS GmaTxControl, FiniteSetTheorems, WellFoundedInduction, TLAPS

-----------------------------------------------------------------------------
(***************************************************************************)
(* The loops of the code are recursive functions over 0 .. n.  What holds  *)
(* before the first round and is kept by every round holds in the end.     *)
(***************************************************************************)
\* A set of numbers has a least one.
LEMMA LeastNumber ==
    ASSUME NEW S \in SUBSET Nat, S # {}
    PROVE  \E m \in S : \A n \in S : m <= n
  <1> DEFINE R == OpToRel(<, Nat)
  <1>1. IsWellFoundedOn(R, Nat)
    BY NatLessThanWellFounded, Zenon
  <1>2. \A x, y \in Nat : x < y => <<x, y>> \in R
    BY DEF OpToRel
  <1> HIDE DEF R
  <1>3. PICK m \in S : \A n \in S : <<n, m>> \notin R
    BY <1>1, WFMin
  <1>4. \A n \in S : n \in Nat /\ m \in Nat /\ ~ (n < m)
    BY <1>2, <1>3
  <1>5. \A n \in S : m <= n
    BY <1>4
  <1> QED
    BY <1>5

LEMMA Rounds ==
    ASSUME NEW N \in Nat, NEW P \in SUBSET (0 .. N), 0 \in P,
           \A n \in 0 .. N : (n \in P /\ n < N) => n + 1 \in P
    PROVE  P = 0 .. N
  <1> DEFINE Missing == (0 .. N) \ P
  <1>1. SUFFICES ASSUME Missing # {} PROVE FALSE
    OBVIOUS
  <1>2. PICK least \in Missing : \A n \in Missing : least <= n
    <2>1. Missing \in SUBSET Nat
      OBVIOUS
    <2> HIDE DEF Missing
    <2> QED
      BY <1>1, <2>1, LeastNumber
  <1>3. least # 0 /\ least - 1 \in 0 .. N /\ least - 1 < N
    BY <1>2
  <1>4. least - 1 \in P
    BY <1>2, <1>3
  <1>5. (least - 1) + 1 \in P
    BY <1>3, <1>4
  <1> QED
    BY <1>2, <1>5

\* The loop of RcvCtrlMsg that fills inorderCidVector, round by round.
LaidOutBy(f, K, N) ==
    f = [link \in 0 .. N |->
            IF link = 0 THEN << >>
            ELSE f[link - 1] \o [n \in 1 .. K[link] |-> CidList[link]]]

LEMMA LaidOutExists ==
    ASSUME NEW K, NEW N \in Nat
    PROVE  \E f : LaidOutBy(f, K, N)
  <1> DEFINE P == {m \in 0 .. N : \E f : LaidOutBy(f, K, m)}
  <1>1. 0 \in P
    <2> DEFINE f == [link \in 0 .. 0 |-> << >>]
    <2>1. LaidOutBy(f, K, 0)
      BY DEF LaidOutBy
    <2> QED
      BY <2>1
  <1>2. ASSUME NEW m \in 0 .. N, m \in P, m < N PROVE m + 1 \in P
    <2>1. PICK f : LaidOutBy(f, K, m)
      BY <1>2
    <2> DEFINE g == [link \in 0 .. (m + 1) |->
                        IF link = m + 1 THEN f[m] \o [n \in 1 .. K[m + 1] |-> CidList[m + 1]]
                        ELSE f[link]]
    <2>2. \A link \in 0 .. m : g[link] = f[link]
      OBVIOUS
    <2>3. ASSUME NEW link \in 0 .. (m + 1)
          PROVE  g[link] = IF link = 0 THEN << >>
                           ELSE g[link - 1] \o [n \in 1 .. K[link] |-> CidList[link]]
      <3>1. CASE link = 0
        <4>1. f[0] = << >>
          BY <2>1 DEF LaidOutBy
        <4> QED
          BY <2>2, <3>1, <4>1
      <3>2. CASE link \in 1 .. m
        <4>1. link - 1 \in 0 .. m /\ link \in 0 .. m /\ link # 0
          BY <3>2
        <4>2. f[link] = f[link - 1] \o [n \in 1 .. K[link] |-> CidList[link]]
          BY <2>1, <4>1, Zenon DEF LaidOutBy
        <4> HIDE DEF g
        <4> QED
          BY <2>2, <4>1, <4>2
      <3>3. CASE link = m + 1
        <4>1. g[link - 1] = f[m] /\ link # 0
          BY <2>2, <3>3
        <4> QED
          BY <3>3, <4>1
      <3> QED
        BY <3>1, <3>2, <3>3
    <2>4. LaidOutBy(g, K, m + 1)
      <3>1. g = [link \in 0 .. (m + 1) |-> g[link]]
        OBVIOUS
      <3> HIDE DEF g
      <3> QED
        BY <2>3, <3>1, Zenon DEF LaidOutBy
    <2>5. m + 1 \in 0 .. N
      BY <1>2
    <2>6. \E h : LaidOutBy(h, K, m + 1)
      BY <2>4
    <2> QED
      BY <2>5, <2>6
  <1>3. P = 0 .. N
    <2> HIDE DEF P
    <2>1. P \in SUBSET (0 .. N)
      BY DEF P
    <2> QED
      BY <1>1, <1>2, <2>1, Rounds
  <1> QED
    BY <1>3

LEMMA LaidOutRounds ==
    ASSUME NEW K
    PROVE  /\ LaidOut(K)[0] = << >>
           /\ \A link \in 0 .. Len(CidList) : link # 0 =>
                 LaidOut(K)[link] = LaidOut(K)[link - 1] \o [n \in 1 .. K[link] |-> CidList[link]]
  <1>1. Len(CidList) \in Nat
    BY CidListAssumption
  <1>2. \E f : f = [link \in 0 .. Len(CidList) |->
                       IF link = 0 THEN << >>
                       ELSE f[link - 1] \o [n \in 1 .. K[link] |-> CidList[link]]]
    BY <1>1, LaidOutExists DEF LaidOutBy
  <1>3. LaidOut(K) = [link \in 0 .. Len(CidList) |->
                       IF link = 0 THEN << >>
                       ELSE LaidOut(K)[link - 1] \o [n \in 1 .. K[link] |-> CidList[link]]]
    BY <1>2, Zenon DEF LaidOut
  <1>4. 0 \in 0 .. Len(CidList)
    BY <1>1
  <1> QED
    BY <1>3, <1>4, Zenon

\* The loop that drops one cid from a vector, round by round.
FilteredBy(f, cids, cid, N) ==
    f = [n \in 0 .. N |->
            IF n = 0 THEN << >>
            ELSE IF cids[n] = cid THEN f[n - 1]
            ELSE Append(f[n - 1], cids[n])]

LEMMA FilteredExists ==
    ASSUME NEW cids, NEW cid, NEW N \in Nat
    PROVE  \E f : FilteredBy(f, cids, cid, N)
  <1> DEFINE P == {m \in 0 .. N : \E f : FilteredBy(f, cids, cid, m)}
  <1>1. 0 \in P
    <2> DEFINE f == [n \in 0 .. 0 |-> << >>]
    <2>1. FilteredBy(f, cids, cid, 0)
      BY DEF FilteredBy
    <2> QED
      BY <2>1
  <1>2. ASSUME NEW m \in 0 .. N, m \in P, m < N PROVE m + 1 \in P
    <2>1. PICK f : FilteredBy(f, cids, cid, m)
      BY <1>2
    <2> DEFINE g == [n \in 0 .. (m + 1) |->
                        IF n = m + 1
                        THEN IF cids[m + 1] = cid THEN f[m] ELSE Append(f[m], cids[m + 1])
                        ELSE f[n]]
    <2>2. \A n \in 0 .. m : g[n] = f[n]
      OBVIOUS
    <2>3. ASSUME NEW n \in 0 .. (m + 1)
          PROVE  g[n] = IF n = 0 THEN << >>
                        ELSE IF cids[n] = cid THEN g[n - 1]
                        ELSE Append(g[n - 1], cids[n])
      <3>1. CASE n = 0
        <4>1. f[0] = << >>
          BY <2>1 DEF FilteredBy
        <4> QED
          BY <2>2, <3>1, <4>1
      <3>2. CASE n \in 1 .. m
        <4>1. n - 1 \in 0 .. m /\ n \in 0 .. m /\ n # 0
          BY <3>2
        <4>2. f[n] = IF cids[n] = cid THEN f[n - 1] ELSE Append(f[n - 1], cids[n])
          BY <2>1, <4>1, Zenon DEF FilteredBy
        <4> HIDE DEF g
        <4> QED
          BY <2>2, <4>1, <4>2
      <3>3. CASE n = m + 1
        <4>1. g[n - 1] = f[m] /\ n # 0
          BY <2>2, <3>3
        <4> QED
          BY <3>3, <4>1
      <3> QED
        BY <3>1, <3>2, <3>3
    <2>4. FilteredBy(g, cids, cid, m + 1)
      <3>1. g = [n \in 0 .. (m + 1) |-> g[n]]
        OBVIOUS
      <3> HIDE DEF g
      <3> QED
        BY <2>3, <3>1, Zenon DEF FilteredBy
    <2>5. m + 1 \in 0 .. N
      BY <1>2
    <2>6. \E h : FilteredBy(h, cids, cid, m + 1)
      BY <2>4
    <2> QED
      BY <2>5, <2>6
  <1>3. P = 0 .. N
    <2> HIDE DEF P
    <2>1. P \in SUBSET (0 .. N)
      BY DEF P
    <2> QED
      BY <1>1, <1>2, <2>1, Rounds
  <1> QED
    BY <1>3

LEMMA FilteredRounds ==
    ASSUME NEW cids, NEW cid, Len(cids) \in Nat
    PROVE  /\ Filtered(cids, cid)[0] = << >>
           /\ \A n \in 0 .. Len(cids) : n # 0 =>
                 Filtered(cids, cid)[n] =
                    IF cids[n] = cid THEN Filtered(cids, cid)[n - 1]
                    ELSE Append(Filtered(cids, cid)[n - 1], cids[n])
  <1>1. \E f : f = [n \in 0 .. Len(cids) |->
                       IF n = 0 THEN << >>
                       ELSE IF cids[n] = cid THEN f[n - 1]
                       ELSE Append(f[n - 1], cids[n])]
    <2>1. \E f : FilteredBy(f, cids, cid, Len(cids))
      BY FilteredExists
    <2> QED
      BY <2>1, Zenon DEF FilteredBy
  <1>2. Filtered(cids, cid) = [n \in 0 .. Len(cids) |->
                       IF n = 0 THEN << >>
                       ELSE IF cids[n] = cid THEN Filtered(cids, cid)[n - 1]
                       ELSE Append(Filtered(cids, cid)[n - 1], cids[n])]
    BY <1>1, Zenon DEF Filtered
  <1>3. 0 \in 0 .. Len(cids)
    OBVIOUS
  <1> QED
    BY <1>2, <1>3, Zenon

-----------------------------------------------------------------------------
(***************************************************************************)
(* Counting the slots of a link.                                           *)
(***************************************************************************)
SlotsOf(s, cid) == {n \in DOMAIN s : s[n] = cid}

LEMMA SlotsFinite ==
    ASSUME NEW S, NEW s \in Seq(S), NEW cid
    PROVE  /\ IsFiniteSet(SlotsOf(s, cid))
           /\ Count(s, cid) = Cardinality(SlotsOf(s, cid))
           /\ Count(s, cid) \in Nat
  <1>1. DOMAIN s = 1 .. Len(s) /\ Len(s) \in Nat
    OBVIOUS
  <1>2. IsFiniteSet(1 .. Len(s))
    BY <1>1, FS_Interval
  <1>3. SlotsOf(s, cid) \in SUBSET (1 .. Len(s))
    BY <1>1 DEF SlotsOf
  <1>4. IsFiniteSet(SlotsOf(s, cid))
    BY <1>2, <1>3, FS_Subset
  <1>5. Cardinality(SlotsOf(s, cid)) \in Nat
    BY <1>4, FS_CardinalityType
  <1> QED
    BY <1>4, <1>5 DEF Count, SlotsOf

\* Sets whose elements correspond one to one have the same size.
Correspond(S, T) ==
    \E f \in [S -> T] : /\ \A x, y \in S : f[x] = f[y] => x = y
                        /\ \A t \in T : \E x \in S : f[x] = t

LEMMA SameSize ==
    ASSUME NEW S, NEW T, IsFiniteSet(S), Correspond(S, T)
    PROVE  IsFiniteSet(T) /\ Cardinality(T) = Cardinality(S)
  <1>1. PICK f \in [S -> T] : /\ \A x, y \in S : f[x] = f[y] => x = y
                              /\ \A t \in T : \E x \in S : f[x] = t
    BY DEF Correspond
  <1>2. f \in Bijection(S, T)
    BY <1>1 DEF Bijection, Injection, Surjection, IsInjective
  <1>3. ExistsBijection(S, T)
    BY <1>2 DEF ExistsBijection
  <1> QED
    BY <1>3, FS_Bijection

LEMMA ToSetConcat ==
    ASSUME NEW S, NEW s \in Seq(S), NEW t \in Seq(S)
    PROVE  ToSet(s \o t) = ToSet(s) \cup ToSet(t)
  <1>1. Len(s) \in Nat /\ Len(t) \in Nat /\ DOMAIN s = 1 .. Len(s) /\ DOMAIN t = 1 .. Len(t)
    OBVIOUS
  <1>2. DOMAIN (s \o t) = 1 .. (Len(s) + Len(t))
    BY <1>1
  <1>3. \A n \in 1 .. Len(s) : n \in DOMAIN (s \o t) /\ (s \o t)[n] = s[n]
    BY <1>1, <1>2
  <1>4. \A n \in 1 .. Len(t) : n + Len(s) \in DOMAIN (s \o t) /\ (s \o t)[n + Len(s)] = t[n]
    BY <1>1, <1>2
  <1>5. \A n \in DOMAIN (s \o t) : n \in 1 .. Len(s) \/ n - Len(s) \in 1 .. Len(t)
    BY <1>1, <1>2
  <1>6. \A n \in DOMAIN (s \o t) : (n - Len(s)) + Len(s) = n
    BY <1>1, <1>2
  <1>7. PICK c : c = s \o t
    OBVIOUS
  <1>8. ToSet(c) \subseteq ToSet(s) \cup ToSet(t)
    <2> SUFFICES ASSUME NEW n \in DOMAIN c PROVE c[n] \in ToSet(s) \cup ToSet(t)
      BY DEF ToSet
    <2>1. CASE n \in 1 .. Len(s)
      BY <1>1, <1>3, <1>7, <2>1 DEF ToSet
    <2>2. CASE n - Len(s) \in 1 .. Len(t)
      <3>1. c[n] = t[n - Len(s)]
        BY <1>4, <1>6, <1>7, <2>2
      <3> QED
        BY <1>1, <2>2, <3>1 DEF ToSet
    <2> QED
      BY <1>5, <1>7, <2>1, <2>2
  <1>9. ToSet(s) \subseteq ToSet(c) /\ ToSet(t) \subseteq ToSet(c)
    BY <1>1, <1>3, <1>4, <1>7 DEF ToSet
  <1> QED
    BY <1>7, <1>8, <1>9

LEMMA CountConcat ==
    ASSUME NEW S, NEW s \in Seq(S), NEW t \in Seq(S), NEW cid
    PROVE  Count(s \o t, cid) = Count(s, cid) + Count(t, cid)
  <1> DEFINE A == SlotsOf(s, cid)
  <1> DEFINE B == SlotsOf(t, cid)
  <1> DEFINE C == {n \in (Len(s) + 1) .. (Len(s) + Len(t)) : t[n - Len(s)] = cid}
  <1>1. Len(s) \in Nat /\ Len(t) \in Nat
    OBVIOUS
  <1>2. SlotsOf(s \o t, cid) = A \cup C
    <2>1. DOMAIN (s \o t) = 1 .. (Len(s) + Len(t)) /\ DOMAIN s = 1 .. Len(s)
      BY <1>1
    <2>2. \A n \in 1 .. (Len(s) + Len(t)) :
             (s \o t)[n] = IF n <= Len(s) THEN s[n] ELSE t[n - Len(s)]
      BY <1>1
    <2>3. \A n : n \in SlotsOf(s \o t, cid) <=> n \in A \cup C
      BY <1>1, <2>1, <2>2 DEF SlotsOf
    <2> QED
      BY <2>3
  <1>3. A \cap C = {}
    BY <1>1 DEF SlotsOf
  <1>4. IsFiniteSet(A) /\ IsFiniteSet(B)
    BY SlotsFinite
  <1>5. IsFiniteSet(C) /\ Cardinality(C) = Cardinality(B)
    <2> DEFINE f == [n \in B |-> n + Len(s)]
    <2>1. f \in [B -> C]
      BY <1>1 DEF SlotsOf
    <2>2. \A x, y \in B : f[x] = f[y] => x = y
      BY <1>1 DEF SlotsOf
    <2>3. \A n \in C : \E x \in B : f[x] = n
      <3> TAKE n \in C
      <3>1. n - Len(s) \in B
        BY <1>1 DEF SlotsOf
      <3>2. f[n - Len(s)] = n
        BY <1>1, <3>1
      <3> QED
        BY <3>1, <3>2
    <2> HIDE DEF f, B, C
    <2>4. Correspond(B, C)
      BY <2>1, <2>2, <2>3 DEF Correspond
    <2> QED
      BY <1>4, <2>4, SameSize
  <1>6. Cardinality(A \cup C) = Cardinality(A) + Cardinality(C)
    <2> HIDE DEF A, C
    <2>1. Cardinality(A \cup C) = Cardinality(A) + Cardinality(C) - Cardinality(A \cap C)
      BY <1>4, <1>5, FS_Union
    <2>2. Cardinality(A) \in Nat /\ Cardinality(C) \in Nat
      BY <1>4, <1>5, FS_CardinalityType
    <2>3. Cardinality(A \cap C) = 0
      BY <1>3, FS_EmptySet
    <2> QED
      BY <2>1, <2>2, <2>3
  <1>7. Count(s \o t, cid) = Cardinality(A \cup C)
    BY <1>2 DEF Count, SlotsOf
  <1> QED
    BY <1>5, <1>6, <1>7, SlotsFinite

\* A run of slots of one link.
IsRun(s, k, x) == DOMAIN s = 1 .. k /\ \A n \in 1 .. k : s[n] = x

LEMMA CountConstant ==
    ASSUME NEW k \in Nat, NEW x, NEW s, IsRun(s, k, x), NEW cid
    PROVE  Count(s, cid) = IF x = cid THEN k ELSE 0
  <1>1. CASE x = cid
    <2>1. {n \in DOMAIN s : s[n] = cid} = 1 .. k
      BY <1>1 DEF IsRun
    <2>2. Cardinality(1 .. k) = k
      <3>1. Cardinality(1 .. k) = IF 1 > k THEN 0 ELSE k - 1 + 1
        BY FS_Interval, 1 \in Int, k \in Int
      <3>2. (IF 1 > k THEN 0 ELSE k - 1 + 1) = k
        OBVIOUS
      <3> QED
        BY <3>1, <3>2
    <2> QED
      BY <1>1, <2>1, <2>2 DEF Count
  <1>2. CASE x # cid
    <2>1. {n \in DOMAIN s : s[n] = cid} = {}
      BY <1>2 DEF IsRun
    <2> QED
      BY <1>2, <2>1, FS_EmptySet DEF Count
  <1> QED
    BY <1>1, <1>2

\* t reads the slots of s in another order.
Reordered(t, s) ==
    \E f \in [DOMAIN t -> DOMAIN s] :
        /\ \A x, y \in DOMAIN t : f[x] = f[y] => x = y
        /\ \A m \in DOMAIN s : \E x \in DOMAIN t : f[x] = m
        /\ \A n \in DOMAIN t : t[n] = s[f[n]]

\* Reading a vector in another order keeps the number of slots of every link.
LEMMA CountReordered ==
    ASSUME NEW S, NEW s \in Seq(S), NEW t \in Seq(S), Reordered(t, s), NEW cid
    PROVE  Count(t, cid) = Count(s, cid)
  <1>f. PICK f \in [DOMAIN t -> DOMAIN s] :
             /\ \A x, y \in DOMAIN t : f[x] = f[y] => x = y
             /\ \A m \in DOMAIN s : \E x \in DOMAIN t : f[x] = m
             /\ \A n \in DOMAIN t : t[n] = s[f[n]]
    BY DEF Reordered
  <1> DEFINE A == SlotsOf(t, cid)
  <1> DEFINE B == SlotsOf(s, cid)
  <1> DEFINE g == [n \in A |-> f[n]]
  <1>1. g \in [A -> B]
    BY <1>f DEF SlotsOf
  <1>2. \A x, y \in A : g[x] = g[y] => x = y
    BY <1>f DEF SlotsOf
  <1>3. \A m \in B : \E x \in A : g[x] = m
    <2> TAKE m \in B
    <2>1. PICK x \in DOMAIN t : f[x] = m
      BY <1>f DEF SlotsOf
    <2>2. x \in A
      BY <1>f, <2>1 DEF SlotsOf
    <2> QED
      BY <2>1, <2>2
  <1>4. IsFiniteSet(A)
    BY SlotsFinite
  <1>5. Cardinality(B) = Cardinality(A)
    <2> HIDE DEF A, B, g
    <2>1. Correspond(A, B)
      BY <1>1, <1>2, <1>3 DEF Correspond
    <2> QED
      BY <1>4, <2>1, SameSize
  <1> QED
    BY <1>5, SlotsFinite

-----------------------------------------------------------------------------
(***************************************************************************)
(* What RcvCtrlMsg makes of the shares of a TSU.                           *)
(***************************************************************************)

LEMMA CidListFacts ==
    /\ Len(CidList) \in Nat /\ DOMAIN CidList = 1 .. Len(CidList)
    /\ \A i \in DOMAIN CidList : CidList[i] \in Cids
    /\ \A i, j \in DOMAIN CidList : CidList[i] = CidList[j] => i = j
  BY CidListAssumption DEF Cids

\* inorderCidVector names configured links only, and every link as often as its share.
LEMMA InorderHonoursShares ==
    ASSUME NEW K \in [DOMAIN CidList -> Nat]
    PROVE  /\ InorderCidVector(K) \in Seq(Cids)
           /\ \A i \in DOMAIN CidList : Count(InorderCidVector(K), CidList[i]) = K[i]
  <1> DEFINE Laid(m) ==
        /\ LaidOut(K)[m] \in Seq(Cids)
        /\ \A i \in DOMAIN CidList :
              Count(LaidOut(K)[m], CidList[i]) = IF i <= m THEN K[i] ELSE 0
  <1> DEFINE P == {m \in 0 .. Len(CidList) : Laid(m)}
  <1>1. 0 \in P
    <2>1. LaidOut(K)[0] = << >>
      BY LaidOutRounds
    <2>2. \A cid : Count(<< >>, cid) = 0
      <3> TAKE cid
      <3>1. {n \in DOMAIN << >> : << >>[n] = cid} = {}
        OBVIOUS
      <3> QED
        BY <3>1, FS_EmptySet DEF Count
    <2>3. << >> \in Seq(Cids)
      OBVIOUS
    <2>4. \A i \in DOMAIN CidList : ~ (i <= 0)
      BY CidListFacts
    <2>5. 0 \in 0 .. Len(CidList)
      BY CidListFacts
    <2> QED
      BY <2>1, <2>2, <2>3, <2>4, <2>5
  <1>2. ASSUME NEW m \in 0 .. Len(CidList), m \in P, m < Len(CidList) PROVE m + 1 \in P
    <2> DEFINE run == [n \in 1 .. K[m + 1] |-> CidList[m + 1]]
    <2>1. m + 1 \in DOMAIN CidList /\ m + 1 \in 0 .. Len(CidList) /\ m + 1 # 0 /\ (m + 1) - 1 = m
      BY <1>2, CidListFacts
    <2>2. LaidOut(K)[m + 1] = LaidOut(K)[m] \o run
      BY <2>1, LaidOutRounds
    <2>3. K[m + 1] \in Nat /\ CidList[m + 1] \in Cids
      BY <2>1, CidListFacts
    <2>4. run \in Seq(Cids)
      BY <2>3
    <2>5. \A cid : Count(run, cid) = IF CidList[m + 1] = cid THEN K[m + 1] ELSE 0
      <3>1. IsRun(run, K[m + 1], CidList[m + 1])
        BY DEF IsRun
      <3> HIDE DEF run
      <3> QED
        BY <2>3, <3>1, CountConstant
    <2>6. Laid(m)
      BY <1>2
    <2>7. LaidOut(K)[m + 1] \in Seq(Cids)
      <3> HIDE DEF run
      <3> QED
        BY <2>2, <2>4, <2>6
    <2>8. ASSUME NEW i \in DOMAIN CidList
          PROVE  Count(LaidOut(K)[m + 1], CidList[i]) = IF i <= m + 1 THEN K[i] ELSE 0
      <3>1. Count(LaidOut(K)[m] \o run, CidList[i])
               = Count(LaidOut(K)[m], CidList[i]) + Count(run, CidList[i])
        <4> HIDE DEF run
        <4> QED
          BY <2>4, <2>6, CountConcat
      <3>2. CidList[m + 1] = CidList[i] <=> i = m + 1
        BY <2>1, CidListFacts
      <3>3. Count(run, CidList[i]) = IF i = m + 1 THEN K[m + 1] ELSE 0
        BY <2>5, <3>2
      <3>4. Count(LaidOut(K)[m], CidList[i]) = IF i <= m THEN K[i] ELSE 0
        BY <2>6
      <3>5. i \in Int /\ K[i] \in Nat
        BY CidListFacts
      <3> HIDE DEF run
      <3> QED
        BY <2>2, <2>3, <3>1, <3>3, <3>4, <3>5
    <2> QED
      BY <2>1, <2>7, <2>8
  <1>3. P = 0 .. Len(CidList)
    <2>1. P \in SUBSET (0 .. Len(CidList))
      OBVIOUS
    <2> HIDE DEF P
    <2> QED
      BY <1>1, <1>2, <2>1, CidListFacts, Rounds
  <1>4. Len(CidList) \in P
    BY <1>3, CidListFacts
  <1>5. Laid(Len(CidList))
    BY <1>4
  <1> QED
    BY <1>5, CidListFacts DEF InorderCidVector

Sizes == {4, 8, 16, 32, 64, 128}

\* Every table REVERSE_BITS_INDEXn is a permutation that is its own inverse.
LEMMA TablesArePermutations ==
    ASSUME NEW L \in Sizes
    PROVE  /\ ReverseBitsIndex(L) \in [1 .. L -> 0 .. (L - 1)]
           /\ \A n \in 1 .. L : ReverseBitsIndex(L)[ReverseBitsIndex(L)[n] + 1] = n - 1
  <1>1. CASE L = 4
    <2>1. REVERSE_BITS_INDEX4 \in [1 .. 4 -> 0 .. 3]
      BY DEF REVERSE_BITS_INDEX4
    <2>2. \A n \in 1 .. 4 : REVERSE_BITS_INDEX4[REVERSE_BITS_INDEX4[n] + 1] = n - 1
      BY DEF REVERSE_BITS_INDEX4
    <2> QED
      BY <1>1, <2>1, <2>2 DEF ReverseBitsIndex
  <1>2. CASE L = 8
    <2>1. REVERSE_BITS_INDEX8 \in [1 .. 8 -> 0 .. 7]
      BY DEF REVERSE_BITS_INDEX8
    <2>2. \A n \in 1 .. 8 : REVERSE_BITS_INDEX8[REVERSE_BITS_INDEX8[n] + 1] = n - 1
      BY DEF REVERSE_BITS_INDEX8
    <2> QED
      BY <1>2, <2>1, <2>2 DEF ReverseBitsIndex
  <1>3. CASE L = 16
    <2>1. REVERSE_BITS_INDEX16 \in [1 .. 16 -> 0 .. 15]
      BY DEF REVERSE_BITS_INDEX16
    <2>2. \A n \in 1 .. 16 : REVERSE_BITS_INDEX16[REVERSE_BITS_INDEX16[n] + 1] = n - 1
      BY DEF REVERSE_BITS_INDEX16
    <2> QED
      BY <1>3, <2>1, <2>2 DEF ReverseBitsIndex
  <1>4. CASE L = 32
    <2>1. REVERSE_BITS_INDEX32 \in [1 .. 32 -> 0 .. 31]
      BY DEF REVERSE_BITS_INDEX32
    <2>2. \A n \in 1 .. 32 : REVERSE_BITS_INDEX32[REVERSE_BITS_INDEX32[n] + 1] = n - 1
      BY DEF REVERSE_BITS_INDEX32
    <2> QED
      BY <1>4, <2>1, <2>2 DEF ReverseBitsIndex
  <1>5. CASE L = 64
    <2>1. DOMAIN REVERSE_BITS_INDEX64 = 1 .. 64
      BY DEF REVERSE_BITS_INDEX64
    <2>2. \A n \in 1 .. 64 : REVERSE_BITS_INDEX64[n] \in 0 .. 63
      BY SMTT(60) DEF REVERSE_BITS_INDEX64
    <2>3. REVERSE_BITS_INDEX64 = [n \in 1 .. 64 |-> REVERSE_BITS_INDEX64[n]]
      BY SMTT(60) DEF REVERSE_BITS_INDEX64
    <2>4. REVERSE_BITS_INDEX64 \in [1 .. 64 -> 0 .. 63]
      BY <2>2, <2>3
    <2>5. \A n \in 1 .. 64 : REVERSE_BITS_INDEX64[REVERSE_BITS_INDEX64[n] + 1] = n - 1
      BY SMTT(100) DEF REVERSE_BITS_INDEX64
    <2>6. ReverseBitsIndex(L) = REVERSE_BITS_INDEX64
      BY <1>5 DEF ReverseBitsIndex
    <2>7. L - 1 = 63
      BY <1>5
    <2> QED
      BY <1>5, <2>4, <2>5, <2>6, <2>7, Zenon
  <1>6. CASE L = 128
    <2>1. DOMAIN REVERSE_BITS_INDEX128 = 1 .. 128
      BY DEF REVERSE_BITS_INDEX128
    <2>2. \A n \in 1 .. 128 : REVERSE_BITS_INDEX128[n] \in 0 .. 127
      BY SMTT(60) DEF REVERSE_BITS_INDEX128
    <2>3. REVERSE_BITS_INDEX128 = [n \in 1 .. 128 |-> REVERSE_BITS_INDEX128[n]]
      BY SMTT(60) DEF REVERSE_BITS_INDEX128
    <2>4. REVERSE_BITS_INDEX128 \in [1 .. 128 -> 0 .. 127]
      BY <2>2, <2>3
    <2>5. \A n \in 1 .. 128 : REVERSE_BITS_INDEX128[REVERSE_BITS_INDEX128[n] + 1] = n - 1
      BY SMTT(100) DEF REVERSE_BITS_INDEX128
    <2>6. ReverseBitsIndex(L) = REVERSE_BITS_INDEX128
      BY <1>6 DEF ReverseBitsIndex
    <2>7. L - 1 = 127
      BY <1>6
    <2> QED
      BY <1>6, <2>4, <2>5, <2>6, <2>7, Zenon
  <1> QED
    BY <1>1, <1>2, <1>3, <1>4, <1>5, <1>6 DEF Sizes

\* The bit-reversed order gives every link the same number of slots.
LEMMA ReversedHonoursShares ==
    ASSUME NEW L \in Sizes, NEW inorder \in Seq(Cids), Len(inorder) = L
    PROVE  /\ ReversedCidVector(L, inorder) \in Seq(Cids)
           /\ Len(ReversedCidVector(L, inorder)) = L
           /\ \A cid : Count(ReversedCidVector(L, inorder), cid) = Count(inorder, cid)
  <1> DEFINE f == [n \in 1 .. L |-> ReverseBitsIndex(L)[n] + 1]
  <1> DEFINE t == ReversedCidVector(L, inorder)
  <1>1. L \in Nat
    BY DEF Sizes
  <1>2. \A n \in 1 .. L : ReverseBitsIndex(L)[n] \in 0 .. (L - 1)
    BY TablesArePermutations
  <1>3. f \in [1 .. L -> 1 .. L]
    BY <1>1, <1>2
  <1>4. \A n \in 1 .. L : f[f[n]] = n
    <2> TAKE n \in 1 .. L
    <2>1. f[n] = ReverseBitsIndex(L)[n] + 1 /\ f[n] \in 1 .. L
      BY <1>3
    <2>2. f[f[n]] = ReverseBitsIndex(L)[ReverseBitsIndex(L)[n] + 1] + 1
      BY <2>1
    <2>3. ReverseBitsIndex(L)[ReverseBitsIndex(L)[n] + 1] = n - 1
      BY TablesArePermutations
    <2> QED
      BY <2>2, <2>3
  <1>5. t = [n \in 1 .. L |-> inorder[f[n]]]
    BY DEF ReversedCidVector
  <1> HIDE DEF f, t
  <1>6. t \in Seq(Cids) /\ Len(t) = L /\ DOMAIN t = 1 .. L
    BY <1>1, <1>3, <1>5
  <1>7. DOMAIN inorder = 1 .. L
    OBVIOUS
  <1>8. ASSUME NEW cid PROVE Count(t, cid) = Count(inorder, cid)
    <2>1. \A x, y \in DOMAIN t : f[x] = f[y] => x = y
      BY <1>4, <1>6
    <2>2. \A m \in DOMAIN inorder : \E x \in DOMAIN t : f[x] = m
      BY <1>3, <1>4, <1>6, <1>7
    <2>3. \A n \in DOMAIN t : t[n] = inorder[f[n]]
      BY <1>5, <1>6
    <2>4. f \in [DOMAIN t -> DOMAIN inorder]
      BY <1>3, <1>6, <1>7
    <2>5. Reordered(t, inorder)
      BY <2>1, <2>2, <2>3, <2>4 DEF Reordered
    <2> QED
      BY <1>6, <2>5, CountReordered
  <1> QED
    BY <1>6, <1>8 DEF t

-----------------------------------------------------------------------------
(***************************************************************************)
(* A vector without one cid.                                               *)
(***************************************************************************)

\* The cids that remain are the others, and every slot is either kept or of the cid.
LEMMA WithoutOneCid ==
    ASSUME NEW S, NEW cids \in Seq(S), NEW cid
    PROVE  /\ Without(cids, cid) \in Seq(S)
           /\ ToSet(Without(cids, cid)) = ToSet(cids) \ {cid}
           /\ Len(Without(cids, cid)) = Len(cids) - Count(cids, cid)
  <1> DEFINE F == Filtered(cids, cid)
  <1> DEFINE Dropped(m) == {j \in 1 .. m : cids[j] = cid}
  <1> DEFINE Kept(m) ==
        /\ F[m] \in Seq(S)
        /\ ToSet(F[m]) = {cids[j] : j \in 1 .. m} \ {cid}
        /\ IsFiniteSet(Dropped(m))
        /\ Len(F[m]) = m - Cardinality(Dropped(m))
  <1> DEFINE P == {m \in 0 .. Len(cids) : Kept(m)}
  <1>1. Len(cids) \in Nat /\ DOMAIN cids = 1 .. Len(cids)
    OBVIOUS
  <1>2. 0 \in P
    <2>1. F[0] = << >>
      BY <1>1, FilteredRounds
    <2>2. ToSet(<< >>) = {} /\ {cids[j] : j \in 1 .. 0} = {} /\ Dropped(0) = {}
      BY DEF ToSet
    <2>3. IsFiniteSet({}) /\ Cardinality({}) = 0
      BY FS_EmptySet
    <2>4. << >> \in Seq(S) /\ Len(<< >>) = 0
      OBVIOUS
    <2> HIDE DEF F, Dropped
    <2>5. Kept(0)
      <3>1. ToSet(F[0]) = {cids[j] : j \in 1 .. 0} \ {cid}
        BY <2>1, <2>2
      <3>2. Len(F[0]) = 0 - Cardinality(Dropped(0))
        <4>1. Len(F[0]) = 0 /\ Cardinality(Dropped(0)) = 0
          BY <2>1, <2>2, <2>3, <2>4, Zenon
        <4> QED
          BY <4>1
      <3> QED
        BY <2>1, <2>2, <2>3, <2>4, <3>1, <3>2
    <2> QED
      BY <1>1, <2>5
  <1>3. ASSUME NEW m \in 0 .. Len(cids), m \in P, m < Len(cids) PROVE m + 1 \in P
    <2>1. m + 1 \in 0 .. Len(cids) /\ m + 1 # 0 /\ (m + 1) - 1 = m /\ m \in Nat
      BY <1>1, <1>3
    <2>2. F[m + 1] = IF cids[m + 1] = cid THEN F[m] ELSE Append(F[m], cids[m + 1])
      BY <1>1, <2>1, FilteredRounds
    <2>3. Kept(m)
      BY <1>3
    <2>4. cids[m + 1] \in S
      BY <1>1, <2>1
    <2>5. 1 .. (m + 1) = (1 .. m) \cup {m + 1}
      BY <2>1
    <2>6. {cids[j] : j \in 1 .. (m + 1)} = {cids[j] : j \in 1 .. m} \cup {cids[m + 1]}
      BY <2>5
    <2>7. Cardinality(Dropped(m)) \in Nat
      <3>1. IsFiniteSet(Dropped(m))
        BY <2>3
      <3> HIDE DEF Dropped
      <3> QED
        BY <3>1, FS_CardinalityType
    <2>8. CASE cids[m + 1] = cid
      <3>1. Dropped(m + 1) = Dropped(m) \cup {m + 1} /\ m + 1 \notin Dropped(m)
        BY <2>1, <2>5, <2>8
      <3>2. F[m + 1] = F[m]
        BY <2>2, <2>8
      <3>3. ToSet(F[m + 1]) = {cids[j] : j \in 1 .. (m + 1)} \ {cid}
        BY <2>3, <2>6, <2>8, <3>2
      <3> HIDE DEF F, Dropped
      <3>4. IsFiniteSet(Dropped(m + 1)) /\ Cardinality(Dropped(m + 1)) = Cardinality(Dropped(m)) + 1
        BY <2>3, <3>1, FS_AddElement
      <3>5. Len(F[m + 1]) = (m + 1) - Cardinality(Dropped(m + 1))
        BY <2>1, <2>3, <2>7, <3>2, <3>4
      <3>6. Kept(m + 1)
        BY <2>3, <3>2, <3>3, <3>4, <3>5
      <3> QED
        BY <2>1, <3>6
    <2>9. CASE cids[m + 1] # cid
      <3>1. Dropped(m + 1) = Dropped(m)
        BY <2>1, <2>5, <2>9
      <3>2. F[m + 1] = Append(F[m], cids[m + 1])
        BY <2>2, <2>9
      <3>3. F[m] \in Seq(S)
        BY <2>3
      <3> HIDE DEF F, Dropped
      <3>4. F[m + 1] \in Seq(S) /\ Len(F[m + 1]) = Len(F[m]) + 1
        BY <2>4, <3>2, <3>3
      <3>5. ToSet(F[m + 1]) = ToSet(F[m]) \cup {cids[m + 1]}
        <4>1. PICK s, x : s = F[m] /\ x = cids[m + 1]
          OBVIOUS
        <4>2. s \in Seq(S) /\ x \in S
          BY <2>4, <3>3, <4>1
        <4>3. \A y : (\E j \in DOMAIN Append(s, x) : Append(s, x)[j] = y)
                       <=> (\E j \in DOMAIN s : s[j] = y) \/ y = x
          <5>1. Len(s) \in Nat /\ DOMAIN s = 1 .. Len(s)
            BY <4>2
          <5>2. DOMAIN Append(s, x) = (1 .. Len(s)) \cup {Len(s) + 1}
            BY <4>2, <5>1
          <5>3. \A j \in 1 .. Len(s) : Append(s, x)[j] = s[j]
            BY <4>2, <5>1
          <5>4. Append(s, x)[Len(s) + 1] = x
            BY <4>2, <5>1
          <5> QED
            BY <5>1, <5>2, <5>3, <5>4, Zenon
        <4>4. ToSet(Append(s, x)) = ToSet(s) \cup {x}
          BY <4>3 DEF ToSet
        <4> QED
          BY <3>2, <4>1, <4>4
      <3>6. ToSet(F[m + 1]) = {cids[j] : j \in 1 .. (m + 1)} \ {cid}
        BY <2>3, <2>6, <2>9, <3>5
      <3>7. Len(F[m + 1]) = (m + 1) - Cardinality(Dropped(m + 1))
        BY <2>1, <2>3, <2>7, <3>1, <3>4
      <3>8. Kept(m + 1)
        BY <2>3, <3>1, <3>4, <3>6, <3>7
      <3> QED
        BY <2>1, <3>8
    <2> QED
      BY <2>8, <2>9
  <1>4. P = 0 .. Len(cids)
    <2>1. P \in SUBSET (0 .. Len(cids))
      OBVIOUS
    <2> HIDE DEF P
    <2> QED
      BY <1>1, <1>2, <1>3, <2>1, Rounds
  <1>5. Len(cids) \in P
    <2> HIDE DEF P
    <2> QED
      BY <1>1, <1>4
  <1>6. Kept(Len(cids))
    BY <1>5
  <1>7. ToSet(cids) = {cids[j] : j \in 1 .. Len(cids)}
    BY <1>1 DEF ToSet
  <1>8. Count(cids, cid) = Cardinality(Dropped(Len(cids)))
    BY <1>1 DEF Count
  <1> HIDE DEF Dropped
  <1> QED
    BY <1>6, <1>7, <1>8 DEF Without

-----------------------------------------------------------------------------
(***************************************************************************)
(* The invariant.                                                          *)
(***************************************************************************)

\* Slot p of the burst, counted round the end of the burst.
Wrapped(p) == IF p > 0 THEN p ELSE p + m_paramL

\* The picks since the TSU, at most a burst of them, are the slots before the next one.
PicksAreLastSlots ==
    /\ picks \in Seq(Cids)
    /\ Len(picks) <= m_paramL
    /\ \A n \in DOMAIN picks :
          picks[n] = m_cidVector[Wrapped(m_splittingIndex - (Len(picks) - n))]

\* The slots of a burst are the shares of the last TSU, laid out and bit-reversed.
BurstIsLaidOut ==
    m_paramL > 1 => /\ share \in [DOMAIN CidList -> Nat]
                    /\ Len(InorderCidVector(share)) = m_paramL
                    /\ m_cidVector = ReversedCidVector(m_paramL, InorderCidVector(share))

\* A steering controller sends no TSU with a burst.
SteeringHasNoBurst == steering => m_paramL \in {0, 1}

Inv == TypeOK /\ PicksAreLastSlots /\ BurstIsLaidOut /\ SteeringHasNoBurst

LEMMA ParamIsNat ==
    ASSUME TypeOK
    PROVE  m_paramL \in Nat /\ m_paramL \in {0, 1} \cup Sizes
  BY BurstAssumption DEF TypeOK, Sizes

LEMMA ShareTypes ==
    ASSUME NEW L, NEW K \in Shares(L)
    PROVE  K \in [DOMAIN CidList -> Nat]
  <1>1. CASE L = 1
    BY <1>1 DEF Shares
  <1>2. CASE L # 1
    <2>1. K \in [DOMAIN CidList -> ShareValues]
      BY <1>2 DEF Shares
    <2>2. \A k \in ShareValues : k \in Nat
      BY ShareAssumption
    <2> QED
      BY <2>1, <2>2
  <1> QED
    BY <1>1, <1>2

\* A steering TSU names some link, and its primary link is one it names.
LEMMA PrimaryIsNamed ==
    ASSUME NEW K \in Shares(1)
    PROVE  /\ InorderCidVector(K) \in Seq(Cids)
           /\ InorderCidVector(K) # << >>
           /\ \E n \in DOMAIN InorderCidVector(K) :
                 SteerPrimary(InorderCidVector(K)) = InorderCidVector(K)[n]
           /\ SteerPrimary(InorderCidVector(K)) \in Cids
  <1> DEFINE inorder == InorderCidVector(K)
  <1>1. K \in [DOMAIN CidList -> Nat]
    BY ShareTypes
  <1>2. inorder \in Seq(Cids) /\ \A i \in DOMAIN CidList : Count(inorder, CidList[i]) = K[i]
    BY <1>1, InorderHonoursShares
  <1>3. PICK i \in DOMAIN CidList : K[i] = 1
    BY DEF Shares
  <1>4. SlotsOf(inorder, CidList[i]) # {}
    <2>1. Cardinality(SlotsOf(inorder, CidList[i])) = 1
      BY <1>2, <1>3, SlotsFinite
    <2>2. Cardinality({}) = 0
      BY FS_EmptySet
    <2> QED
      BY <2>1, <2>2
  <1> HIDE DEF inorder
  <1>5. 1 \in DOMAIN inorder /\ inorder # << >>
    BY <1>2, <1>4 DEF SlotsOf
  <1>6. \E n \in DOMAIN inorder : SteerPrimary(inorder) = inorder[n]
    BY <1>2, <1>5 DEF SteerPrimary, Contains
  <1>7. SteerPrimary(inorder) \in Cids
    BY <1>2, <1>6
  <1> QED
    BY <1>2, <1>5, <1>6, <1>7 DEF inorder

LEMMA SteerTsuStep ==
    ASSUME Inv, NEW K \in Shares(1), RcvTsu(1, K)
    PROVE  Inv'
  <1> DEFINE inorder == InorderCidVector(K)
  <1> DEFINE primary == SteerPrimary(inorder)
  <1>1. inorder \in Seq(Cids) /\ primary \in Cids
    BY PrimaryIsNamed
  <1>2. /\ m_paramL' = 1 /\ m_splittingIndex' = 0 /\ picks' = << >> /\ stopEvents' = stopEvents
        /\ m_cidVector' = <<primary>> /\ m_cidDupVector' = Without(inorder, primary)
    BY DEF RcvTsu, RcvCtrlMsg
  <1> HIDE DEF inorder, primary
  <1>3. m_cidDupVector' \in Seq(Cids)
    BY <1>1, <1>2, WithoutOneCid
  <1>4. m_cidVector' \in Seq(Cids) /\ Len(m_cidVector') = 1
    BY <1>1, <1>2
  <1>5. TypeOK'
    BY <1>2, <1>3, <1>4 DEF Inv, TypeOK
  <1>6. PicksAreLastSlots'
    BY <1>2 DEF PicksAreLastSlots
  <1>7. BurstIsLaidOut' /\ SteeringHasNoBurst'
    BY <1>2 DEF BurstIsLaidOut, SteeringHasNoBurst
  <1> QED
    BY <1>5, <1>6, <1>7 DEF Inv

LEMMA SplitTsuStep ==
    ASSUME Inv, NEW L \in Bursts, NEW K \in Shares(L), RcvTsu(L, K)
    PROVE  Inv'
  <1> DEFINE inorder == InorderCidVector(K)
  <1>1. L \in Sizes /\ L # 1 /\ L \in Nat
    BY BurstAssumption DEF Sizes
  <1>2. K \in [DOMAIN CidList -> Nat] /\ inorder \in Seq(Cids)
    BY ShareTypes, InorderHonoursShares
  <1>3. /\ m_paramL' = L /\ m_splittingIndex' = 0 /\ picks' = << >> /\ stopEvents' = stopEvents
        /\ m_cidVector' = ReversedCidVector(L, inorder) /\ m_cidDupVector' = m_cidDupVector
        /\ share' = K /\ Len(inorder) = L /\ steering' = steering
    BY <1>1 DEF RcvTsu, RcvCtrlMsg
  <1>4. ~ steering
    BY <1>1 DEF RcvTsu, RcvCtrlMsg
  <1>5. BurstIsLaidOut'
    BY <1>2, <1>3 DEF BurstIsLaidOut
  <1> HIDE DEF inorder
  <1>6. m_cidVector' \in Seq(Cids) /\ Len(m_cidVector') = L
    BY <1>1, <1>2, <1>3, ReversedHonoursShares
  <1>7. TypeOK'
    BY <1>3, <1>6 DEF Inv, TypeOK
  <1>8. PicksAreLastSlots'
    BY <1>1, <1>3 DEF PicksAreLastSlots
  <1>9. SteeringHasNoBurst'
    BY <1>3, <1>4 DEF SteeringHasNoBurst
  <1> QED
    BY <1>7, <1>8, <1>5, <1>9 DEF Inv

LEMMA PickStep ==
    ASSUME Inv, GetNextCidFromTsu
    PROVE  Inv'
  <1> DEFINE full == Len(picks) = m_paramL
  <1> DEFINE kept == IF full THEN Tail(picks) ELSE picks
  <1>1. TypeOK /\ m_paramL \in Nat
    BY ParamIsNat DEF Inv
  <1>2. /\ m_cidVector # << >> /\ m_splittingIndex' = NextIndex
        /\ m_cidVector' = m_cidVector /\ m_cidDupVector' = m_cidDupVector /\ m_paramL' = m_paramL
        /\ stopEvents' = stopEvents /\ steering' = steering /\ share' = share
        /\ picks' = Append(kept, CurrentSlot)
    BY DEF GetNextCidFromTsu, AdvanceIndex
  <1>3. m_cidVector \in Seq(Cids) /\ Len(m_cidVector) = m_paramL /\ m_splittingIndex \in Nat
    BY <1>1 DEF TypeOK
  <1>4. m_paramL > 0 /\ m_splittingIndex < m_paramL
    BY <1>1, <1>2, <1>3 DEF TypeOK
  <1>5. m_splittingIndex' = IF m_splittingIndex + 1 = m_paramL THEN 0 ELSE m_splittingIndex + 1
    BY <1>1, <1>2, <1>3, <1>4 DEF NextIndex
  <1>6. TypeOK'
    <2>1. m_splittingIndex' \in Nat /\ (m_splittingIndex' = 0 \/ m_splittingIndex' < m_paramL)
      BY <1>1, <1>3, <1>4, <1>5
    <2> QED
      BY <1>1, <1>2, <2>1 DEF TypeOK
  <1>7. /\ picks \in Seq(Cids) /\ Len(picks) <= m_paramL
        /\ \A n \in DOMAIN picks :
              picks[n] = m_cidVector[Wrapped(m_splittingIndex - (Len(picks) - n))]
    BY DEF Inv, PicksAreLastSlots
  <1>8. /\ kept \in Seq(Cids) /\ Len(kept) < m_paramL
        /\ \A n \in DOMAIN kept :
              kept[n] = m_cidVector[Wrapped(m_splittingIndex - (Len(kept) - n))]
    <2>1. CASE ~ full
      BY <1>1, <1>7, <2>1
    <2>2. CASE full
      <3>1. picks # << >>
        BY <1>4, <1>7, <2>2
      <3>2. kept \in Seq(Cids) /\ Len(kept) = Len(picks) - 1
        BY <1>7, <2>2, <3>1
      <3>3. ASSUME NEW n \in DOMAIN kept
            PROVE  kept[n] = m_cidVector[Wrapped(m_splittingIndex - (Len(kept) - n))]
        <4>1. n \in Int /\ n + 1 \in DOMAIN picks /\ kept[n] = picks[n + 1]
          BY <1>7, <2>2, <3>1, <3>2
        <4>2. Len(picks) - (n + 1) = Len(kept) - n
          BY <1>7, <3>2, <4>1
        <4> HIDE DEF kept
        <4> QED
          BY <1>7, <4>1, <4>2
      <3> HIDE DEF kept
      <3> QED
        BY <1>1, <1>7, <2>2, <3>2, <3>3
    <2> QED
      BY <2>1, <2>2
  <1> HIDE DEF kept
  <1>9. CurrentSlot \in Cids
    BY <1>3, <1>4 DEF CurrentSlot
  <1>10. picks' \in Seq(Cids) /\ Len(picks') = Len(kept) + 1 /\ DOMAIN picks' = 1 .. (Len(kept) + 1)
    BY <1>2, <1>8, <1>9
  <1>11. ASSUME NEW n \in DOMAIN picks'
         PROVE  picks'[n] = m_cidVector'[Wrapped(m_splittingIndex - (Len(picks) - n))']
    <2>1. n \in Int /\ 1 <= n /\ n <= Len(kept) + 1 /\ Len(kept) \in Nat
      BY <1>8, <1>10
    <2>2. PICK p : p = m_splittingIndex' - (Len(picks') - n)
      OBVIOUS
    <2>3. p = m_splittingIndex' - (Len(kept) + 1 - n)
      BY <1>10, <2>2
    <2>int. m_splittingIndex' \in Int /\ m_splittingIndex \in Int /\ m_paramL \in Int /\ p \in Int
      BY <1>1, <1>3, <1>5, <2>1, <2>3
    <2>4. Wrapped(m_splittingIndex - (Len(picks) - n))' = IF p > 0 THEN p ELSE p + m_paramL
      BY <1>2, <2>2 DEF Wrapped
    <2>5. CASE n = Len(kept) + 1
      <3>1. picks'[n] = m_cidVector[m_splittingIndex + 1]
        BY <1>2, <1>8, <1>9, <2>5 DEF CurrentSlot
      <3>2. (IF p > 0 THEN p ELSE p + m_paramL) = m_splittingIndex + 1
        <4>1. p = m_splittingIndex'
          BY <2>int, <2>1, <2>3, <2>5
        <4> QED
          BY <1>3, <1>4, <1>5, <2>int, <4>1
      <3> QED
        BY <1>2, <2>4, <3>1, <3>2
    <2>6. CASE n <= Len(kept)
      <3>1. n \in DOMAIN kept
        BY <1>8, <2>1, <2>6
      <3>2. picks'[n] = kept[n]
        BY <1>2, <1>8, <1>9, <3>1
      <3>3. kept[n] = m_cidVector[Wrapped(m_splittingIndex - (Len(kept) - n))]
        BY <1>8, <3>1
      <3>4. (IF p > 0 THEN p ELSE p + m_paramL) = Wrapped(m_splittingIndex - (Len(kept) - n))
        <4>1. PICK q \in Int : q = m_splittingIndex - (Len(kept) - n)
          BY <2>int, <2>1
        <4>2. q > -m_paramL /\ q <= m_splittingIndex
          BY <1>3, <1>8, <2>int, <2>1, <2>6, <4>1
        <4>3. p = IF m_splittingIndex + 1 = m_paramL THEN q - m_paramL ELSE q
          BY <1>5, <2>int, <2>1, <2>3, <4>1
        <4>4. q <= 0 => m_splittingIndex + 1 # m_paramL
          BY <1>3, <1>8, <2>int, <2>1, <2>6, <4>1
        <4>5. (IF p > 0 THEN p ELSE p + m_paramL) = IF q > 0 THEN q ELSE q + m_paramL
          BY <1>4, <2>int, <4>2, <4>3, <4>4
        <4> QED
          BY <4>1, <4>5 DEF Wrapped
      <3> QED
        BY <1>2, <2>4, <3>2, <3>3, <3>4
    <2> QED
      BY <2>1, <2>5, <2>6
  <1>12. PicksAreLastSlots'
    <2>1. Len(picks') <= m_paramL'
      BY <1>1, <1>2, <1>8, <1>10
    <2> QED
      BY <1>10, <1>11, <2>1 DEF PicksAreLastSlots
  <1>13. BurstIsLaidOut' /\ SteeringHasNoBurst'
    BY <1>2 DEF Inv, BurstIsLaidOut, SteeringHasNoBurst
  <1> QED
    BY <1>6, <1>12, <1>13 DEF Inv

\* The QoS tests touch the duplicates only.
LEMMA QosStep ==
    ASSUME Inv, UNCHANGED <<share, picks>>,
           (\E cid \in Cids : StartQosTesting(cid)) \/ StopQosTesting
    PROVE  Inv'
  <1>1. /\ m_cidVector' = m_cidVector /\ m_paramL' = m_paramL
        /\ m_splittingIndex' = m_splittingIndex /\ steering' = steering
    BY DEF StartQosTesting, StopQosTesting
  <1>2. m_cidDupVector' \in Seq(Cids) /\ stopEvents' \in Seq(Cids)
    <2>1. ASSUME NEW cid \in Cids, StartQosTesting(cid)
          PROVE  m_cidDupVector' \in Seq(Cids) /\ stopEvents' \in Seq(Cids)
      BY <2>1 DEF StartQosTesting, Inv, TypeOK
    <2>2. CASE StopQosTesting
      <3>1. stopEvents' \in Seq(Cids)
        BY <2>2 DEF StopQosTesting, Inv, TypeOK
      <3>2. m_cidDupVector' = Without(m_cidDupVector, Head(stopEvents)) /\ m_cidDupVector \in Seq(Cids)
        BY <2>2 DEF StopQosTesting, Inv, TypeOK
      <3> QED
        BY <3>1, <3>2, WithoutOneCid
    <2> QED
      BY <2>1, <2>2
  <1>3. TypeOK'
    BY <1>1, <1>2 DEF Inv, TypeOK
  <1>4. PicksAreLastSlots'
    BY <1>1 DEF Inv, PicksAreLastSlots, Wrapped
  <1>5. BurstIsLaidOut' /\ SteeringHasNoBurst'
    BY <1>1 DEF Inv, BurstIsLaidOut, SteeringHasNoBurst
  <1> QED
    BY <1>3, <1>4, <1>5 DEF Inv

LEMMA InvHolds == Spec => []Inv
  <1>1. Init => Inv
    <2> SUFFICES ASSUME Init PROVE Inv
      OBVIOUS
    <2>1. TypeOK
      BY DEF Init, TxInit, TypeOK
    <2>2. PicksAreLastSlots /\ BurstIsLaidOut /\ SteeringHasNoBurst
      BY DEF Init, TxInit, PicksAreLastSlots, BurstIsLaidOut, SteeringHasNoBurst
    <2> QED
      BY <2>1, <2>2 DEF Inv
  <1>2. Inv /\ [Next]_vars => Inv'
    <2> SUFFICES ASSUME Inv, [Next]_vars PROVE Inv'
      OBVIOUS
    <2>1. ASSUME NEW L \in Bursts \cup {1}, NEW K \in Shares(L), RcvTsu(L, K)
          PROVE  Inv'
      <3>1. CASE L = 1
        BY <2>1, <3>1, SteerTsuStep
      <3>2. CASE L \in Bursts
        BY <2>1, <3>2, SplitTsuStep
      <3> QED
        BY <3>1, <3>2
    <2>2. CASE GetNextCidFromTsu
      BY <2>2, PickStep
    <2>3. ASSUME NEW cid \in Cids, StartQosTesting(cid) /\ UNCHANGED <<share, picks>>
          PROVE  Inv'
      BY <2>3, QosStep
    <2>4. CASE StopQosTesting /\ UNCHANGED <<share, picks>>
      BY <2>4, QosStep
    <2>5. CASE UNCHANGED vars
      BY <2>5 DEF vars, txVars, Inv, TypeOK, PicksAreLastSlots, Wrapped, BurstIsLaidOut, SteeringHasNoBurst
    <2> QED
      BY <2>1, <2>2, <2>3, <2>4, <2>5 DEF Next
  <1> QED
    BY <1>1, <1>2, PTL DEF Spec

\* Every read of m_cidVector is in range: there are as many slots as the burst has, and the
\* index of the next pick is one of them; only configured links are ever used.
THEOREM TypeCorrect == Spec => []TypeOK
  <1>1. Inv => TypeOK
    BY DEF Inv
  <1> QED
    BY <1>1, InvHolds, PTL

\* A window of picks reads the whole burst, from some slot on.
LEMMA WindowIsBurst ==
    ASSUME Inv, Len(picks) = m_paramL
    PROVE  Reordered(picks, m_cidVector)
  <1> DEFINE L == m_paramL
  <1> DEFINE f == [n \in 1 .. L |-> Wrapped(m_splittingIndex - (L - n))]
  <1>1. /\ L \in Nat /\ m_splittingIndex \in Nat /\ m_cidVector \in Seq(Cids)
        /\ Len(m_cidVector) = L /\ picks \in Seq(Cids)
    BY ParamIsNat DEF Inv, TypeOK, PicksAreLastSlots
  <1>2. m_splittingIndex = 0 \/ m_splittingIndex < L
    BY DEF Inv, TypeOK
  <1>3. DOMAIN picks = 1 .. L /\ DOMAIN m_cidVector = 1 .. L
    BY <1>1
  <1>4. \A n \in 1 .. L : f[n] = IF n > L - m_splittingIndex THEN n - (L - m_splittingIndex)
                                 ELSE n + m_splittingIndex
    BY <1>1 DEF Wrapped
  <1> HIDE DEF f
  <1>5. f = [n \in 1 .. L |-> f[n]]
    BY DEF f
  <1>6. \A n \in 1 .. L : f[n] \in 1 .. L
    BY <1>1, <1>2, <1>4
  <1>7. f \in [1 .. L -> 1 .. L]
    BY <1>5, <1>6
  <1>8. \A x, y \in 1 .. L : f[x] = f[y] => x = y
    BY <1>1, <1>2, <1>4
  <1>9. \A m \in 1 .. L : \E x \in 1 .. L : f[x] = m
    <2> TAKE m \in 1 .. L
    <2>1. CASE m <= m_splittingIndex
      <3>1. m + (L - m_splittingIndex) \in 1 .. L
        BY <1>1, <1>2, <2>1
      <3>2. f[m + (L - m_splittingIndex)] = m
        BY <1>1, <1>2, <1>4, <2>1, <3>1
      <3> QED
        BY <3>1, <3>2
    <2>2. CASE m > m_splittingIndex
      <3>1. m - m_splittingIndex \in 1 .. L
        BY <1>1, <1>2, <2>2
      <3>2. f[m - m_splittingIndex] = m
        BY <1>1, <1>2, <1>4, <2>2, <3>1
      <3> QED
        BY <3>1, <3>2
    <2> QED
      BY <1>1, <2>1, <2>2
  <1>10. \A n \in 1 .. L : picks[n] = m_cidVector[f[n]]
    BY <1>3 DEF Inv, PicksAreLastSlots, f
  <1> HIDE DEF L
  <1>11. f \in [DOMAIN picks -> DOMAIN m_cidVector]
    BY <1>3, <1>7
  <1>12. \A x, y \in DOMAIN picks : f[x] = f[y] => x = y
    BY <1>3, <1>8
  <1>13. \A m \in DOMAIN m_cidVector : \E x \in DOMAIN picks : f[x] = m
    BY <1>3, <1>9
  <1>14. \A n \in DOMAIN picks : picks[n] = m_cidVector[f[n]]
    BY <1>3, <1>10
  <1> QED
    BY <1>11, <1>12, <1>13, <1>14 DEF Reordered

\* In split mode any m_paramL consecutive picks of GetNextCidFromTsu give every link exactly the
\* share of the TSU, for any number of links, any shares and every burst size of the code.
THEOREM SharesAreHonoured == Spec => []EveryWindowHonoursShares
  <1>1. Inv => EveryWindowHonoursShares
    <2> SUFFICES ASSUME Inv, m_paramL > 1, Len(picks) = m_paramL, NEW i \in DOMAIN CidList
                 PROVE  Count(picks, CidList[i]) = share[i]
      BY DEF EveryWindowHonoursShares
    <2>1. Reordered(picks, m_cidVector)
      BY WindowIsBurst
    <2>2. m_cidVector \in Seq(Cids) /\ picks \in Seq(Cids)
      BY DEF Inv, TypeOK, PicksAreLastSlots
    <2>3. Count(picks, CidList[i]) = Count(m_cidVector, CidList[i])
      BY <2>1, <2>2, CountReordered
    <2>4. /\ m_paramL \in Sizes /\ share \in [DOMAIN CidList -> Nat]
          /\ Len(InorderCidVector(share)) = m_paramL
          /\ m_cidVector = ReversedCidVector(m_paramL, InorderCidVector(share))
      BY ParamIsNat DEF Inv, BurstIsLaidOut
    <2>5. InorderCidVector(share) \in Seq(Cids) /\ Count(InorderCidVector(share), CidList[i]) = share[i]
      BY <2>4, InorderHonoursShares
    <2>6. Count(m_cidVector, CidList[i]) = Count(InorderCidVector(share), CidList[i])
      BY <2>4, <2>5, ReversedHonoursShares
    <2> QED
      BY <2>3, <2>5, <2>6
  <1> QED
    BY <1>1, InvHolds, PTL

-----------------------------------------------------------------------------
(***************************************************************************)
(* Steering.                                                               *)
(***************************************************************************)
Named(K) == {CidList[i] : i \in {j \in DOMAIN CidList : K[j] = 1}}

\* A steering TSU lays out every link it names, once.
LEMMA NamedOnce ==
    ASSUME NEW K \in Shares(1)
    PROVE  /\ ToSet(InorderCidVector(K)) = Named(K)
           /\ Len(InorderCidVector(K)) = Cardinality(Named(K))
           /\ \A cid \in Named(K) : Count(InorderCidVector(K), cid) = 1
  <1> DEFINE s == InorderCidVector(K)
  <1>1. K \in [DOMAIN CidList -> Nat] /\ K \in [DOMAIN CidList -> {0, 1}]
    BY ShareTypes DEF Shares
  <1>2. s \in Seq(Cids) /\ \A i \in DOMAIN CidList : Count(s, CidList[i]) = K[i]
    BY <1>1, InorderHonoursShares
  <1> HIDE DEF s
  <1>3. DOMAIN s = 1 .. Len(s) /\ Len(s) \in Nat
    BY <1>2
  <1>4. \A cid \in Named(K) : Count(s, cid) = 1
    BY <1>2 DEF Named
  <1>5. \A n \in DOMAIN s : s[n] \in Named(K)
    <2> TAKE n \in DOMAIN s
    <2>1. PICK i \in DOMAIN CidList : s[n] = CidList[i]
      BY <1>2 DEF Cids
    <2>2. n \in SlotsOf(s, CidList[i])
      BY <2>1 DEF SlotsOf
    <2>3. IsFiniteSet(SlotsOf(s, CidList[i])) /\ Cardinality(SlotsOf(s, CidList[i])) = K[i]
      BY <1>2, SlotsFinite
    <2>4. K[i] # 0
      BY <2>2, <2>3, FS_EmptySet
    <2>5. K[i] = 1
      BY <1>1, <2>4
    <2> QED
      BY <2>1, <2>5 DEF Named
  <1>6. \A cid \in Named(K) : \E n \in DOMAIN s : SlotsOf(s, cid) = {n} /\ s[n] = cid
    <2> TAKE cid \in Named(K)
    <2>1. IsFiniteSet(SlotsOf(s, cid)) /\ Cardinality(SlotsOf(s, cid)) = 1
      BY <1>2, <1>4, SlotsFinite
    <2>2. PICK n : SlotsOf(s, cid) = {n}
      BY <2>1, FS_Singleton
    <2> QED
      BY <2>2 DEF SlotsOf
  <1>7. ToSet(s) = Named(K)
    BY <1>5, <1>6 DEF ToSet
  <1>8. Cardinality(Named(K)) = Len(s)
    <2>1. s \in [1 .. Len(s) -> Named(K)]
      BY <1>2, <1>3, <1>5
    <2>2. \A x, y \in 1 .. Len(s) : s[x] = s[y] => x = y
      BY <1>3, <1>5, <1>6 DEF SlotsOf
    <2>3. \A cid \in Named(K) : \E x \in 1 .. Len(s) : s[x] = cid
      BY <1>3, <1>6
    <2>4. Correspond(1 .. Len(s), Named(K))
      BY <2>1, <2>2, <2>3 DEF Correspond
    <2>5. IsFiniteSet(1 .. Len(s)) /\ Cardinality(1 .. Len(s)) = Len(s)
      <3>1. /\ IsFiniteSet(1 .. Len(s))
            /\ Cardinality(1 .. Len(s)) = IF 1 > Len(s) THEN 0 ELSE Len(s) - 1 + 1
        BY <1>3, FS_Interval, 1 \in Int
      <3> QED
        BY <1>3, <3>1
    <2> QED
      BY <2>4, <2>5, SameSize
  <1> QED
    BY <1>4, <1>7, <1>8 DEF s

\* Steer mode, RcvCtrlMsg: the primary link stays while the TSU names it, and what the TSU
\* names is, each link once, the primary link and the duplicates; for any number of links.
THEOREM SteeringKeepsPrimary == Spec => SteeringIsSticky
  <1> DEFINE Step(K) ==
        /\ \A old \in ToSet(m_cidVector) \cap Named(K) : m_cidVector' = <<old>>
        /\ ToSet(m_cidVector' \o m_cidDupVector') = Named(K)
        /\ Len(m_cidDupVector') + 1 = Cardinality(Named(K))
  <1>1. ASSUME Inv, NEW K \in Shares(1), RcvTsu(1, K)
        PROVE  Step(K)
    <2> DEFINE s == InorderCidVector(K)
    <2> DEFINE primary == SteerPrimary(s)
    <2>1. s \in Seq(Cids) /\ s # << >> /\ (\E n \in DOMAIN s : primary = s[n]) /\ primary \in Cids
      BY PrimaryIsNamed
    <2>2. /\ ToSet(s) = Named(K) /\ Len(s) = Cardinality(Named(K))
          /\ \A cid \in Named(K) : Count(s, cid) = 1
      BY NamedOnce
    <2>3. m_cidVector' = <<primary>> /\ m_cidDupVector' = Without(s, primary) /\ steering
      BY <1>1 DEF RcvTsu, RcvCtrlMsg
    <2>4. m_cidVector \in Seq(Cids) /\ Len(m_cidVector) \in {0, 1}
      BY <1>1, <2>3 DEF Inv, TypeOK, SteeringHasNoBurst
    <2>5. ASSUME NEW old \in ToSet(m_cidVector) \cap Named(K) PROVE primary = old
      <3>1. m_cidVector # << >> /\ old = m_cidVector[1]
        BY <2>4 DEF ToSet
      <3>2. \E n \in 1 .. Len(s) : s[n] = old
        BY <2>1, <2>2 DEF ToSet
      <3> HIDE DEF s
      <3> QED
        BY <3>1, <3>2 DEF SteerPrimary, Contains
    <2> HIDE DEF s, primary
    <2>6. primary \in Named(K)
      BY <2>1, <2>2 DEF ToSet
    <2>7. /\ m_cidDupVector' \in Seq(Cids)
          /\ ToSet(m_cidDupVector') = Named(K) \ {primary}
          /\ Len(m_cidDupVector') = Len(s) - 1
      <3>1. Count(s, primary) = 1
        BY <2>2, <2>6
      <3> QED
        BY <2>1, <2>2, <2>3, <3>1, WithoutOneCid
    <2>8. ToSet(m_cidVector' \o m_cidDupVector') = Named(K)
      <3>1. PICK d : d = m_cidDupVector'
        OBVIOUS
      <3>2. d \in Seq(Cids) /\ ToSet(d) = Named(K) \ {primary}
        BY <2>7, <3>1
      <3>3. PICK v : v = <<primary>>
        OBVIOUS
      <3>4. v \in Seq(Cids) /\ ToSet(v) = {primary}
        BY <2>1, <3>3 DEF ToSet
      <3>5. ToSet(v \o d) = ToSet(v) \cup ToSet(d)
        BY <3>2, <3>4, ToSetConcat
      <3>6. ToSet(v) \cup ToSet(d) = Named(K)
        BY <2>6, <3>2, <3>4
      <3> QED
        BY <2>3, <3>1, <3>3, <3>5, <3>6
    <2>9. Len(m_cidDupVector') + 1 = Cardinality(Named(K))
      BY <2>1, <2>2, <2>7
    <2> QED
      BY <2>3, <2>5, <2>8, <2>9
  <1>2. Inv /\ [Next]_vars => [\A K \in Shares(1) : RcvTsu(1, K) => Step(K)]_vars
    <2> HIDE DEF Step
    <2> QED
      BY <1>1
  <1>3. [\A K \in Shares(1) : RcvTsu(1, K) => Step(K)]_vars
          <=> [\A K \in Shares(1) : RcvTsu(1, K) =>
                 LET named == {CidList[i] : i \in {j \in DOMAIN CidList : K[j] = 1}}
                 IN  /\ \A old \in ToSet(m_cidVector) \cap named : m_cidVector' = <<old>>
                     /\ ToSet(m_cidVector' \o m_cidDupVector') = named
                     /\ Len(m_cidDupVector') + 1 = Cardinality(named)]_vars
    BY DEF Named
  <1> HIDE DEF Step
  <1> QED
    BY <1>2, <1>3, InvHolds, PTL DEF Spec, SteeringIsSticky

-----------------------------------------------------------------------------
(***************************************************************************)
(* The spread of a burst.  A part of a burst takes every q-th of the slots *)
(* that are laid out link by link, where q is the number of parts.         *)
(***************************************************************************)
Powers == {1, 2, 4, 8, 16, 32, 64}

\* Any table entries of one part have the same remainder modulo q, and entries of
\* different parts have not.
Strided(T, L, size, q) ==
    /\ \A n \in 1 .. L : T[n] % q = T[((n - 1) \div size) * size + 1] % q
    /\ \A n \in 1 .. L : T[(T[n] % q) + 1] \div size = (n - 1) \div size

LEMMA TablesAreStrided ==
    ASSUME NEW L \in Sizes, NEW size \in Powers \ {1}, size <= L
    PROVE  \E q \in Powers : L = size * q /\ L \div size = q /\ Strided(ReverseBitsIndex(L), L, size, q)
  <1>1. CASE L = 4
    <2>t. ReverseBitsIndex(L) = REVERSE_BITS_INDEX4
      BY <1>1 DEF ReverseBitsIndex
    <2>1. CASE size = 2
      <3>1. Strided(REVERSE_BITS_INDEX4, 4, 2, 2)
        BY SMTT(60) DEF Strided, REVERSE_BITS_INDEX4
      <3>2. 2 \in Powers /\ L = size * 2 /\ L \div size = 2
        BY <1>1, <2>1 DEF Powers
      <3> QED
        BY <1>1, <2>1, <2>t, <3>1, <3>2
    <2>2. CASE size = 4
      <3>1. Strided(REVERSE_BITS_INDEX4, 4, 4, 1)
        BY SMTT(60) DEF Strided, REVERSE_BITS_INDEX4
      <3>2. 1 \in Powers /\ L = size * 1 /\ L \div size = 1
        BY <1>1, <2>2 DEF Powers
      <3> QED
        BY <1>1, <2>2, <2>t, <3>1, <3>2
    <2> QED
      BY <1>1, <2>1, <2>2 DEF Powers
  <1>2. CASE L = 8
    <2>t. ReverseBitsIndex(L) = REVERSE_BITS_INDEX8
      BY <1>2 DEF ReverseBitsIndex
    <2>1. CASE size = 2
      <3>1. Strided(REVERSE_BITS_INDEX8, 8, 2, 4)
        BY SMTT(60) DEF Strided, REVERSE_BITS_INDEX8
      <3>2. 4 \in Powers /\ L = size * 4 /\ L \div size = 4
        BY <1>2, <2>1 DEF Powers
      <3> QED
        BY <1>2, <2>1, <2>t, <3>1, <3>2
    <2>2. CASE size = 4
      <3>1. Strided(REVERSE_BITS_INDEX8, 8, 4, 2)
        BY SMTT(60) DEF Strided, REVERSE_BITS_INDEX8
      <3>2. 2 \in Powers /\ L = size * 2 /\ L \div size = 2
        BY <1>2, <2>2 DEF Powers
      <3> QED
        BY <1>2, <2>2, <2>t, <3>1, <3>2
    <2>3. CASE size = 8
      <3>1. Strided(REVERSE_BITS_INDEX8, 8, 8, 1)
        BY SMTT(60) DEF Strided, REVERSE_BITS_INDEX8
      <3>2. 1 \in Powers /\ L = size * 1 /\ L \div size = 1
        BY <1>2, <2>3 DEF Powers
      <3> QED
        BY <1>2, <2>3, <2>t, <3>1, <3>2
    <2> QED
      BY <1>2, <2>1, <2>2, <2>3 DEF Powers
  <1>3. CASE L = 16
    <2>t. ReverseBitsIndex(L) = REVERSE_BITS_INDEX16
      BY <1>3 DEF ReverseBitsIndex
    <2>1. CASE size = 2
      <3>1. Strided(REVERSE_BITS_INDEX16, 16, 2, 8)
        BY SMTT(60) DEF Strided, REVERSE_BITS_INDEX16
      <3>2. 8 \in Powers /\ L = size * 8 /\ L \div size = 8
        BY <1>3, <2>1 DEF Powers
      <3> QED
        BY <1>3, <2>1, <2>t, <3>1, <3>2
    <2>2. CASE size = 4
      <3>1. Strided(REVERSE_BITS_INDEX16, 16, 4, 4)
        BY SMTT(60) DEF Strided, REVERSE_BITS_INDEX16
      <3>2. 4 \in Powers /\ L = size * 4 /\ L \div size = 4
        BY <1>3, <2>2 DEF Powers
      <3> QED
        BY <1>3, <2>2, <2>t, <3>1, <3>2
    <2>3. CASE size = 8
      <3>1. Strided(REVERSE_BITS_INDEX16, 16, 8, 2)
        BY SMTT(60) DEF Strided, REVERSE_BITS_INDEX16
      <3>2. 2 \in Powers /\ L = size * 2 /\ L \div size = 2
        BY <1>3, <2>3 DEF Powers
      <3> QED
        BY <1>3, <2>3, <2>t, <3>1, <3>2
    <2>4. CASE size = 16
      <3>1. Strided(REVERSE_BITS_INDEX16, 16, 16, 1)
        BY SMTT(60) DEF Strided, REVERSE_BITS_INDEX16
      <3>2. 1 \in Powers /\ L = size * 1 /\ L \div size = 1
        BY <1>3, <2>4 DEF Powers
      <3> QED
        BY <1>3, <2>4, <2>t, <3>1, <3>2
    <2> QED
      BY <1>3, <2>1, <2>2, <2>3, <2>4 DEF Powers
  <1>4. CASE L = 32
    <2>t. ReverseBitsIndex(L) = REVERSE_BITS_INDEX32
      BY <1>4 DEF ReverseBitsIndex
    <2>1. CASE size = 2
      <3>1. Strided(REVERSE_BITS_INDEX32, 32, 2, 16)
        BY SMTT(60) DEF Strided, REVERSE_BITS_INDEX32
      <3>2. 16 \in Powers /\ L = size * 16 /\ L \div size = 16
        BY <1>4, <2>1 DEF Powers
      <3> QED
        BY <1>4, <2>1, <2>t, <3>1, <3>2
    <2>2. CASE size = 4
      <3>1. Strided(REVERSE_BITS_INDEX32, 32, 4, 8)
        BY SMTT(60) DEF Strided, REVERSE_BITS_INDEX32
      <3>2. 8 \in Powers /\ L = size * 8 /\ L \div size = 8
        BY <1>4, <2>2 DEF Powers
      <3> QED
        BY <1>4, <2>2, <2>t, <3>1, <3>2
    <2>3. CASE size = 8
      <3>1. Strided(REVERSE_BITS_INDEX32, 32, 8, 4)
        BY SMTT(60) DEF Strided, REVERSE_BITS_INDEX32
      <3>2. 4 \in Powers /\ L = size * 4 /\ L \div size = 4
        BY <1>4, <2>3 DEF Powers
      <3> QED
        BY <1>4, <2>3, <2>t, <3>1, <3>2
    <2>4. CASE size = 16
      <3>1. Strided(REVERSE_BITS_INDEX32, 32, 16, 2)
        BY SMTT(60) DEF Strided, REVERSE_BITS_INDEX32
      <3>2. 2 \in Powers /\ L = size * 2 /\ L \div size = 2
        BY <1>4, <2>4 DEF Powers
      <3> QED
        BY <1>4, <2>4, <2>t, <3>1, <3>2
    <2>5. CASE size = 32
      <3>1. Strided(REVERSE_BITS_INDEX32, 32, 32, 1)
        BY SMTT(60) DEF Strided, REVERSE_BITS_INDEX32
      <3>2. 1 \in Powers /\ L = size * 1 /\ L \div size = 1
        BY <1>4, <2>5 DEF Powers
      <3> QED
        BY <1>4, <2>5, <2>t, <3>1, <3>2
    <2> QED
      BY <1>4, <2>1, <2>2, <2>3, <2>4, <2>5 DEF Powers
  <1>5. CASE L = 64
    <2>t. ReverseBitsIndex(L) = REVERSE_BITS_INDEX64
      BY <1>5 DEF ReverseBitsIndex
    <2>1. CASE size = 2
      <3>1. Strided(REVERSE_BITS_INDEX64, 64, 2, 32)
        BY SMTT(60) DEF Strided, REVERSE_BITS_INDEX64
      <3>2. 32 \in Powers /\ L = size * 32 /\ L \div size = 32
        BY <1>5, <2>1 DEF Powers
      <3> QED
        BY <1>5, <2>1, <2>t, <3>1, <3>2
    <2>2. CASE size = 4
      <3>1. Strided(REVERSE_BITS_INDEX64, 64, 4, 16)
        BY SMTT(60) DEF Strided, REVERSE_BITS_INDEX64
      <3>2. 16 \in Powers /\ L = size * 16 /\ L \div size = 16
        BY <1>5, <2>2 DEF Powers
      <3> QED
        BY <1>5, <2>2, <2>t, <3>1, <3>2
    <2>3. CASE size = 8
      <3>1. Strided(REVERSE_BITS_INDEX64, 64, 8, 8)
        BY SMTT(60) DEF Strided, REVERSE_BITS_INDEX64
      <3>2. 8 \in Powers /\ L = size * 8 /\ L \div size = 8
        BY <1>5, <2>3 DEF Powers
      <3> QED
        BY <1>5, <2>3, <2>t, <3>1, <3>2
    <2>4. CASE size = 16
      <3>1. Strided(REVERSE_BITS_INDEX64, 64, 16, 4)
        BY SMTT(60) DEF Strided, REVERSE_BITS_INDEX64
      <3>2. 4 \in Powers /\ L = size * 4 /\ L \div size = 4
        BY <1>5, <2>4 DEF Powers
      <3> QED
        BY <1>5, <2>4, <2>t, <3>1, <3>2
    <2>5. CASE size = 32
      <3>1. Strided(REVERSE_BITS_INDEX64, 64, 32, 2)
        BY SMTT(60) DEF Strided, REVERSE_BITS_INDEX64
      <3>2. 2 \in Powers /\ L = size * 2 /\ L \div size = 2
        BY <1>5, <2>5 DEF Powers
      <3> QED
        BY <1>5, <2>5, <2>t, <3>1, <3>2
    <2>6. CASE size = 64
      <3>1. Strided(REVERSE_BITS_INDEX64, 64, 64, 1)
        BY SMTT(60) DEF Strided, REVERSE_BITS_INDEX64
      <3>2. 1 \in Powers /\ L = size * 1 /\ L \div size = 1
        BY <1>5, <2>6 DEF Powers
      <3> QED
        BY <1>5, <2>6, <2>t, <3>1, <3>2
    <2> QED
      BY <1>5, <2>1, <2>2, <2>3, <2>4, <2>5, <2>6 DEF Powers
  <1>6. CASE L = 128
    <2>t. ReverseBitsIndex(L) = REVERSE_BITS_INDEX128
      BY <1>6 DEF ReverseBitsIndex
    <2>1. CASE size = 2
      <3>1. Strided(REVERSE_BITS_INDEX128, 128, 2, 64)
        BY SMTT(60) DEF Strided, REVERSE_BITS_INDEX128
      <3>2. 64 \in Powers /\ L = size * 64 /\ L \div size = 64
        BY <1>6, <2>1 DEF Powers
      <3> QED
        BY <1>6, <2>1, <2>t, <3>1, <3>2
    <2>2. CASE size = 4
      <3>1. Strided(REVERSE_BITS_INDEX128, 128, 4, 32)
        BY SMTT(60) DEF Strided, REVERSE_BITS_INDEX128
      <3>2. 32 \in Powers /\ L = size * 32 /\ L \div size = 32
        BY <1>6, <2>2 DEF Powers
      <3> QED
        BY <1>6, <2>2, <2>t, <3>1, <3>2
    <2>3. CASE size = 8
      <3>1. Strided(REVERSE_BITS_INDEX128, 128, 8, 16)
        BY SMTT(60) DEF Strided, REVERSE_BITS_INDEX128
      <3>2. 16 \in Powers /\ L = size * 16 /\ L \div size = 16
        BY <1>6, <2>3 DEF Powers
      <3> QED
        BY <1>6, <2>3, <2>t, <3>1, <3>2
    <2>4. CASE size = 16
      <3>1. Strided(REVERSE_BITS_INDEX128, 128, 16, 8)
        BY SMTT(60) DEF Strided, REVERSE_BITS_INDEX128
      <3>2. 8 \in Powers /\ L = size * 8 /\ L \div size = 8
        BY <1>6, <2>4 DEF Powers
      <3> QED
        BY <1>6, <2>4, <2>t, <3>1, <3>2
    <2>5. CASE size = 32
      <3>1. Strided(REVERSE_BITS_INDEX128, 128, 32, 4)
        BY SMTT(60) DEF Strided, REVERSE_BITS_INDEX128
      <3>2. 4 \in Powers /\ L = size * 4 /\ L \div size = 4
        BY <1>6, <2>5 DEF Powers
      <3> QED
        BY <1>6, <2>5, <2>t, <3>1, <3>2
    <2>6. CASE size = 64
      <3>1. Strided(REVERSE_BITS_INDEX128, 128, 64, 2)
        BY SMTT(60) DEF Strided, REVERSE_BITS_INDEX128
      <3>2. 2 \in Powers /\ L = size * 2 /\ L \div size = 2
        BY <1>6, <2>6 DEF Powers
      <3> QED
        BY <1>6, <2>6, <2>t, <3>1, <3>2
    <2> QED
      BY <1>6, <2>1, <2>2, <2>3, <2>4, <2>5, <2>6 DEF Powers
  <1> QED
    BY <1>1, <1>2, <1>3, <1>4, <1>5, <1>6 DEF Sizes

\* Division by a power of two, and where an arithmetic progression passes a number.
LEMMA Division ==
    ASSUME NEW d \in Powers, NEW p \in Nat, NEW k \in 0 .. (d - 1)
    PROVE  (p * d + k) \div d = p /\ (p * d + k) % d = k
  BY DEF Powers

LEMMA DivMod ==
    ASSUME NEW d \in Powers, NEW x \in Nat
    PROVE  x = (x \div d) * d + (x % d) /\ x \div d \in Nat /\ x % d \in 0 .. (d - 1)
  BY DEF Powers

Passes(u, x, q, r) ==
    /\ \A j \in Nat : j * q + r < x <=> j < u
    /\ x - r <= u * q /\ u * q <= x - r + q - 1

LEMMA Progression ==
    ASSUME NEW q \in Powers, NEW r \in 0 .. (q - 1), NEW x \in Nat
    PROVE  \E u \in Nat : Passes(u, x, q, r)
  <1> DEFINE u == IF x <= r THEN 0 ELSE (x - r - 1) \div q + 1
  <1>1. u \in Nat /\ (\A j \in Nat : j * q + r < x <=> j < u)
    BY DEF Powers
  <1>2. x - r <= u * q /\ u * q <= x - r + q - 1
    BY DEF Powers
  <1> QED
    BY <1>1, <1>2 DEF Passes

Members(size, q, r, a, k) == {j \in 0 .. (size - 1) : a <= j * q + r /\ j * q + r < a + k}

\* An interval of k numbers holds k / q numbers of a progression, rounded down or up.
LEMMA ProgressionCount ==
    ASSUME NEW q \in Powers, NEW r \in 0 .. (q - 1), NEW size \in Nat,
           NEW a \in Nat, NEW k \in Nat, a + k <= size * q
    PROVE  LET J == Members(size, q, r, a, k)
           IN  /\ IsFiniteSet(J) /\ Cardinality(J) \in Nat
               /\ Cardinality(J) * q > k - q /\ Cardinality(J) * q < k + q
  <1> DEFINE J == Members(size, q, r, a, k)
  <1>1. PICK u \in Nat : Passes(u, a, q, r)
    BY Progression
  <1>2. PICK v \in Nat : Passes(v, a + k, q, r)
    BY Progression
  <1>3. q \in Nat /\ q > 0 /\ r \in Nat /\ r < q
    BY DEF Powers
  <1>4. v <= size
    <2> SUFFICES ASSUME size < v PROVE FALSE
      BY <1>2
    <2>1. size * q + r < a + k
      BY <1>2 DEF Passes
    <2>2. size * q \in Int
      BY <1>3
    <2> QED
      BY <1>3, <2>1, <2>2
  <1>5. u <= v
    <2> SUFFICES ASSUME v < u PROVE FALSE
      BY <1>1, <1>2
    <2>1. v * q + r < a
      BY <1>1 DEF Passes
    <2>2. ~ (v * q + r < a + k)
      BY <1>2 DEF Passes
    <2> QED
      BY <1>3, <2>1, <2>2 DEF Powers
  <1>6. J = u .. (v - 1)
    <2>1. \A j \in Nat : j * q + r \in Nat
      BY <1>3
    <2>2. \A j \in Nat : a <= j * q + r <=> u <= j
      BY <1>1, <2>1 DEF Passes
    <2>3. \A j \in Nat : j * q + r < a + k <=> j < v
      BY <1>2 DEF Passes
    <2>4. \A j : j \in J <=> j \in Nat /\ j < size /\ u <= j /\ j < v
      BY <2>2, <2>3 DEF Members
    <2> HIDE DEF J
    <2>5. \A j : j \in u .. (v - 1) <=> j \in Nat /\ j < size /\ u <= j /\ j < v
      BY <1>4
    <2> QED
      BY <2>4, <2>5, Zenon
  <1> HIDE DEF J
  <1>7. IsFiniteSet(J) /\ Cardinality(J) = v - u
    <2>1. IsFiniteSet(u .. (v - 1)) /\ Cardinality(u .. (v - 1)) = IF u > v - 1 THEN 0 ELSE v - 1 - u + 1
      BY FS_Interval, u \in Int, v - 1 \in Int
    <2>2. (IF u > v - 1 THEN 0 ELSE v - 1 - u + 1) = v - u
      BY <1>5
    <2> QED
      BY <1>6, <2>1, <2>2, Zenon
  <1>8. (v - u) * q > k - q /\ (v - u) * q < k + q
    BY <1>1, <1>2, <1>5 DEF Passes, Powers
  <1> QED
    BY <1>5, <1>7, <1>8 DEF J

\* The slots of a part: every q-th number from the remainder r on, each at one place.
PartTakes(T, size, q, part, r) ==
    /\ \A k \in 1 .. size : \E j \in 0 .. (size - 1) : T[part * size + k] = j * q + r
    /\ \A j \in 0 .. (size - 1) : \E k \in 1 .. size : T[part * size + k] = j * q + r

LEMMA PartIsStrided ==
    ASSUME NEW L \in Sizes, NEW size \in Powers \ {1}, NEW q \in Powers, L = size * q,
           Strided(ReverseBitsIndex(L), L, size, q), NEW part \in 0 .. (q - 1)
    PROVE  \E r \in 0 .. (q - 1) : PartTakes(ReverseBitsIndex(L), size, q, part, r)
  <1> DEFINE T == ReverseBitsIndex(L)
  <1> DEFINE base == part * size
  <1> DEFINE r == T[base + 1] % q
  <1>1. L \in Nat /\ size \in Nat /\ q \in Nat /\ part \in Nat /\ size > 0 /\ q > 0
    BY DEF Sizes, Powers
  <1>2. base \in Nat /\ base + size <= L
    BY <1>1 DEF Powers
  <1>3. /\ \A n \in 1 .. L : T[n] \in 0 .. (L - 1)
        /\ \A n \in 1 .. L : T[T[n] + 1] = n - 1
    BY TablesArePermutations
  <1>4. \A k \in 1 .. size : base + k \in 1 .. L /\ ((base + k) - 1) \div size = part
    <2> TAKE k \in 1 .. size
    <2>1. k - 1 \in 0 .. (size - 1) /\ (base + k) - 1 = part * size + (k - 1)
      BY <1>1, <1>2
    <2>2. (part * size + (k - 1)) \div size = part
      BY <1>1, <2>1, Division
    <2> QED
      BY <1>1, <1>2, <2>1, <2>2
  <1>5. base + 1 \in 1 .. L /\ T[base + 1] \in Nat
    <2> HIDE DEF T, base
    <2>1. base + 1 \in 1 .. L
      BY <1>1, <1>2
    <2> QED
      BY <1>1, <1>3, <2>1
  <1>6. r \in 0 .. (q - 1)
    BY <1>5, DivMod
  <1> HIDE DEF T, base, r
  <1>7. ASSUME NEW k \in 1 .. size
        PROVE  \E j \in 0 .. (size - 1) : T[base + k] = j * q + r
    <2>1. PICK x \in Nat : x = T[base + k] /\ x < L
      BY <1>1, <1>3, <1>4
    <2>2. x % q = r
      <3>1. T[base + k] % q = T[(((base + k) - 1) \div size) * size + 1] % q
        BY <1>4 DEF Strided, T
      <3> QED
        BY <1>4, <2>1, <3>1 DEF r, base
    <2>3. x = (x \div q) * q + r /\ x \div q \in Nat
      BY <2>2, DivMod
    <2>4. PICK j \in Nat : j = x \div q
      BY <2>3
    <2>5. j * q + r < size * q
      BY <2>1, <2>3, <2>4
    <2>6. j < size
      BY <1>1, <1>6, <2>5 DEF Powers
    <2> QED
      BY <1>1, <2>1, <2>3, <2>4, <2>6
  <1>8. ASSUME NEW j \in 0 .. (size - 1)
        PROVE  \E k \in 1 .. size : T[base + k] = j * q + r
    <2>1. PICK x \in Nat : x = j * q + r
      BY <1>1, <1>6
    <2>2. x < L /\ x + 1 \in 1 .. L
      BY <1>1, <1>6, <2>1 DEF Powers
    <2>3. PICK n \in 1 .. L : n = T[x + 1] + 1
      BY <1>1, <1>3, <2>2
    <2>4. T[n] = x
      BY <1>1, <1>3, <2>2, <2>3
    <2>5. x % q = r
      BY <1>1, <1>6, <2>1, Division
    <2>6. T[r + 1] \div size = (n - 1) \div size
      BY <2>4, <2>5 DEF Strided, T
    <2>7. T[r + 1] \div size = part
      <3>1. T[(T[base + 1] % q) + 1] \div size = ((base + 1) - 1) \div size
        BY <1>5 DEF Strided, T
      <3> QED
        BY <1>1, <1>4, <3>1 DEF r
    <2>8. n - 1 = part * size + ((n - 1) % size) /\ (n - 1) % size \in 0 .. (size - 1)
      <3>1. PICK y \in Nat : y = n - 1
        BY <1>1
      <3>2. y = (y \div size) * size + (y % size) /\ y % size \in 0 .. (size - 1)
        BY DivMod
      <3>3. y \div size = part
        BY <2>6, <2>7, <3>1
      <3> QED
        BY <3>1, <3>2, <3>3
    <2>9. PICK k \in 1 .. size : k = ((n - 1) % size) + 1
      BY <1>1, <2>8
    <2>10. n = base + k
      BY <1>1, <1>2, <2>8, <2>9 DEF base
    <2> QED
      BY <2>1, <2>4, <2>10
  <1> QED
    BY <1>6, <1>7, <1>8 DEF PartTakes, T, base

\* The slots of one link are laid out next to each other.
Block(s, cid, k) ==
    \E a \in Nat : /\ a + k <= Len(s)
                   /\ \A n \in DOMAIN s : s[n] = cid <=> (a < n /\ n <= a + k)

LEMMA BlockAppended ==
    ASSUME NEW S, NEW s \in Seq(S), NEW t \in Seq(S), NEW cid, NEW k \in Nat
    PROVE  /\ (Block(s, cid, k) /\ \A n \in DOMAIN t : t[n] # cid) => Block(s \o t, cid, k)
           /\ (IsRun(t, k, cid) /\ \A n \in DOMAIN s : s[n] # cid) => Block(s \o t, cid, k)
  <1>1. Len(s) \in Nat /\ Len(t) \in Nat /\ DOMAIN s = 1 .. Len(s) /\ DOMAIN t = 1 .. Len(t)
    OBVIOUS
  <1>2. PICK c : c = s \o t
    OBVIOUS
  <1>3. Len(c) = Len(s) + Len(t) /\ DOMAIN c = 1 .. (Len(s) + Len(t))
    BY <1>1, <1>2
  <1>4. \A n \in 1 .. (Len(s) + Len(t)) : c[n] = IF n <= Len(s) THEN s[n] ELSE t[n - Len(s)]
    BY <1>1, <1>2
  <1>5. \A n \in 1 .. (Len(s) + Len(t)) :
           IF n <= Len(s) THEN n \in 1 .. Len(s) ELSE n - Len(s) \in 1 .. Len(t)
    BY <1>1
  <1>6. ASSUME Block(s, cid, k), \A n \in DOMAIN t : t[n] # cid PROVE Block(c, cid, k)
    <2>1. PICK a \in Nat : /\ a + k <= Len(s)
                           /\ \A n \in DOMAIN s : s[n] = cid <=> (a < n /\ n <= a + k)
      BY <1>6 DEF Block
    <2>2. a + k <= Len(c)
      BY <1>1, <1>3, <2>1
    <2>3. ASSUME NEW n \in DOMAIN c PROVE c[n] = cid <=> (a < n /\ n <= a + k)
      <3>1. CASE n <= Len(s)
        BY <1>1, <1>3, <1>4, <1>5, <2>1, <3>1
      <3>2. CASE ~ (n <= Len(s))
        <4>1. c[n] # cid
          BY <1>1, <1>3, <1>4, <1>5, <1>6, <3>2
        <4>2. ~ (n <= a + k)
          BY <1>1, <1>3, <2>1, <3>2
        <4> QED
          BY <4>1, <4>2
      <3> QED
        BY <3>1, <3>2
    <2> QED
      BY <2>1, <2>2, <2>3 DEF Block
  <1>7. ASSUME IsRun(t, k, cid), \A n \in DOMAIN s : s[n] # cid PROVE Block(c, cid, k)
    <2>1. Len(t) = k
      BY <1>1, <1>7 DEF IsRun
    <2>2. Len(s) + k <= Len(c)
      BY <1>1, <1>3, <2>1
    <2>3. ASSUME NEW n \in DOMAIN c PROVE c[n] = cid <=> (Len(s) < n /\ n <= Len(s) + k)
      <3>1. CASE n <= Len(s)
        BY <1>1, <1>3, <1>4, <1>5, <1>7, <3>1
      <3>2. CASE ~ (n <= Len(s))
        <4>1. c[n] = cid
          BY <1>1, <1>3, <1>4, <1>5, <1>7, <2>1, <3>2 DEF IsRun
        <4>2. Len(s) < n /\ n <= Len(s) + k
          BY <1>1, <1>3, <2>1, <3>2
        <4> QED
          BY <4>1, <4>2
      <3> QED
        BY <3>1, <3>2
    <2> QED
      BY <1>1, <2>2, <2>3 DEF Block
  <1> QED
    BY <1>2, <1>6, <1>7

LEMMA InorderIsContiguous ==
    ASSUME NEW K \in [DOMAIN CidList -> Nat], NEW i \in DOMAIN CidList
    PROVE  Block(InorderCidVector(K), CidList[i], K[i])
  <1> DEFINE Laid(m) ==
        /\ LaidOut(K)[m] \in Seq(Cids)
        /\ i > m => \A n \in DOMAIN LaidOut(K)[m] : LaidOut(K)[m][n] # CidList[i]
        /\ i <= m => Block(LaidOut(K)[m], CidList[i], K[i])
  <1> DEFINE P == {m \in 0 .. Len(CidList) : Laid(m)}
  <1>1. Len(CidList) \in Nat /\ i \in 1 .. Len(CidList) /\ K[i] \in Nat
    BY CidListFacts
  <1>2. 0 \in P
    <2>1. LaidOut(K)[0] = << >>
      BY LaidOutRounds
    <2>2. << >> \in Seq(Cids) /\ DOMAIN << >> = {} /\ ~ (i <= 0) /\ 0 \in 0 .. Len(CidList)
      BY <1>1
    <2> QED
      BY <2>1, <2>2
  <1>3. ASSUME NEW m \in 0 .. Len(CidList), m \in P, m < Len(CidList) PROVE m + 1 \in P
    <2> DEFINE run == [n \in 1 .. K[m + 1] |-> CidList[m + 1]]
    <2>1. m + 1 \in DOMAIN CidList /\ m + 1 \in 0 .. Len(CidList) /\ m + 1 # 0 /\ (m + 1) - 1 = m
      BY <1>3, CidListFacts
    <2>2. LaidOut(K)[m + 1] = LaidOut(K)[m] \o run
      BY <2>1, LaidOutRounds
    <2>3. K[m + 1] \in Nat /\ CidList[m + 1] \in Cids
      BY <2>1, CidListFacts
    <2>4. run \in Seq(Cids) /\ IsRun(run, K[m + 1], CidList[m + 1])
      BY <2>3 DEF IsRun
    <2>5. Laid(m)
      BY <1>3
    <2> HIDE DEF run
    <2>6. PICK s : s = LaidOut(K)[m]
      OBVIOUS
    <2>7. s \in Seq(Cids)
      BY <2>5, <2>6
    <2>8. LaidOut(K)[m + 1] \in Seq(Cids)
      BY <2>2, <2>4, <2>6, <2>7
    <2>9. i # m + 1 => \A n \in DOMAIN run : run[n] # CidList[i]
      BY <2>1, <2>4, CidListFacts DEF IsRun
    <2>10. CASE i > m + 1
      <3>1. \A n \in DOMAIN s : s[n] # CidList[i]
        BY <1>1, <2>5, <2>6, <2>10
      <3>2. \A n \in DOMAIN run : run[n] # CidList[i]
        BY <1>1, <2>9, <2>10
      <3>3. CidList[i] \notin ToSet(s) \cup ToSet(run)
        BY <3>1, <3>2 DEF ToSet
      <3>4. ToSet(s \o run) = ToSet(s) \cup ToSet(run)
        BY <2>4, <2>7, ToSetConcat
      <3>5. \A n \in DOMAIN LaidOut(K)[m + 1] : LaidOut(K)[m + 1][n] # CidList[i]
        BY <2>2, <2>6, <3>3, <3>4 DEF ToSet
      <3>6. ~ (i <= m + 1)
        BY <1>1, <2>10
      <3> QED
        BY <2>1, <2>8, <3>5, <3>6
    <2>11. CASE i = m + 1
      <3>1. \A n \in DOMAIN s : s[n] # CidList[i]
        BY <1>1, <2>5, <2>6, <2>11
      <3>2. IsRun(run, K[i], CidList[i])
        BY <2>4, <2>11
      <3>3. Block(s \o run, CidList[i], K[i])
        BY <1>1, <2>4, <2>7, <3>1, <3>2, BlockAppended
      <3>4. ~ (i > m + 1)
        BY <1>1, <2>11
      <3> QED
        BY <2>1, <2>2, <2>6, <2>8, <3>3, <3>4
    <2>12. CASE i < m + 1
      <3>1. Block(s, CidList[i], K[i])
        BY <1>1, <2>5, <2>6, <2>12
      <3>2. \A n \in DOMAIN run : run[n] # CidList[i]
        BY <1>1, <2>9, <2>12
      <3>3. Block(s \o run, CidList[i], K[i])
        BY <1>1, <2>4, <2>7, <3>1, <3>2, BlockAppended
      <3>4. ~ (i > m + 1)
        BY <1>1, <2>12
      <3> QED
        BY <2>1, <2>2, <2>6, <2>8, <3>3, <3>4
    <2> QED
      BY <1>1, <2>10, <2>11, <2>12
  <1>4. P = 0 .. Len(CidList)
    <2>1. P \in SUBSET (0 .. Len(CidList))
      OBVIOUS
    <2> HIDE DEF P
    <2> QED
      BY <1>1, <1>2, <1>3, <2>1, Rounds
  <1>5. Len(CidList) \in P
    <2> HIDE DEF P
    <2> QED
      BY <1>1, <1>4
  <1> QED
    BY <1>1, <1>5 DEF InorderCidVector

PartOf(L, inorder, size, part) ==
    SubSeq(ReversedCidVector(L, inorder), part * size + 1, part * size + size)

\* How many slots of a part are of one link.
LEMMA PartCount ==
    ASSUME NEW L \in Sizes, NEW size \in Powers \ {1}, NEW q \in Powers, L = size * q,
           Strided(ReverseBitsIndex(L), L, size, q), NEW part \in 0 .. (q - 1),
           NEW inorder \in Seq(Cids), Len(inorder) = L,
           NEW cid, NEW share_i \in Nat, Block(inorder, cid, share_i)
    PROVE  LET c == Count(PartOf(L, inorder, size, part), cid)
           IN  c \in Nat /\ c * q > share_i - q /\ c * q < share_i + q
  <1> DEFINE slots == PartOf(L, inorder, size, part)
  <1> DEFINE T == ReverseBitsIndex(L)
  <1> DEFINE base == part * size
  <1>1. L \in Nat /\ size \in Nat /\ q \in Nat /\ part \in Nat /\ size > 0 /\ q > 0
    BY DEF Sizes, Powers
  <1>2. base \in Nat /\ base + size <= L
    BY <1>1 DEF Powers
  <1>3. /\ \A n \in 1 .. L : T[n] \in 0 .. (L - 1)
        /\ \A n \in 1 .. L : T[T[n] + 1] = n - 1
    BY TablesArePermutations
  <1>4. PICK r \in 0 .. (q - 1) : PartTakes(T, size, q, part, r)
    BY PartIsStrided
  <1>5. PICK a \in Nat : /\ a + share_i <= L
                         /\ \A n \in 1 .. L : inorder[n] = cid <=> (a < n /\ n <= a + share_i)
    <2>1. DOMAIN inorder = 1 .. L
      OBVIOUS
    <2> QED
      BY <2>1 DEF Block
  <1>6. PICK t : t = ReversedCidVector(L, inorder)
    OBVIOUS
  <1>7. t \in Seq(Cids) /\ Len(t) = L /\ \A n \in 1 .. L : t[n] = inorder[T[n] + 1]
    BY <1>6, ReversedHonoursShares DEF ReversedCidVector
  <1> HIDE DEF T, base
  <1>8. slots = SubSeq(t, base + 1, base + size)
    BY <1>6 DEF base, PartOf
  <1> HIDE DEF slots
  <1>9. DOMAIN slots = 1 .. size /\ \A k \in 1 .. size : slots[k] = t[base + k]
    BY <1>1, <1>2, <1>7, <1>8
  <1>10. \A k \in 1 .. size : base + k \in 1 .. L
    BY <1>1, <1>2
  <1> DEFINE A == {k \in 1 .. size : slots[k] = cid}
  <1> DEFINE J == Members(size, q, r, a, share_i)
  <1>11. Count(slots, cid) = Cardinality(A)
    BY <1>9 DEF Count
  <1>12. \A k \in 1 .. size : slots[k] = cid <=> (a <= T[base + k] /\ T[base + k] < a + share_i)
    <2> TAKE k \in 1 .. size
    <2>x. T[base + k] \in 0 .. (L - 1)
      BY <1>3, <1>10
    <2>1. PICK x \in Nat : x = T[base + k] /\ x < L
      BY <1>1, <2>x
    <2>2. x + 1 \in 1 .. L
      BY <1>1, <2>1
    <2>3. slots[k] = inorder[x + 1]
      BY <1>7, <1>9, <1>10, <2>1
    <2>4. inorder[x + 1] = cid <=> (a < x + 1 /\ x + 1 <= a + share_i)
      BY <1>5, <2>2
    <2>5. (a < x + 1 /\ x + 1 <= a + share_i) <=> (a <= x /\ x < a + share_i)
      OBVIOUS
    <2> QED
      BY <2>1, <2>3, <2>4, <2>5, Zenon
  <1>13. /\ \A k \in 1 .. size : \E j \in 0 .. (size - 1) : T[base + k] = j * q + r
         /\ \A j \in 0 .. (size - 1) : \E k \in 1 .. size : T[base + k] = j * q + r
    BY <1>4 DEF PartTakes, base
  <1>14. Correspond(J, A)
    <2> DEFINE f == [j \in J |-> CHOOSE k \in 1 .. size : T[base + k] = j * q + r]
    <2>1. ASSUME NEW j \in J PROVE f[j] \in 1 .. size /\ T[base + f[j]] = j * q + r
      <3>1. \E k \in 1 .. size : T[base + k] = j * q + r
        BY <1>13 DEF Members
      <3> QED
        BY <3>1, Zenon
    <2>2. \A j \in J : f[j] \in A
      BY <1>12, <2>1 DEF Members
    <2>3. f \in [J -> A]
      BY <2>2
    <2>4. \A x, y \in J : f[x] = f[y] => x = y
      <3> SUFFICES ASSUME NEW x \in J, NEW y \in J, f[x] = f[y] PROVE x = y
        OBVIOUS
      <3>1. x * q + r = y * q + r
        BY <2>1
      <3>2. x \in Nat /\ y \in Nat /\ r \in Nat
        BY <1>1 DEF Members
      <3> QED
        BY <3>1, <3>2 DEF Powers
    <2>5. \A k \in A : \E j \in J : f[j] = k
      <3> TAKE k \in A
      <3>1. PICK j \in 0 .. (size - 1) : T[base + k] = j * q + r
        BY <1>13
      <3>2. j \in J
        BY <1>12, <3>1 DEF Members
      <3>3. T[base + f[j]] = T[base + k] /\ f[j] \in 1 .. size
        BY <2>1, <3>1, <3>2
      <3>4. (base + f[j]) - 1 = (base + k) - 1
        BY <1>3, <1>10, <3>3
      <3>5. f[j] = k
        BY <1>2, <3>3, <3>4
      <3> QED
        BY <3>2, <3>5
    <2> HIDE DEF f
    <2> QED
      BY <2>3, <2>4, <2>5 DEF Correspond
  <1>15. /\ IsFiniteSet(J) /\ Cardinality(J) \in Nat
         /\ Cardinality(J) * q > share_i - q /\ Cardinality(J) * q < share_i + q
    <2>1. a + share_i <= size * q
      BY <1>5
    <2> QED
      BY <1>1, <2>1, ProgressionCount
  <1> HIDE DEF J, A
  <1>16. Cardinality(A) = Cardinality(J)
    BY <1>14, <1>15, SameSize
  <1> QED
    BY <1>11, <1>15, <1>16 DEF slots

\* From the count of a part to the scaled bounds of BurstIsSpreadEvenly.
LEMMA Scaled ==
    ASSUME NEW size \in Powers, NEW q \in Powers, NEW L, L = size * q,
           NEW c \in Nat, NEW k \in Nat, c * q > k - q, c * q < k + q
    PROVE  c * L > k * size - L /\ c * L < k * size + L
  <1>1. size \in Nat /\ size > 0 /\ q \in Nat
    BY DEF Powers
  <1>2. PICK z \in Nat : z = c * q
    BY <1>1
  <1>3. c * L = size * z
    BY <1>1, <1>2
  <1>4. size * z > size * (k - q) /\ size * z < size * (k + q)
    BY <1>1, <1>2 DEF Powers
  <1>5. size * (k - q) = k * size - L /\ size * (k + q) = k * size + L
    BY <1>1
  <1> QED
    BY <1>3, <1>4, <1>5

\* The point of the tables REVERSE_BITS_INDEXn, for any number of links and any shares: cut into
\* equal parts of a power of two, a burst gives each part the share of every link, rounded.
THEOREM BurstIsSpread == Spec => []BurstIsSpreadEvenly
  <1>1. Inv => BurstIsSpreadEvenly
    <2> SUFFICES ASSUME Inv, m_paramL > 1,
                        NEW size \in {2, 4, 8, 16, 32, 64}, size <= m_paramL,
                        NEW part \in 0 .. (m_paramL \div size - 1), NEW i \in DOMAIN CidList
                 PROVE  LET slots == SubSeq(m_cidVector, part * size + 1, part * size + size)
                            scaled == Count(slots, CidList[i]) * m_paramL
                        IN  /\ scaled > share[i] * size - m_paramL
                            /\ scaled < share[i] * size + m_paramL
      BY DEF BurstIsSpreadEvenly
    <2>1. PICK L : L = m_paramL
      OBVIOUS
    <2>2. PICK K, inorder : K = share /\ inorder = InorderCidVector(share)
      OBVIOUS
    <2>3. /\ L \in Sizes /\ K \in [DOMAIN CidList -> Nat] /\ Len(inorder) = L
          /\ m_cidVector = ReversedCidVector(L, inorder)
      BY <2>1, <2>2, ParamIsNat DEF Inv, BurstIsLaidOut
    <2>4. size \in Powers \ {1} /\ size \in Powers
      BY DEF Powers
    <2>5. PICK q \in Powers : L = size * q /\ L \div size = q /\ Strided(ReverseBitsIndex(L), L, size, q)
      BY <2>1, <2>3, <2>4, TablesAreStrided
    <2>6. part \in 0 .. (q - 1)
      BY <2>1, <2>5
    <2>7. inorder \in Seq(Cids) /\ K[i] \in Nat /\ Block(inorder, CidList[i], K[i])
      BY <2>2, <2>3, InorderHonoursShares, InorderIsContiguous
    <2>8. PICK slots : slots = SubSeq(m_cidVector, part * size + 1, part * size + size)
      OBVIOUS
    <2>9. PICK k, cid, c : k = K[i] /\ cid = CidList[i] /\ c = Count(slots, cid)
      OBVIOUS
    <2>10. c \in Nat /\ c * q > k - q /\ c * q < k + q
      <3>1. slots = SubSeq(ReversedCidVector(L, inorder), part * size + 1, part * size + size)
        BY <2>3, <2>8
      <3>2. k \in Nat /\ Block(inorder, cid, k)
        BY <2>7, <2>9
      <3>3. L = size * q /\ Strided(ReverseBitsIndex(L), L, size, q)
        BY <2>5
      <3>4. c = Count(PartOf(L, inorder, size, part), cid)
        BY <2>9, <3>1 DEF PartOf
      <3> QED
        BY <2>3, <2>4, <2>6, <2>7, <3>2, <3>3, <3>4, PartCount
    <2>11. c * L > k * size - L /\ c * L < k * size + L
      <3>1. k \in Nat /\ L = size * q
        BY <2>5, <2>7, <2>9
      <3> QED
        BY <2>4, <2>10, <3>1, Scaled
    <2> QED
      BY <2>1, <2>2, <2>8, <2>9, <2>11
  <1> QED
    BY <1>1, InvHolds, PTL

=============================================================================
