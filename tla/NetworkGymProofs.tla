--------------------------- MODULE NetworkGymProofs ---------------------------
(***************************************************************************)
(* Proofs about NetworkGym, for any clients, slices, rates, subscription,  *)
(* number of steps and an agent that repeats its answers: the types, the   *)
(* lock step of the simulator and the agent (StepInv), the aggregation of  *)
(* the measurements of an instant against its reference, and the           *)
(* priorities of the clients (DataInv).  The loops of the code are         *)
(* recursive functions over the rounds; Rounds is the induction over them. *)
(***************************************************************************)
EXTENDS NetworkGym, FiniteSetTheorems, SequenceTheorems, WellFoundedInduction, TLAPS

-----------------------------------------------------------------------------
(***************************************************************************)
(* Loops.                                                                  *)
(***************************************************************************)
LEMMA LeastNumber ==
    ASSUME NEW S \in SUBSET Nat, S # {}
    PROVE  \E m \in S : \A n \in S : m <= n
  <1> DEFINE R == OpToRel(<, Nat)
  <1>1. IsWellFoundedOn(R, Nat)
    BY NatLessThanWellFounded, Zenon
  <1>2. \A x, y \in Nat : x < y => <<x, y>> \in R
    BY DEF OpToRel
  <1> HIDE DEF R
  <1>3. PICK m \in S : \A n \in S : <<n, m>> \notin R
    BY <1>1, WFMin
  <1>4. \A n \in S : n \in Nat /\ m \in Nat /\ ~ (n < m)
    BY <1>2, <1>3
  <1>5. \A n \in S : m <= n
    BY <1>4
  <1> QED
    BY <1>5

\* What holds before the first round and is kept by every round holds in the end.
LEMMA Rounds ==
    ASSUME NEW N \in Nat, NEW P \in SUBSET (0 .. N), 0 \in P,
           \A n \in 1 .. N : n - 1 \in P => n \in P
    PROVE  P = 0 .. N
  <1> DEFINE Missing == (0 .. N) \ P
  <1>1. SUFFICES ASSUME Missing # {} PROVE FALSE
    OBVIOUS
  <1>2. PICK least \in Missing : \A n \in Missing : least <= n
    <2>1. Missing \in SUBSET Nat
      OBVIOUS
    <2> HIDE DEF Missing
    <2> QED
      BY <1>1, <2>1, LeastNumber
  <1>3. least \in 1 .. N /\ least - 1 \in 0 .. N
    BY <1>2
  <1>4. least - 1 \in P
    BY <1>2, <1>3
  <1> QED
    BY <1>2, <1>3, <1>4

\* A loop of N rounds, the n-th of which applies b[n], has a result.
IsLoop(f, S, N, b, r) ==
    f \in [0 .. N -> S] /\ f[0] = r /\ \A n \in 1 .. N : f[n] = b[n][f[n - 1]]

LEMMA LoopExists ==
    ASSUME NEW S, NEW N \in Nat, NEW b \in [1 .. N -> [S -> S]], NEW r \in S
    PROVE  \E f : IsLoop(f, S, N, b, r)
  <1> DEFINE P == {m \in 0 .. N : \E f : IsLoop(f, S, m, b, r)}
  <1>1. 0 \in P
    <2>1. IsLoop([n \in 0 .. 0 |-> r], S, 0, b, r)
      BY DEF IsLoop
    <2> QED
      BY <2>1
  <1>2. ASSUME NEW k \in 1 .. N, k - 1 \in P PROVE k \in P
    <2>1. PICK m \in 0 .. N : m = k - 1 /\ k = m + 1
      OBVIOUS
    <2>2. PICK f : IsLoop(f, S, m, b, r)
      BY <1>2, <2>1
    <2> DEFINE g == [n \in 0 .. k |-> IF n = k THEN b[k][f[m]] ELSE f[n]]
    <2>3. b[k] \in [S -> S] /\ f[m] \in S
      BY <2>2 DEF IsLoop
    <2>4. g \in [0 .. k -> S]
      BY <2>1, <2>2, <2>3 DEF IsLoop
    <2>5. g[0] = r
      BY <2>1, <2>2 DEF IsLoop
    <2>6. ASSUME NEW n \in 1 .. k PROVE g[n] = b[n][g[n - 1]]
      <3>1. CASE n = k
        BY <2>1, <3>1
      <3>2. CASE n # k
        BY <3>2, <2>1, <2>2 DEF IsLoop
      <3> QED
        BY <3>1, <3>2
    <2>7. IsLoop(g, S, k, b, r)
      <3> HIDE DEF g
      <3> QED
        BY <2>4, <2>5, <2>6 DEF IsLoop
    <2> HIDE DEF g
    <2> QED
      BY <2>7
  <1>3. P \in SUBSET (0 .. N)
    OBVIOUS
  <1> HIDE DEF P
  <1>4. P = 0 .. N
    BY <1>1, <1>2, <1>3, Rounds
  <1>5. N \in P
    BY <1>4
  <1> QED
    BY <1>5 DEF P

-----------------------------------------------------------------------------
(***************************************************************************)
(* The sum of the rates.                                                   *)
(***************************************************************************)
SumStep(measure, entries, n, x) == IF n \in entries THEN x + measure[n].rate ELSE x

IsSum(f, measure, entries) ==
    /\ f \in [0 .. Len(measure) -> Nat] /\ f[0] = 0
    /\ \A n \in 1 .. Len(measure) : f[n] = SumStep(measure, entries, n, f[n - 1])

\* What the clients saved.
Measures == Seq(Entries)

LEMMA EntryTypes ==
    ASSUME NEW measure \in Measures
    PROVE  /\ Len(measure) \in Nat /\ DOMAIN measure = 1 .. Len(measure)
           /\ \A n \in 1 .. Len(measure) :
                 /\ measure[n] \in Entries /\ measure[n].rate \in Nat
                 /\ measure[n].client \in Clients /\ measure[n].mark \in {0, 1}
  <1>1. Rates \subseteq Nat
    BY GymAssumption
  <1>2. \A e \in Entries : e.rate \in Nat /\ e.client \in Clients /\ e.mark \in {0, 1}
    BY <1>1 DEF Entries
  <1> QED
    BY <1>2, LenProperties, ElementOfSeq DEF Measures

LEMMA SumUnfolds ==
    ASSUME NEW measure \in Measures, NEW entries
    PROVE  \E f : IsSum(f, measure, entries) /\ SumOfRates(measure, entries) = f[Len(measure)]
  <1> DEFINE N == Len(measure)
  <1> DEFINE b == [n \in 1 .. N |-> [x \in Nat |-> SumStep(measure, entries, n, x)]]
  <1> DEFINE u == CHOOSE f : f = [n \in 0 .. N |->
                      IF n = 0 THEN 0
                      ELSE IF n \in entries THEN f[n - 1] + measure[n].rate ELSE f[n - 1]]
  <1>0. N \in Nat /\ 0 \in 0 .. N /\ \A n \in 1 .. N : n \in 0 .. N /\ n # 0 /\ n - 1 \in 0 .. N
    BY EntryTypes
  <1>1. \A n \in 1 .. N, x \in Nat : SumStep(measure, entries, n, x) \in Nat
    BY EntryTypes DEF SumStep
  <1>2. b \in [1 .. N -> [Nat -> Nat]]
    BY <1>1
  <1>3. PICK f : IsLoop(f, Nat, N, b, 0)
    <2> HIDE DEF b, N
    <2> QED
      BY <1>0, <1>2, LoopExists
  <1>4. f \in [0 .. N -> Nat] /\ f[0] = 0
    BY <1>3 DEF IsLoop
  <1>5. ASSUME NEW n \in 1 .. N PROVE f[n] = SumStep(measure, entries, n, f[n - 1])
    <2>1. f[n] = b[n][f[n - 1]] /\ f[n - 1] \in Nat
      BY <1>0, <1>3, <1>4 DEF IsLoop
    <2> QED
      BY <2>1
  <1>6. f = [n \in 0 .. N |-> IF n = 0 THEN 0
                ELSE IF n \in entries THEN f[n - 1] + measure[n].rate ELSE f[n - 1]]
    <2>1. \A n \in 0 .. N : f[n] = IF n = 0 THEN 0
                ELSE IF n \in entries THEN f[n - 1] + measure[n].rate ELSE f[n - 1]
      <3>1. \A n \in 0 .. N : n # 0 => n \in 1 .. N
        BY <1>0
      <3> HIDE DEF N
      <3> QED
        BY <1>4, <1>5, <3>1, Zenon DEF SumStep
    <2>2. f = [n \in 0 .. N |-> f[n]]
      BY <1>4
    <2> HIDE DEF N
    <2> QED
      BY <2>1, <2>2, Zenon
  <1>7. u = [n \in 0 .. N |-> IF n = 0 THEN 0
                ELSE IF n \in entries THEN u[n - 1] + measure[n].rate ELSE u[n - 1]]
    <2> HIDE DEF N
    <2> QED
      BY <1>6, Zenon
  <1>8. SumOfRates(measure, entries) = u[N]
    BY Zenon DEF SumOfRates
  <1> HIDE DEF u
  <1>9. u[0] = 0
    BY <1>7, <1>0, Zenon
  <1>10. \A n \in 1 .. N : u[n] = SumStep(measure, entries, n, u[n - 1])
    BY <1>7, <1>0, Zenon DEF SumStep
  <1>11. u \in [0 .. N -> Nat]
    <2> DEFINE P == {n \in 0 .. N : u[n] \in Nat}
    <2>1. 0 \in P
      BY <1>0, <1>9
    <2>2. \A n \in 1 .. N : n - 1 \in P => n \in P
      BY <1>0, <1>1, <1>10
    <2>3. P = 0 .. N
      <3>1. P \in SUBSET (0 .. N)
        OBVIOUS
      <3> HIDE DEF P, N
      <3> QED
        BY <1>0, <2>1, <2>2, <3>1, Rounds
    <2>4. \A n \in 0 .. N : u[n] \in Nat
      BY <2>3
    <2> HIDE DEF N
    <2> QED
      BY <2>4, <1>7, Zenon
  <1> QED
    BY <1>8, <1>9, <1>10, <1>11 DEF IsSum

LEMMA SumIsNat ==
    ASSUME NEW measure \in Measures, NEW entries
    PROVE  SumOfRates(measure, entries) \in Nat
  BY SumUnfolds, EntryTypes DEF IsSum

\* Entries without a rate do not matter.
LEMMA SumSame ==
    ASSUME NEW measure \in Measures, NEW T, NEW U,
           \A n \in 1 .. Len(measure) : measure[n].rate = 0 \/ (n \in T <=> n \in U)
    PROVE  SumOfRates(measure, T) = SumOfRates(measure, U)
  <1> DEFINE N == Len(measure)
  <1>1. PICK f : IsSum(f, measure, T) /\ SumOfRates(measure, T) = f[N]
    BY SumUnfolds
  <1>2. PICK g : IsSum(g, measure, U) /\ SumOfRates(measure, U) = g[N]
    BY SumUnfolds
  <1> DEFINE P == {n \in 0 .. N : f[n] = g[n]}
  <1>3. N \in Nat /\ 0 \in P
    BY <1>1, <1>2, EntryTypes DEF IsSum
  <1>4. ASSUME NEW n \in 1 .. N, n - 1 \in P PROVE n \in P
    <2>1. f[n] = SumStep(measure, T, n, f[n - 1]) /\ g[n] = SumStep(measure, U, n, g[n - 1])
      BY <1>1, <1>2 DEF IsSum
    <2>2. f[n - 1] = g[n - 1] /\ f[n - 1] \in Nat /\ measure[n].rate \in Nat
      BY <1>1, <1>3, <1>4, EntryTypes DEF IsSum
    <2> QED
      BY <2>1, <2>2, <1>3 DEF SumStep
  <1>5. P = 0 .. N
    <2>1. P \in SUBSET (0 .. N)
      OBVIOUS
    <2> HIDE DEF P, N
    <2> QED
      BY <1>3, <1>4, <2>1, Rounds
  <1>6. N \in P
    BY <1>3, <1>5
  <1> QED
    BY <1>1, <1>2, <1>6

LEMMA SumAppend ==
    ASSUME NEW measure \in Measures, NEW e \in Entries, NEW T
    PROVE  SumOfRates(Append(measure, e), T)
              = SumStep(Append(measure, e), T, Len(measure) + 1, SumOfRates(measure, T))
  <1> DEFINE N == Len(measure)
  <1> DEFINE more == Append(measure, e)
  <1>0. more \in Measures /\ N \in Nat /\ Len(more) = N + 1 /\ \A n \in 1 .. N : more[n] = measure[n]
    BY AppendProperties, EntryTypes DEF Measures
  <1>1. PICK f : IsSum(f, measure, T) /\ SumOfRates(measure, T) = f[N]
    BY SumUnfolds
  <1>2. PICK g : IsSum(g, more, T) /\ SumOfRates(more, T) = g[N + 1]
    BY <1>0, SumUnfolds
  <1> HIDE DEF more
  <1> DEFINE P == {n \in 0 .. N : f[n] = g[n]}
  <1>3. 0 \in P
    BY <1>0, <1>1, <1>2 DEF IsSum
  <1>4. ASSUME NEW n \in 1 .. N, n - 1 \in P PROVE n \in P
    <2>1. f[n] = SumStep(measure, T, n, f[n - 1])
      BY <1>1 DEF IsSum
    <2>2. g[n] = SumStep(more, T, n, g[n - 1])
      BY <1>0, <1>2 DEF IsSum
    <2>3. f[n - 1] = g[n - 1] /\ more[n] = measure[n]
      BY <1>0, <1>4
    <2> QED
      BY <1>0, <2>1, <2>2, <2>3 DEF SumStep
  <1>5. P = 0 .. N
    <2>1. P \in SUBSET (0 .. N)
      OBVIOUS
    <2> HIDE DEF P, N
    <2> QED
      BY <1>0, <1>3, <1>4, <2>1, Rounds
  <1>6. f[N] = g[N]
    BY <1>0, <1>5
  <1>7. g[N + 1] = SumStep(more, T, N + 1, g[N])
    <2>1. N + 1 \in 1 .. Len(more) /\ (N + 1) - 1 = N
      BY <1>0
    <2>2. g[N + 1] = SumStep(more, T, N + 1, g[(N + 1) - 1])
      BY <1>2, <2>1 DEF IsSum
    <2> QED
      BY <2>1, <2>2
  <1> QED
    BY <1>1, <1>2, <1>6, <1>7 DEF more

Slices == {Slice[c] : c \in Clients}
SliceSum(measure, s) == SumOfRates(measure, EntriesOf(measure, s))

\* A new entry adds its rate to its slice.
LEMMA SliceSumAppend ==
    ASSUME NEW measure \in Measures, NEW e \in Entries, NEW s
    PROVE  SliceSum(Append(measure, e), s)
              = SliceSum(measure, s) + (IF Slice[e.client] = s THEN e.rate ELSE 0)
  <1> DEFINE N == Len(measure)
  <1> DEFINE more == Append(measure, e)
  <1> DEFINE T == EntriesOf(more, s)
  <1>0. /\ more \in Measures /\ N \in Nat /\ Len(more) = N + 1
        /\ \A n \in 1 .. N : more[n] = measure[n]
        /\ more[N + 1] = e /\ DOMAIN more = 1 .. (N + 1) /\ DOMAIN measure = 1 .. N
    BY AppendProperties, EntryTypes DEF Measures
  <1>1. SumOfRates(more, T) = SumStep(more, T, N + 1, SumOfRates(measure, T))
    BY SumAppend
  <1> HIDE DEF more
  <1>2. \A n \in 1 .. N : n \in T <=> n \in EntriesOf(measure, s)
    BY <1>0 DEF EntriesOf
  <1>3. N + 1 \in T <=> Slice[e.client] = s
    BY <1>0 DEF EntriesOf
  <1> HIDE DEF T
  <1>4. SumOfRates(measure, T) = SliceSum(measure, s)
    BY <1>2, SumSame DEF SliceSum
  <1>5. SliceSum(measure, s) \in Nat
    BY SumIsNat DEF SliceSum
  <1>6. SliceSum(more, s) = SumOfRates(more, T)
    BY DEF SliceSum, T
  <1>7. SliceSum(more, s) = SliceSum(measure, s) + (IF Slice[e.client] = s THEN e.rate ELSE 0)
    BY <1>0, <1>1, <1>3, <1>4, <1>5, <1>6 DEF SumStep
  <1> QED
    BY <1>7 DEF more

-----------------------------------------------------------------------------
(***************************************************************************)
(* The rows of subscribed metrics.                                         *)
(***************************************************************************)
\* Values of a row: of a client, or the sums of the slices.
Sums == [slice : Slices, sum : Nat]
AllRows == [name : Names, ids : Seq(Nat), values : Seq(Nat \cup Seq(Sums))]

\* A row as it is measured, of one id.
PlainRows == {row \in AllRows : Len(row.ids) = 1 /\ Len(row.values) = 1}

\* Different rows are of different metrics.
NamesDiffer(rows) == \A i, j \in 1 .. Len(rows) : rows[i].name = rows[j].name => i = j

KeptStep(rows, n, kept) ==
    IF rows[n].name \in Subscribed THEN Append(kept, rows[n]) ELSE kept

IsKept(f, rows) ==
    /\ f \in [0 .. Len(rows) -> Seq(PlainRows)] /\ f[0] = <<>>
    /\ \A n \in 1 .. Len(rows) : f[n] = KeptStep(rows, n, f[n - 1])

LEMMA KeptUnfolds ==
    ASSUME NEW rows \in Seq(PlainRows)
    PROVE  \E f : IsKept(f, rows) /\ SubscribedRows(rows) = f[Len(rows)]
  <1> DEFINE N == Len(rows)
  <1> DEFINE S == Seq(PlainRows)
  <1> DEFINE b == [n \in 1 .. N |-> [x \in S |-> KeptStep(rows, n, x)]]
  <1> DEFINE u == CHOOSE f : f = [n \in 0 .. N |->
                      IF n = 0 THEN <<>> ELSE IF rows[n].name \in Subscribed THEN Append(f[n - 1], rows[n]) ELSE f[n - 1]]
  <1>0. N \in Nat /\ <<>> \in S /\ 0 \in 0 .. N
        /\ \A n \in 1 .. N : n \in 0 .. N /\ n # 0 /\ n - 1 \in 0 .. N
    BY LenProperties, EmptySeq
  <1>1. \A n \in 1 .. N, x \in S : KeptStep(rows, n, x) \in S
    BY AppendProperties, ElementOfSeq DEF KeptStep
  <1>2. b \in [1 .. N -> [S -> S]]
    <2> HIDE DEF S
    <2> QED
      BY <1>1
  <1>3. PICK f : IsLoop(f, S, N, b, <<>>)
    <2> HIDE DEF b, N, S
    <2> QED
      BY <1>0, <1>2, LoopExists
  <1> HIDE DEF S
  <1>4. f \in [0 .. N -> S] /\ f[0] = <<>>
    BY <1>3 DEF IsLoop
  <1>5. ASSUME NEW n \in 1 .. N PROVE f[n] = KeptStep(rows, n, f[n - 1])
    <2>1. f[n] = b[n][f[n - 1]] /\ f[n - 1] \in S
      BY <1>0, <1>3, <1>4 DEF IsLoop
    <2> QED
      BY <2>1
  <1>6. f = [n \in 0 .. N |-> IF n = 0 THEN <<>> ELSE IF rows[n].name \in Subscribed THEN Append(f[n - 1], rows[n]) ELSE f[n - 1]]
    <2>1. \A n \in 0 .. N : f[n] = IF n = 0 THEN <<>> ELSE IF rows[n].name \in Subscribed THEN Append(f[n - 1], rows[n]) ELSE f[n - 1]
      <3>1. \A n \in 0 .. N : n # 0 => n \in 1 .. N
        BY <1>0
      <3> HIDE DEF N
      <3> QED
        BY <1>4, <1>5, <3>1, Zenon DEF KeptStep
    <2>2. f = [n \in 0 .. N |-> f[n]]
      BY <1>4
    <2> HIDE DEF N
    <2> QED
      BY <2>1, <2>2, Zenon
  <1>7. u = [n \in 0 .. N |-> IF n = 0 THEN <<>> ELSE IF rows[n].name \in Subscribed THEN Append(u[n - 1], rows[n]) ELSE u[n - 1]]
    <2> HIDE DEF N
    <2> QED
      BY <1>6, Zenon
  <1>8. SubscribedRows(rows) = u[N]
    BY Zenon DEF SubscribedRows
  <1> HIDE DEF u
  <1>9. u[0] = <<>>
    BY <1>7, <1>0, Zenon
  <1>10. \A n \in 1 .. N : u[n] = KeptStep(rows, n, u[n - 1])
    BY <1>7, <1>0, Zenon DEF KeptStep
  <1>11. u \in [0 .. N -> S]
    <2> DEFINE P == {n \in 0 .. N : u[n] \in S}
    <2>1. 0 \in P
      BY <1>0, <1>9
    <2>2. \A n \in 1 .. N : n - 1 \in P => n \in P
      BY <1>0, <1>1, <1>10
    <2>3. P = 0 .. N
      <3>1. P \in SUBSET (0 .. N)
        OBVIOUS
      <3> HIDE DEF P, N
      <3> QED
        BY <1>0, <2>1, <2>2, <3>1, Rounds
    <2>4. \A n \in 0 .. N : u[n] \in S
      BY <2>3
    <2> HIDE DEF N
    <2> QED
      BY <2>4, <1>7, Zenon
  <1> QED
    BY <1>8, <1>9, <1>10, <1>11 DEF IsKept, S

\* What is kept of a measurement are some of its rows.
PartOf(part, rows, n) ==
    /\ \A j \in 1 .. Len(part) : part[j].name \in Subscribed /\ \E i \in 1 .. n : part[j] = rows[i]
    /\ NamesDiffer(part)

LEMMA KeptIsPart ==
    ASSUME NEW rows \in Seq(PlainRows), NamesDiffer(rows)
    PROVE  /\ SubscribedRows(rows) \in Seq(PlainRows)
           /\ PartOf(SubscribedRows(rows), rows, Len(rows))
  <1> DEFINE N == Len(rows)
  <1>0. N \in Nat
    BY LenProperties
  <1>1. PICK f : IsKept(f, rows) /\ SubscribedRows(rows) = f[N]
    BY KeptUnfolds
  <1> DEFINE P == {n \in 0 .. N : PartOf(f[n], rows, n)}
  <1>2. 0 \in P
    BY <1>0, <1>1, EmptySeq DEF IsKept, PartOf, NamesDiffer
  <1>3. ASSUME NEW n \in 1 .. N, n - 1 \in P PROVE n \in P
    <2>1. PICK part \in Seq(PlainRows) : part = f[n - 1]
      BY <1>0, <1>1 DEF IsKept
    <2>2. f[n] = KeptStep(rows, n, part)
      BY <1>1, <2>1 DEF IsKept
    <2>3. /\ \A j \in 1 .. Len(part) : part[j].name \in Subscribed
                                        /\ \E i \in 1 .. (n - 1) : part[j] = rows[i]
          /\ NamesDiffer(part)
      BY <1>3, <2>1 DEF PartOf
    <2>4. \A i \in 1 .. (n - 1) : i \in 1 .. n /\ i \in 1 .. N /\ i # n
      BY <1>0
    <2>5. CASE rows[n].name \notin Subscribed
      <3>1. f[n] = part
        BY <2>2, <2>5 DEF KeptStep
      <3>2. PartOf(f[n], rows, n)
        BY <2>3, <2>4, <3>1 DEF PartOf
      <3> QED
        BY <1>0, <3>2
    <2>6. CASE rows[n].name \in Subscribed
      <3>1. f[n] = Append(part, rows[n]) /\ rows[n] \in PlainRows
        BY <2>2, <2>6, ElementOfSeq DEF KeptStep
      <3>2. /\ Len(part) \in Nat /\ Len(f[n]) = Len(part) + 1 /\ f[n][Len(part) + 1] = rows[n]
            /\ \A j \in 1 .. Len(part) : f[n][j] = part[j]
        BY <3>1, AppendProperties, LenProperties
      <3>3. \A j \in 1 .. Len(part) : part[j].name # rows[n].name
        BY <2>3, <2>4 DEF NamesDiffer
      <3>4. \A j \in 1 .. Len(f[n]) : j \in 1 .. Len(part) \/ j = Len(part) + 1
        BY <3>2
      <3>5. \A j \in 1 .. Len(f[n]) : f[n][j].name \in Subscribed /\ \E i \in 1 .. n : f[n][j] = rows[i]
        BY <2>3, <2>4, <2>6, <3>2, <3>4
      <3>6. NamesDiffer(f[n])
        BY <2>3, <3>2, <3>3, <3>4 DEF NamesDiffer
      <3> QED
        BY <1>0, <3>5, <3>6 DEF PartOf
    <2> QED
      BY <2>5, <2>6
  <1>4. P = 0 .. N
    <2>1. P \in SUBSET (0 .. N)
      OBVIOUS
    <2> HIDE DEF P, N
    <2> QED
      BY <1>0, <1>2, <1>3, <2>1, Rounds
  <1>5. N \in P /\ f[N] \in Seq(PlainRows)
    BY <1>0, <1>1, <1>4 DEF IsKept
  <1> QED
    BY <1>1, <1>5

-----------------------------------------------------------------------------
(***************************************************************************)
(* The aggregation.                                                        *)
(***************************************************************************)
\* out is s with e put in at a position.
Inserted(out, s, at, e) ==
    /\ Len(out) = Len(s) + 1
    /\ \A i \in 1 .. (Len(s) + 1) : out[i] =
          IF i < at THEN s[i] ELSE IF i = at THEN e ELSE s[i - 1]

LEMMA InsertAtElements ==
    ASSUME NEW S, NEW s \in Seq(S), NEW e \in S, NEW at \in 1 .. (Len(s) + 1)
    PROVE  InsertAt(s, at, e) \in Seq(S) /\ Inserted(InsertAt(s, at, e), s, at, e)
  <1>0. Len(s) \in Nat /\ at \in Nat /\ \A i \in 1 .. Len(s) : s[i] \in S
    BY LenProperties, ElementOfSeq
  <1> DEFINE a == SubSeq(s, 1, at - 1)
  <1> DEFINE c == SubSeq(s, at, Len(s))
  <1>1. /\ a \in Seq(S) /\ Len(a) = at - 1
        /\ \A i \in 1 .. (at - 1) : a[i] = s[i]
    <2>1. \A i \in 1 .. (at - 1) : s[i] \in S
      BY <1>0
    <2>2. /\ a \in Seq(S) /\ Len(a) = (IF 1 <= at - 1 THEN (at - 1) - 1 + 1 ELSE 0)
          /\ \A i \in 1 .. ((at - 1) - 1 + 1) : a[i] = s[1 + i - 1]
      BY <1>0, <2>1, SubSeqProperties
    <2> HIDE DEF a
    <2> QED
      BY <1>0, <2>2
  <1>2. /\ c \in Seq(S) /\ Len(c) = Len(s) + 1 - at
        /\ \A i \in 1 .. (Len(s) + 1 - at) : c[i] = s[at + i - 1]
    <2>1. \A i \in at .. Len(s) : s[i] \in S
      BY <1>0
    <2>2. /\ c \in Seq(S) /\ Len(c) = (IF at <= Len(s) THEN Len(s) - at + 1 ELSE 0)
          /\ \A i \in 1 .. (Len(s) - at + 1) : c[i] = s[at + i - 1]
      BY <1>0, <2>1, SubSeqProperties
    <2> HIDE DEF c
    <2> QED
      BY <1>0, <2>2
  <1> HIDE DEF a, c
  <1> DEFINE ae == a \o <<e>>
  <1>3. <<e>> \in Seq(S) /\ Len(<<e>>) = 1 /\ <<e>>[1] = e
    OBVIOUS
  <1>4. /\ ae \in Seq(S) /\ Len(ae) = at
        /\ \A i \in 1 .. at : ae[i] = IF i < at THEN s[i] ELSE e
    <2>1. /\ ae \in Seq(S) /\ Len(ae) = Len(a) + 1
          /\ \A i \in 1 .. (Len(a) + 1) : ae[i] = IF i <= Len(a) THEN a[i] ELSE <<e>>[i - Len(a)]
      BY <1>1, <1>3, ConcatProperties
    <2>2. \A i \in 1 .. at : i <= at - 1 <=> i < at
      BY <1>0
    <2>3. \A i \in 1 .. at : ~ (i < at) => i - Len(a) = 1
      BY <1>0, <1>1
    <2> HIDE DEF ae
    <2> QED
      BY <1>0, <1>1, <1>3, <2>1, <2>2, <2>3
  <1> DEFINE out == ae \o c
  <1>5. /\ out \in Seq(S) /\ Len(out) = Len(s) + 1
        /\ \A i \in 1 .. (Len(s) + 1) : out[i] = IF i <= at THEN ae[i] ELSE c[i - at]
    <2>1. /\ out \in Seq(S) /\ Len(out) = Len(ae) + Len(c)
          /\ \A i \in 1 .. (Len(ae) + Len(c)) : out[i] = IF i <= Len(ae) THEN ae[i] ELSE c[i - Len(ae)]
      <3> HIDE DEF ae
      <3> QED
        BY <1>2, <1>4, ConcatProperties
    <2> HIDE DEF ae, out
    <2> QED
      BY <1>0, <1>2, <1>4, <2>1
  <1>6. InsertAt(s, at, e) = out
    BY DEF InsertAt, out, ae, a, c
  <1> HIDE DEF out, ae
  <1>7. ASSUME NEW i \in 1 .. (Len(s) + 1)
        PROVE out[i] = IF i < at THEN s[i] ELSE IF i = at THEN e ELSE s[i - 1]
    <2>1. CASE i <= at
      BY <1>0, <1>4, <1>5, <2>1
    <2>2. CASE i > at
      <3>1. i - at \in 1 .. (Len(s) + 1 - at) /\ at + (i - at) - 1 = i - 1
        BY <1>0, <2>2
      <3>2. c[i - at] = s[i - 1]
        BY <1>2, <3>1
      <3> QED
        BY <1>0, <1>5, <2>2, <3>2
    <2> QED
      BY <1>0, <2>1, <2>2
  <1> QED
    BY <1>5, <1>6, <1>7 DEF Inserted

\* A row whose ids have a value each, and one whose ids are in order.
PairedRows == {row \in AllRows : Len(row.ids) = Len(row.values) /\ Len(row.ids) > 0}
OrderedRows == {row \in PairedRows :
    \A i, j \in 1 .. Len(row.ids) : i < j => row.ids[i] < row.ids[j]}

Cell(row, i) == <<row.name, row.ids[i], row.values[i]>>
CellsOf(row) == {Cell(row, i) : i \in 1 .. Len(row.ids)}

LEMMA RowTypes ==
    ASSUME NEW row \in AllRows
    PROVE  /\ row = [name |-> row.name, ids |-> row.ids, values |-> row.values]
           /\ row.name \in Names /\ row.ids \in Seq(Nat) /\ row.values \in Seq(Nat \cup Seq(Sums))
           /\ Len(row.ids) \in Nat /\ Len(row.values) \in Nat
           /\ DOMAIN row.ids = 1 .. Len(row.ids)
           /\ \A i \in 1 .. Len(row.ids) : row.ids[i] \in Nat
  <1>1. /\ row = [name |-> row.name, ids |-> row.ids, values |-> row.values]
        /\ row.name \in Names /\ row.ids \in Seq(Nat) /\ row.values \in Seq(Nat \cup Seq(Sums))
    BY DEF AllRows
  <1> QED
    BY <1>1, LenProperties, ElementOfSeq

\* The id and the value of new stand in out before the first greater id of row.
PutBefore(out, row, new, at) ==
    /\ at = Len(row.ids) + 1 \/ row.ids[at] > new.ids[1]
    /\ \A j \in 1 .. (at - 1) : row.ids[j] <= new.ids[1]
    /\ Inserted(out.ids, row.ids, at, new.ids[1])
    /\ Inserted(out.values, row.values, at, new.values[1])

LEMMA InsertSortedPuts ==
    ASSUME NEW row \in PairedRows, NEW new \in PlainRows
    PROVE  /\ InsertSorted(row, new) \in PairedRows
           /\ InsertSorted(row, new).name = row.name
           /\ new.ids[1] \in Nat
           /\ \E at \in 1 .. (Len(row.ids) + 1) : PutBefore(InsertSorted(row, new), row, new, at)
  <1> DEFINE N == Len(row.ids)
  <1> DEFINE x == new.ids[1]
  <1> DEFINE v == new.values[1]
  <1>0. row \in AllRows /\ new \in AllRows /\ N \in Nat /\ Len(row.values) = N /\ N > 0
    BY RowTypes DEF PairedRows, PlainRows
  <1>1. x \in Nat /\ v \in Nat \cup Seq(Sums)
    <2>1. Len(new.ids) = 1 /\ Len(new.values) = 1
      BY DEF PlainRows
    <2> QED
      BY <1>0, <2>1, RowTypes, ElementOfSeq
  <1> DEFINE Fits(i) == /\ i = N + 1 \/ row.ids[i] > x
                        /\ \A j \in 1 .. (i - 1) : row.ids[j] <= x
  <1>2. \E i \in 1 .. (N + 1) : Fits(i)
    <2> DEFINE Later == {i \in 1 .. (N + 1) : i = N + 1 \/ row.ids[i] > x}
    <2>1. Later \in SUBSET Nat /\ N + 1 \in Later
      BY <1>0
    <2>2. PICK i \in Later : \A j \in Later : i <= j
      <3> HIDE DEF Later
      <3> QED
        BY <2>1, LeastNumber
    <2>3. \A j \in 1 .. (i - 1) : row.ids[j] <= x
      <3>1. \A j \in 1 .. (i - 1) : j \in 1 .. N /\ j \notin Later /\ row.ids[j] \in Nat
        BY <1>0, <2>2, RowTypes
      <3> QED
        BY <1>0, <1>1, <3>1
    <2> QED
      BY <2>2, <2>3
  <1> DEFINE at == CHOOSE i \in 1 .. (N + 1) : Fits(i)
  <1>a. at \in 1 .. (N + 1) /\ Fits(at)
    <2> HIDE DEF Fits
    <2> QED
      BY <1>2
  <1>3. /\ at \in 1 .. (N + 1)
        /\ at = N + 1 \/ row.ids[at] > x
        /\ \A j \in 1 .. (at - 1) : row.ids[j] <= x
    BY <1>a
  <1> DEFINE out == InsertSorted(row, new)
  <1>4. out = [row EXCEPT !.ids = InsertAt(row.ids, at, x), !.values = InsertAt(row.values, at, v)]
    BY DEF InsertSorted
  <1> HIDE DEF at, out, Fits
  <1>5. out = [name |-> row.name, ids |-> InsertAt(row.ids, at, x),
               values |-> InsertAt(row.values, at, v)]
    <2>1. PICK a, b : a = InsertAt(row.ids, at, x) /\ b = InsertAt(row.values, at, v)
      OBVIOUS
    <2>2. out = [row EXCEPT !.ids = a, !.values = b]
      BY <1>4, <2>1
    <2>3. row \in [name : Names, ids : Seq(Nat), values : Seq(Nat \cup Seq(Sums))]
      BY <1>0 DEF AllRows
    <2>4. out = [name |-> row.name, ids |-> a, values |-> b]
      BY <2>2, <2>3
    <2> QED
      BY <2>1, <2>4
  <1>6. out.name = row.name /\ out.ids = InsertAt(row.ids, at, x)
        /\ out.values = InsertAt(row.values, at, v)
    BY <1>5
  <1>7. out.ids \in Seq(Nat) /\ Inserted(out.ids, row.ids, at, x)
    <2> HIDE DEF x, v, N
    <2>1. PICK s \in Seq(Nat) : s = row.ids /\ Len(s) = N
      BY <1>0, RowTypes DEF N
    <2>2. PICK y \in Nat : y = x
      BY <1>1
    <2>3. PICK k \in 1 .. (Len(s) + 1) : k = at
      BY <1>3, <2>1 DEF N
    <2>4. InsertAt(s, k, y) \in Seq(Nat) /\ Inserted(InsertAt(s, k, y), s, k, y)
      BY InsertAtElements
    <2> QED
      BY <1>6, <2>1, <2>2, <2>3, <2>4
  <1>8. out.values \in Seq(Nat \cup Seq(Sums)) /\ Inserted(out.values, row.values, at, v)
    <2> HIDE DEF x, v, N
    <2>1. PICK s \in Seq(Nat \cup Seq(Sums)) : s = row.values /\ Len(s) = N
      BY <1>0, RowTypes DEF N
    <2>2. PICK y \in Nat \cup Seq(Sums) : y = v
      BY <1>1
    <2>3. PICK k \in 1 .. (Len(s) + 1) : k = at
      BY <1>3, <2>1 DEF N
    <2>4. InsertAt(s, k, y) \in Seq(Nat \cup Seq(Sums)) /\ Inserted(InsertAt(s, k, y), s, k, y)
      BY InsertAtElements
    <2> QED
      BY <1>6, <2>1, <2>2, <2>3, <2>4
  <1>9. out \in AllRows
    BY <1>0, <1>5, <1>6, <1>7, <1>8, RowTypes DEF AllRows
  <1>10. out \in PairedRows
    <2>1. Len(out.ids) = N + 1 /\ Len(out.values) = N + 1
      BY <1>0, <1>7, <1>8 DEF Inserted
    <2> QED
      BY <1>0, <1>9, <2>1 DEF PairedRows
  <1>11. PutBefore(out, row, new, at)
    BY <1>3, <1>7, <1>8 DEF PutBefore
  <1> QED
    BY <1>1, <1>3, <1>6, <1>10, <1>11 DEF out

LEMMA InsertSortedInserts ==
    ASSUME NEW row \in OrderedRows, NEW new \in PlainRows,
           \A i \in 1 .. Len(row.ids) : row.ids[i] # new.ids[1]
    PROVE  /\ InsertSorted(row, new) \in OrderedRows
           /\ InsertSorted(row, new).name = row.name
           /\ CellsOf(InsertSorted(row, new))
                 = CellsOf(row) \cup {<<row.name, new.ids[1], new.values[1]>>}
  <1> DEFINE N == Len(row.ids)
  <1> DEFINE x == new.ids[1]
  <1> DEFINE v == new.values[1]
  <1> DEFINE out == InsertSorted(row, new)
  <1>0. /\ row \in AllRows /\ row \in PairedRows /\ N \in Nat /\ Len(row.values) = N
        /\ \A i, j \in 1 .. N : i < j => row.ids[i] < row.ids[j]
    BY RowTypes DEF OrderedRows, PairedRows
  <1>1. x \in Nat /\ out \in PairedRows /\ out.name = row.name
    BY <1>0, InsertSortedPuts
  <1>2. PICK at \in 1 .. (N + 1) : PutBefore(out, row, new, at)
    BY <1>0, InsertSortedPuts
  <1>3. /\ at \in 1 .. (N + 1)
        /\ at = N + 1 \/ row.ids[at] > x
        /\ \A j \in 1 .. (at - 1) : row.ids[j] <= x
    BY <1>2 DEF PutBefore
  <1>6. out.name = row.name
    BY <1>1
  <1>7. /\ Len(out.ids) = N + 1
        /\ \A i \in 1 .. (N + 1) : out.ids[i] =
              IF i < at THEN row.ids[i] ELSE IF i = at THEN x ELSE row.ids[i - 1]
    BY <1>2 DEF PutBefore, Inserted
  <1>8. /\ Len(out.values) = N + 1
        /\ \A i \in 1 .. (N + 1) : out.values[i] =
              IF i < at THEN row.values[i] ELSE IF i = at THEN v ELSE row.values[i - 1]
    BY <1>0, <1>2 DEF PutBefore, Inserted
  <1> HIDE DEF out
  <1>10. \A i \in 1 .. N : row.ids[i] \in Nat /\ (i < at => row.ids[i] < x)
                           /\ (i >= at => row.ids[i] > x)
    <2> SUFFICES ASSUME NEW i \in 1 .. N
                 PROVE  row.ids[i] \in Nat /\ (i < at => row.ids[i] < x) /\ (i >= at => row.ids[i] > x)
      OBVIOUS
    <2>1. row.ids[i] \in Nat /\ row.ids[i] # x
      BY <1>0, RowTypes
    <2>2. i < at => row.ids[i] <= x
      BY <1>0, <1>3
    <2>3. i >= at => row.ids[i] > x
      <3>0. i >= at => at \in 1 .. N
        BY <1>0, <1>3
      <3>1. i >= at => at \in 1 .. N /\ row.ids[at] > x /\ row.ids[at] \in Nat
        BY <1>0, <1>3, <3>0, RowTypes
      <3>2. i > at => row.ids[at] < row.ids[i]
        BY <1>0, <1>3
      <3> QED
        BY <1>0, <1>1, <1>3, <2>1, <3>1, <3>2
    <2> QED
      BY <1>1, <2>1, <2>2, <2>3
  <1>11. ASSUME NEW i \in 1 .. (N + 1), NEW j \in 1 .. (N + 1), i < j
         PROVE  out.ids[i] < out.ids[j]
    <2> HIDE DEF x, v, N
    <2>1. at \in Nat /\ N \in Nat /\ x \in Nat /\ at <= N + 1
      BY <1>0, <1>1, <1>3
    <2>2. CASE j < at
      <3>1. i \in 1 .. N /\ j \in 1 .. N /\ i < at
        BY <2>1, <2>2, <1>11, <1>3
      <3> QED
        BY <1>0, <1>7, <1>11, <2>2, <3>1 DEF N
    <2>3. CASE j = at
      <3>1. i \in 1 .. N /\ i < at
        BY <2>1, <2>3, <1>11, <1>3
      <3>2. out.ids[i] = row.ids[i] /\ out.ids[j] = x
        BY <1>7, <2>1, <2>3, <3>1
      <3> QED
        BY <1>10, <3>1, <3>2
    <2>4. CASE j > at
      <3>1. j - 1 \in 1 .. N /\ j - 1 >= at /\ out.ids[j] = row.ids[j - 1]
        BY <2>1, <2>4, <1>7, <1>3
      <3>2. CASE i < at
        <4>1. i \in 1 .. N /\ out.ids[i] = row.ids[i]
          BY <2>1, <3>2, <1>7, <1>3
        <4>2. row.ids[i] < x /\ row.ids[i] \in Nat
          BY <1>10, <3>2, <4>1
        <4>3. x < row.ids[j - 1] /\ row.ids[j - 1] \in Nat
          BY <1>10, <3>1
        <4> QED
          BY <2>1, <3>1, <4>1, <4>2, <4>3
      <3>3. CASE i = at
        <4>1. out.ids[i] = x
          BY <1>7, <2>1, <3>3
        <4>2. x < row.ids[j - 1]
          BY <1>10, <3>1
        <4> QED
          BY <3>1, <4>1, <4>2
      <3>4. CASE i > at
        <4>1. i - 1 \in 1 .. N /\ i - 1 < j - 1 /\ out.ids[i] = row.ids[i - 1]
          BY <2>1, <3>4, <1>7, <1>3, <1>11
        <4> QED
          BY <1>0, <3>1, <4>1 DEF N
      <3> QED
        BY <2>1, <3>2, <3>3, <3>4
    <2> QED
      BY <2>1, <2>2, <2>3, <2>4
  <1>12. out \in OrderedRows
    BY <1>1, <1>7, <1>11 DEF OrderedRows
  <1>13. CellsOf(out) = CellsOf(row) \cup {<<row.name, x, v>>}
    <2> HIDE DEF x, v
    <2>1. ASSUME NEW i \in 1 .. (N + 1)
          PROVE  Cell(out, i) \in CellsOf(row) \cup {<<row.name, x, v>>}
      <3>1. CASE i < at
        <4>1. i \in 1 .. N
          BY <1>0, <1>3, <3>1
        <4>2. Cell(out, i) = Cell(row, i)
          BY <1>6, <1>7, <1>8, <3>1 DEF Cell
        <4> QED
          BY <4>1, <4>2 DEF CellsOf
      <3>2. CASE i = at
        <4>1. Cell(out, i) = <<row.name, x, v>>
          BY <1>6, <1>7, <1>8, <3>2 DEF Cell
        <4> QED
          BY <4>1
      <3>3. CASE i > at
        <4>1. i - 1 \in 1 .. N
          BY <1>0, <1>3, <3>3
        <4>2. Cell(out, i) = Cell(row, i - 1)
          BY <1>0, <1>3, <1>6, <1>7, <1>8, <3>3 DEF Cell
        <4> QED
          BY <4>1, <4>2 DEF CellsOf
      <3> QED
        BY <1>0, <1>3, <3>1, <3>2, <3>3
    <2>2. ASSUME NEW i \in 1 .. N PROVE Cell(row, i) \in CellsOf(out)
      <3>1. CASE i < at
        <4>1. i \in 1 .. (N + 1)
          BY <1>0
        <4>2. Cell(out, i) = Cell(row, i)
          BY <1>6, <1>7, <1>8, <3>1, <4>1 DEF Cell
        <4> QED
          BY <1>7, <4>1, <4>2 DEF CellsOf
      <3>2. CASE i >= at
        <4>1. i + 1 \in 1 .. (N + 1) /\ ~ (i + 1 < at) /\ i + 1 # at /\ (i + 1) - 1 = i
          BY <1>0, <1>3, <3>2
        <4>2. out.ids[i + 1] = row.ids[i] /\ out.values[i + 1] = row.values[i]
          BY <1>7, <1>8, <4>1
        <4>3. Cell(out, i + 1) = Cell(row, i)
          BY <1>6, <4>2 DEF Cell
        <4> QED
          BY <1>7, <4>1, <4>3 DEF CellsOf
      <3> QED
        BY <1>0, <1>3, <3>1, <3>2
    <2>3. <<row.name, x, v>> \in CellsOf(out)
      <3>1. Cell(out, at) = <<row.name, x, v>> /\ at \in 1 .. Len(out.ids)
        BY <1>3, <1>6, <1>7, <1>8 DEF Cell
      <3> QED
        BY <3>1 DEF CellsOf
    <2>4. CellsOf(out) \subseteq CellsOf(row) \cup {<<row.name, x, v>>}
      BY <1>7, <2>1 DEF CellsOf
    <2>5. CellsOf(row) \subseteq CellsOf(out)
      BY <2>2 DEF CellsOf
    <2> QED
      BY <2>3, <2>4, <2>5
  <1> QED
    BY <1>6, <1>12, <1>13 DEF out

\* One row more in the report.
LEMMA AddRowCases ==
    ASSUME NEW rows \in Seq(PairedRows), NEW new
    PROVE  \/ rows = <<>> /\ AddRow(rows, new) = rows
           \/ /\ \A i \in 1 .. Len(rows) : rows[i].name # new.name
              /\ rows # <<>> /\ AddRow(rows, new) = Append(rows, new)
           \/ \E i \in 1 .. Len(rows) :
                 /\ rows[i].name = new.name
                 /\ AddRow(rows, new) = [rows EXCEPT ![i] = InsertSorted(rows[i], new)]
  <1> DEFINE same == {i \in DOMAIN rows : rows[i].name = new.name}
  <1>1. DOMAIN rows = 1 .. Len(rows) /\ Len(rows) \in Nat
    BY LenProperties
  <1>2. CASE rows = <<>>
    BY <1>2 DEF AddRow
  <1>3. CASE rows # <<>> /\ same = {}
    <2>1. AddRow(rows, new) = Append(rows, new)
      BY <1>3, Zenon DEF AddRow
    <2> QED
      BY <1>1, <1>3, <2>1
  <1>4. CASE rows # <<>> /\ same # {}
    <2>1. same \in SUBSET Nat
      BY <1>1
    <2> DEFINE least == CHOOSE i \in same : \A j \in same : i <= j
    <2>2. least \in same
      <3>1. \E i \in same : \A j \in same : i <= j
        <4> HIDE DEF same
        <4> QED
          BY <1>4, <2>1, LeastNumber
      <3> HIDE DEF same
      <3> QED
        BY <3>1
    <2>3. AddRow(rows, new) = [rows EXCEPT ![least] = InsertSorted(rows[least], new)]
      BY <1>4 DEF AddRow
    <2> HIDE DEF least
    <2> QED
      BY <1>1, <2>2, <2>3
  <1> QED
    BY <1>2, <1>3, <1>4

LEMMA PlainIsOrdered ==
    ASSUME NEW new \in PlainRows
    PROVE  /\ new \in PairedRows /\ new \in OrderedRows /\ new \in AllRows
           /\ CellsOf(new) = {Cell(new, 1)}
  <1>1. new \in AllRows /\ Len(new.ids) = 1 /\ Len(new.values) = 1
    BY DEF PlainRows
  <1>a. Len(new.ids) = Len(new.values) /\ Len(new.ids) > 0
    BY <1>1
  <1>2. new \in PairedRows
    BY <1>1, <1>a, Zenon DEF PairedRows
  <1>3. new \in OrderedRows
    BY <1>1, <1>2 DEF OrderedRows
  <1> QED
    BY <1>1, <1>2, <1>3 DEF CellsOf

LEMMA AddRowPairs ==
    ASSUME NEW rows \in Seq(PairedRows), NEW new \in PlainRows
    PROVE  AddRow(rows, new) \in Seq(PairedRows)
  <1>1. CASE rows = <<>> /\ AddRow(rows, new) = rows
    BY <1>1
  <1>2. CASE AddRow(rows, new) = Append(rows, new)
    BY <1>2, PlainIsOrdered, AppendProperties
  <1>3. ASSUME NEW i \in 1 .. Len(rows), AddRow(rows, new) = [rows EXCEPT ![i] = InsertSorted(rows[i], new)]
        PROVE  AddRow(rows, new) \in Seq(PairedRows)
    <2>1. InsertSorted(rows[i], new) \in PairedRows
      BY ElementOfSeq, InsertSortedPuts
    <2> QED
      BY <1>3, <2>1, ExceptSeq
  <1> QED
    BY <1>1, <1>2, <1>3, AddRowCases

\* All cells of some rows.
RowCells(rows) == UNION {CellsOf(rows[i]) : i \in 1 .. Len(rows)}

\* The rows of a report: those of different metrics, ids in order, with the cells C.
Aggregates(rows, C) ==
    /\ rows \in Seq(OrderedRows) /\ rows # <<>>
    /\ NamesDiffer(rows)
    /\ RowCells(rows) = C

\* No cell has the key of the row.
Fresh(new, C) == \A x \in C : ~ (x[1] = new.name /\ x[2] = new.ids[1])

LEMMA AddRowAggregates ==
    ASSUME NEW rows, NEW C, Aggregates(rows, C), NEW new \in PlainRows, Fresh(new, C)
    PROVE  Aggregates(AddRow(rows, new), C \cup {Cell(new, 1)})
  <1> DEFINE N == Len(rows)
  <1> DEFINE out == AddRow(rows, new)
  <1>0. /\ rows \in Seq(OrderedRows) /\ rows # <<>> /\ NamesDiffer(rows) /\ RowCells(rows) = C
        /\ N \in Nat /\ \A i \in 1 .. N : rows[i] \in OrderedRows
        /\ rows \in Seq(PairedRows)
    <2>1. rows \in Seq(OrderedRows) /\ rows # <<>> /\ NamesDiffer(rows) /\ RowCells(rows) = C
      BY DEF Aggregates
    <2>2. OrderedRows \subseteq PairedRows
      BY DEF OrderedRows
    <2> QED
      BY <2>1, <2>2, LenProperties, ElementOfSeq, SeqMonotonic
  <1>1. new \in OrderedRows /\ CellsOf(new) = {Cell(new, 1)}
    BY PlainIsOrdered
  <1>2. CASE /\ \A i \in 1 .. N : rows[i].name # new.name
             /\ out = Append(rows, new)
    <2>1. /\ out \in Seq(OrderedRows) /\ out # <<>> /\ Len(out) = N + 1 /\ out[N + 1] = new
          /\ \A i \in 1 .. N : out[i] = rows[i]
      BY <1>0, <1>1, <1>2, AppendProperties
    <2> HIDE DEF out
    <2>2. \A i \in 1 .. (N + 1) : i \in 1 .. N \/ i = N + 1
      BY <1>0
    <2>3. NamesDiffer(out)
      BY <1>0, <1>2, <2>1, <2>2 DEF NamesDiffer
    <2>4. RowCells(out) = RowCells(rows) \cup CellsOf(new)
      <3>1. \A i \in 1 .. N : i \in 1 .. (N + 1)
        BY <1>0
      <3>2. N + 1 \in 1 .. (N + 1)
        BY <1>0
      <3>3. ASSUME NEW x \in RowCells(out) PROVE x \in RowCells(rows) \cup CellsOf(new)
        BY <2>1, <2>2 DEF RowCells
      <3>4. ASSUME NEW x \in RowCells(rows) PROVE x \in RowCells(out)
        BY <2>1, <3>1 DEF RowCells
      <3>5. ASSUME NEW x \in CellsOf(new) PROVE x \in RowCells(out)
        BY <2>1, <3>2 DEF RowCells
      <3> QED
        BY <3>3, <3>4, <3>5
    <2>5. RowCells(out) = C \cup {Cell(new, 1)}
      BY <1>0, <1>1, <2>4, Zenon
    <2>6. Aggregates(out, C \cup {Cell(new, 1)})
      BY <2>1, <2>3, <2>5, Zenon DEF Aggregates
    <2> QED
      BY <2>6 DEF out
  <1>3. ASSUME NEW i \in 1 .. N, rows[i].name = new.name,
               out = [rows EXCEPT ![i] = InsertSorted(rows[i], new)]
        PROVE  Aggregates(out, C \cup {Cell(new, 1)})
    <2>1. \A j \in 1 .. Len(rows[i].ids) : rows[i].ids[j] # new.ids[1]
      <3> SUFFICES ASSUME NEW j \in 1 .. Len(rows[i].ids), rows[i].ids[j] = new.ids[1] PROVE FALSE
        OBVIOUS
      <3>1. Cell(rows[i], j) \in C
        BY <1>0 DEF RowCells, CellsOf
      <3>2. Cell(rows[i], j)[1] = new.name /\ Cell(rows[i], j)[2] = new.ids[1]
        BY <1>3 DEF Cell
      <3> QED
        BY <3>1, <3>2 DEF Fresh
    <2>2. PICK row : row = InsertSorted(rows[i], new)
      OBVIOUS
    <2>3. row \in OrderedRows /\ row.name = rows[i].name
          /\ CellsOf(row) = CellsOf(rows[i]) \cup {Cell(new, 1)}
      BY <1>0, <1>3, <2>1, <2>2, InsertSortedInserts DEF Cell
    <2>4. /\ out \in Seq(OrderedRows) /\ Len(out) = N
          /\ \A j \in 1 .. N : out[j] = IF j = i THEN row ELSE rows[j]
      BY <1>0, <1>3, <2>2, <2>3, ExceptSeq
    <2> HIDE DEF out
    <2>5. out # <<>>
      BY <1>0, <2>4, EmptySeq
    <2>6. NamesDiffer(out)
      <3>1. \A j \in 1 .. N : out[j].name = rows[j].name
        BY <2>3, <2>4
      <3> QED
        BY <1>0, <2>4, <3>1 DEF NamesDiffer
    <2>7. RowCells(out) = C \cup {Cell(new, 1)}
      <3>1. \A j \in 1 .. N : CellsOf(out[j])
                = IF j = i THEN CellsOf(rows[i]) \cup {Cell(new, 1)} ELSE CellsOf(rows[j])
        BY <2>3, <2>4
      <3>2. ASSUME NEW x \in RowCells(out) PROVE x \in RowCells(rows) \cup {Cell(new, 1)}
        <4>1. PICK j \in 1 .. N : x \in CellsOf(out[j])
          BY <2>4 DEF RowCells
        <4>2. x \in CellsOf(rows[j]) \/ x = Cell(new, 1)
          BY <3>1, <4>1
        <4> QED
          BY <4>2 DEF RowCells
      <3>3. ASSUME NEW x \in RowCells(rows) PROVE x \in RowCells(out)
        <4>1. PICK j \in 1 .. N : x \in CellsOf(rows[j])
          BY DEF RowCells
        <4>2. x \in CellsOf(out[j])
          BY <3>1, <4>1
        <4> QED
          BY <2>4, <4>2 DEF RowCells
      <3>4. Cell(new, 1) \in RowCells(out)
        <4>1. Cell(new, 1) \in CellsOf(out[i])
          BY <3>1
        <4> QED
          BY <2>4, <4>1 DEF RowCells
      <3> QED
        BY <1>0, <3>2, <3>3, <3>4
    <2> QED
      BY <2>4, <2>5, <2>6, <2>7 DEF Aggregates
  <1> QED
    BY <1>0, <1>2, <1>3, AddRowCases

IsAdded(f, measurement, rows) ==
    /\ f \in [0 .. Len(measurement) -> Seq(PairedRows)] /\ f[0] = rows
    /\ \A n \in 1 .. Len(measurement) : f[n] = AddRow(f[n - 1], measurement[n])

LEMMA AddedUnfolds ==
    ASSUME NEW measurement \in Seq(PlainRows), NEW rows \in Seq(PairedRows)
    PROVE  \E f : IsAdded(f, measurement, rows) /\ AddMeasurement(rows, measurement) = f[Len(measurement)]
  <1> DEFINE N == Len(measurement)
  <1> DEFINE S == Seq(PairedRows)
  <1> DEFINE b == [n \in 1 .. N |-> [x \in S |-> AddRow(x, measurement[n])]]
  <1> DEFINE u == CHOOSE f : f = [n \in 0 .. N |->
                      IF n = 0 THEN rows ELSE AddRow(f[n - 1], measurement[n])]
  <1>0. N \in Nat /\ rows \in S /\ 0 \in 0 .. N
        /\ \A n \in 1 .. N : n \in 0 .. N /\ n # 0 /\ n - 1 \in 0 .. N
    BY LenProperties
  <1>1. \A n \in 1 .. N, x \in S : AddRow(x, measurement[n]) \in S
    BY AddRowPairs, ElementOfSeq
  <1>2. b \in [1 .. N -> [S -> S]]
    <2> HIDE DEF S
    <2> QED
      BY <1>1
  <1>3. PICK f : IsLoop(f, S, N, b, rows)
    <2> HIDE DEF b, N, S
    <2> QED
      BY <1>0, <1>2, LoopExists
  <1> HIDE DEF S
  <1>4. f \in [0 .. N -> S] /\ f[0] = rows
    BY <1>3 DEF IsLoop
  <1>5. ASSUME NEW n \in 1 .. N PROVE f[n] = AddRow(f[n - 1], measurement[n])
    <2>1. f[n] = b[n][f[n - 1]] /\ f[n - 1] \in S
      BY <1>0, <1>3, <1>4 DEF IsLoop
    <2> QED
      BY <2>1
  <1>6. f = [n \in 0 .. N |-> IF n = 0 THEN rows ELSE AddRow(f[n - 1], measurement[n])]
    <2>1. \A n \in 0 .. N : f[n] = IF n = 0 THEN rows ELSE AddRow(f[n - 1], measurement[n])
      <3>1. \A n \in 0 .. N : n # 0 => n \in 1 .. N
        BY <1>0
      <3> HIDE DEF N
      <3> QED
        BY <1>4, <1>5, <3>1, Zenon
    <2>2. f = [n \in 0 .. N |-> f[n]]
      BY <1>4
    <2> HIDE DEF N
    <2> QED
      BY <2>1, <2>2, Zenon
  <1>7. u = [n \in 0 .. N |-> IF n = 0 THEN rows ELSE AddRow(u[n - 1], measurement[n])]
    <2> HIDE DEF N
    <2> QED
      BY <1>6, Zenon
  <1>8. AddMeasurement(rows, measurement) = u[N]
    BY Zenon DEF AddMeasurement
  <1> HIDE DEF u
  <1>9. u[0] = rows
    BY <1>7, <1>0, Zenon
  <1>10. \A n \in 1 .. N : u[n] = AddRow(u[n - 1], measurement[n])
    BY <1>7, <1>0, Zenon
  <1>11. u \in [0 .. N -> S]
    <2> DEFINE P == {n \in 0 .. N : u[n] \in S}
    <2>1. 0 \in P
      BY <1>0, <1>9
    <2>2. \A n \in 1 .. N : n - 1 \in P => n \in P
      BY <1>0, <1>1, <1>10
    <2>3. P = 0 .. N
      <3>1. P \in SUBSET (0 .. N)
        OBVIOUS
      <3> HIDE DEF P, N
      <3> QED
        BY <1>0, <2>1, <2>2, <3>1, Rounds
    <2>4. \A n \in 0 .. N : u[n] \in S
      BY <2>3
    <2> HIDE DEF N
    <2> QED
      BY <2>4, <1>7, Zenon
  <1> QED
    BY <1>8, <1>9, <1>10, <1>11 DEF IsAdded, S

LEMMA AddMeasurementPairs ==
    ASSUME NEW rows \in Seq(PairedRows), NEW measurement \in Seq(PlainRows)
    PROVE  AddMeasurement(rows, measurement) \in Seq(PairedRows)
  <1>1. PICK f : IsAdded(f, measurement, rows)
                 /\ AddMeasurement(rows, measurement) = f[Len(measurement)]
    BY AddedUnfolds
  <1>2. Len(measurement) \in 0 .. Len(measurement)
    BY LenProperties
  <1> QED
    BY <1>1, <1>2 DEF IsAdded

\* The cells of the first n rows of a measurement.
FirstCells(measurement, n) == {Cell(measurement[j], 1) : j \in 1 .. n}

\* No two rows of a measurement have the same key.
KeysDiffer(measurement) ==
    \A i, j \in 1 .. Len(measurement) :
        (measurement[i].name = measurement[j].name /\ measurement[i].ids[1] = measurement[j].ids[1])
            => i = j

LEMMA AddMeasurementAggregates ==
    ASSUME NEW rows, NEW C, Aggregates(rows, C), NEW measurement \in Seq(PlainRows),
           KeysDiffer(measurement), \A j \in 1 .. Len(measurement) : Fresh(measurement[j], C)
    PROVE  Aggregates(AddMeasurement(rows, measurement),
                      C \cup FirstCells(measurement, Len(measurement)))
  <1> DEFINE N == Len(measurement)
  <1>0. N \in Nat /\ rows \in Seq(PairedRows)
    <2>1. OrderedRows \subseteq PairedRows
      BY DEF OrderedRows
    <2> QED
      BY <2>1, LenProperties, SeqMonotonic DEF Aggregates
  <1>1. PICK f : IsAdded(f, measurement, rows) /\ AddMeasurement(rows, measurement) = f[N]
    BY <1>0, AddedUnfolds
  <1> DEFINE P == {n \in 0 .. N : Aggregates(f[n], C \cup FirstCells(measurement, n))}
  <1>2. 0 \in P
    <2>1. FirstCells(measurement, 0) = {}
      BY DEF FirstCells
    <2>2. f[0] = rows
      BY <1>1 DEF IsAdded
    <2>3. C \cup FirstCells(measurement, 0) = C
      BY <2>1
    <2>4. 0 \in 0 .. N
      BY <1>0
    <2>5. Aggregates(f[0], C \cup FirstCells(measurement, 0))
      BY <2>2, <2>3, Zenon
    <2> QED
      BY <2>4, <2>5, Zenon
  <1>3. ASSUME NEW n \in 1 .. N, n - 1 \in P PROVE n \in P
    <2> DEFINE D == C \cup FirstCells(measurement, n - 1)
    <2>1. f[n] = AddRow(f[n - 1], measurement[n]) /\ Aggregates(f[n - 1], D)
      BY <1>1, <1>3 DEF IsAdded
    <2>2. measurement[n] \in PlainRows
      BY ElementOfSeq
    <2>3. Fresh(measurement[n], D)
      <3>1. ASSUME NEW j \in 1 .. (n - 1)
            PROVE  ~ (/\ Cell(measurement[j], 1)[1] = measurement[n].name
                      /\ Cell(measurement[j], 1)[2] = measurement[n].ids[1])
        <4>1. j \in 1 .. N /\ j # n
          BY <1>0
        <4> QED
          BY <4>1 DEF KeysDiffer, Cell
      <3> QED
        BY <3>1 DEF Fresh, FirstCells
    <2>4. D \cup {Cell(measurement[n], 1)} = C \cup FirstCells(measurement, n)
      <3>1. \A j \in 1 .. n : j \in 1 .. (n - 1) \/ j = n
        BY <1>0
      <3>2. n \in 1 .. n /\ \A j \in 1 .. (n - 1) : j \in 1 .. n
        BY <1>0
      <3>3. FirstCells(measurement, n) = FirstCells(measurement, n - 1) \cup {Cell(measurement[n], 1)}
        BY <3>1, <3>2 DEF FirstCells
      <3> QED
        BY <3>3
    <2> HIDE DEF D
    <2>5. Aggregates(f[n], D \cup {Cell(measurement[n], 1)})
      BY <2>1, <2>2, <2>3, AddRowAggregates
    <2>6. Aggregates(f[n], C \cup FirstCells(measurement, n)) /\ n \in 0 .. N
      <3>1. n \in 0 .. N
        BY <1>0
      <3> QED
        BY <2>4, <2>5, <3>1, Zenon
    <2> QED
      BY <2>6, Zenon
  <1>4. P = 0 .. N
    <2>1. P \in SUBSET (0 .. N)
      OBVIOUS
    <2> HIDE DEF P, N
    <2> QED
      BY <1>0, <1>2, <1>3, <2>1, Rounds
  <1>5. N \in 0 .. N
    BY <1>0
  <1>6. Aggregates(f[N], C \cup FirstCells(measurement, N))
    BY <1>4, <1>5, Zenon
  <1> QED
    BY <1>1, <1>6

LEMMA BatchFacts ==
    ASSUME NEW batch \in Seq(Seq(PlainRows)), Len(batch) > 0
    PROVE  /\ Len(batch) \in Nat /\ Len(batch) - 1 \in Nat
           /\ \A i \in 1 .. Len(batch) : batch[i] \in Seq(PlainRows)
           /\ batch[1] \in Seq(PairedRows)
           /\ \A n \in 1 .. (Len(batch) - 1) : batch[n + 1] \in Seq(PlainRows)
  <1>1. Len(batch) \in Nat /\ \A i \in 1 .. Len(batch) : batch[i] \in Seq(PlainRows)
    BY LenProperties, ElementOfSeq
  <1>2. batch[1] \in Seq(PlainRows) /\ PlainRows \subseteq PairedRows
    BY <1>1, PlainIsOrdered
  <1>3. batch[1] \in Seq(PairedRows)
    BY <1>2, SeqMonotonic
  <1>4. \A n \in 1 .. (Len(batch) - 1) : n + 1 \in 1 .. Len(batch)
    BY <1>1
  <1> QED
    BY <1>1, <1>3, <1>4

IsMerged(f, batch) ==
    /\ f \in [0 .. (Len(batch) - 1) -> Seq(PairedRows)] /\ f[0] = batch[1]
    /\ \A n \in 1 .. (Len(batch) - 1) : f[n] = AddMeasurement(f[n - 1], batch[n + 1])

LEMMA MergedUnfolds ==
    ASSUME NEW batch \in Seq(Seq(PlainRows)), Len(batch) > 0
    PROVE  \E f : IsMerged(f, batch) /\ NetworkStats(batch) = f[(Len(batch) - 1)]
  <1> DEFINE N == (Len(batch) - 1)
  <1> DEFINE S == Seq(PairedRows)
  <1> DEFINE b == [n \in 1 .. N |-> [x \in S |-> AddMeasurement(x, batch[n + 1])]]
  <1> DEFINE u == CHOOSE f : f = [n \in 0 .. N |->
                      IF n = 0 THEN batch[1] ELSE AddMeasurement(f[n - 1], batch[n + 1])]
  <1>0. N \in Nat /\ batch[1] \in S /\ 0 \in 0 .. N
        /\ \A n \in 1 .. N : n \in 0 .. N /\ n # 0 /\ n - 1 \in 0 .. N
    BY BatchFacts
  <1>1. \A n \in 1 .. N, x \in S : AddMeasurement(x, batch[n + 1]) \in S
    BY AddMeasurementPairs, BatchFacts
  <1>2. b \in [1 .. N -> [S -> S]]
    <2> HIDE DEF S
    <2> QED
      BY <1>1
  <1>3. PICK f : IsLoop(f, S, N, b, batch[1])
    <2> HIDE DEF b, N, S
    <2> QED
      BY <1>0, <1>2, LoopExists
  <1> HIDE DEF S
  <1>4. f \in [0 .. N -> S] /\ f[0] = batch[1]
    BY <1>3 DEF IsLoop
  <1>5. ASSUME NEW n \in 1 .. N PROVE f[n] = AddMeasurement(f[n - 1], batch[n + 1])
    <2>1. f[n] = b[n][f[n - 1]] /\ f[n - 1] \in S
      BY <1>0, <1>3, <1>4 DEF IsLoop
    <2> QED
      BY <2>1
  <1>6. f = [n \in 0 .. N |-> IF n = 0 THEN batch[1] ELSE AddMeasurement(f[n - 1], batch[n + 1])]
    <2>1. \A n \in 0 .. N : f[n] = IF n = 0 THEN batch[1] ELSE AddMeasurement(f[n - 1], batch[n + 1])
      <3>1. \A n \in 0 .. N : n # 0 => n \in 1 .. N
        BY <1>0
      <3> HIDE DEF N
      <3> QED
        BY <1>4, <1>5, <3>1, Zenon
    <2>2. f = [n \in 0 .. N |-> f[n]]
      BY <1>4
    <2> HIDE DEF N
    <2> QED
      BY <2>1, <2>2, Zenon
  <1>7. u = [n \in 0 .. N |-> IF n = 0 THEN batch[1] ELSE AddMeasurement(u[n - 1], batch[n + 1])]
    <2> HIDE DEF N
    <2> QED
      BY <1>6, Zenon
  <1>8. NetworkStats(batch) = u[N]
    BY Zenon DEF NetworkStats
  <1> HIDE DEF u
  <1>9. u[0] = batch[1]
    BY <1>7, <1>0, Zenon
  <1>10. \A n \in 1 .. N : u[n] = AddMeasurement(u[n - 1], batch[n + 1])
    BY <1>7, <1>0, Zenon
  <1>11. u \in [0 .. N -> S]
    <2> DEFINE P == {n \in 0 .. N : u[n] \in S}
    <2>1. 0 \in P
      BY <1>0, <1>9
    <2>2. \A n \in 1 .. N : n - 1 \in P => n \in P
      BY <1>0, <1>1, <1>10
    <2>3. P = 0 .. N
      <3>1. P \in SUBSET (0 .. N)
        OBVIOUS
      <3> HIDE DEF P, N
      <3> QED
        BY <1>0, <2>1, <2>2, <3>1, Rounds
    <2>4. \A n \in 0 .. N : u[n] \in S
      BY <2>3
    <2> HIDE DEF N
    <2> QED
      BY <2>4, <1>7, Zenon
  <1> QED
    BY <1>8, <1>9, <1>10, <1>11 DEF IsMerged, S

SameKey(a, b) == a.name = b.name /\ a.ids[1] = b.ids[1]

\* A batch whose rows all have their own key, and measurements with different metrics.
GoodBatch(batch) ==
    /\ batch \in Seq(Seq(PlainRows))
    /\ \A i \in 1 .. Len(batch) : NamesDiffer(batch[i])
    /\ \A i, k \in 1 .. Len(batch) : \A a \in 1 .. Len(batch[i]) : \A b \in 1 .. Len(batch[k]) :
           SameKey(batch[i][a], batch[k][b]) => i = k

\* The cells of the first n measurements of a batch.
BatchCells(batch, n) == UNION {FirstCells(batch[i], Len(batch[i])) : i \in 1 .. n}

LEMMA FirstAggregates ==
    ASSUME NEW rows \in Seq(PlainRows), NamesDiffer(rows), rows # <<>>
    PROVE  Aggregates(rows, FirstCells(rows, Len(rows)))
  <1>1. rows \in Seq(OrderedRows)
    <2>1. PlainRows \subseteq OrderedRows
      BY PlainIsOrdered
    <2> QED
      BY <2>1, SeqMonotonic
  <1>2. RowCells(rows) = FirstCells(rows, Len(rows))
    <2>1. \A i \in 1 .. Len(rows) : CellsOf(rows[i]) = {Cell(rows[i], 1)}
      BY PlainIsOrdered, ElementOfSeq
    <2> QED
      BY <2>1 DEF RowCells, FirstCells
  <1> QED
    BY <1>1, <1>2 DEF Aggregates

LEMMA NetworkStatsAggregates ==
    ASSUME NEW batch, GoodBatch(batch), Len(batch) > 0, batch[1] # <<>>
    PROVE  Aggregates(NetworkStats(batch), BatchCells(batch, Len(batch)))
  <1> DEFINE N == Len(batch) - 1
  <1>0. /\ batch \in Seq(Seq(PlainRows)) /\ N \in Nat /\ N + 1 = Len(batch)
        /\ \A i \in 1 .. (N + 1) : batch[i] \in Seq(PlainRows) /\ NamesDiffer(batch[i])
    <2>1. batch \in Seq(Seq(PlainRows))
      BY DEF GoodBatch
    <2> QED
      BY <2>1, BatchFacts DEF GoodBatch
  <1>1. PICK f : IsMerged(f, batch) /\ NetworkStats(batch) = f[N]
    BY <1>0, MergedUnfolds
  <1> DEFINE P == {n \in 0 .. N : Aggregates(f[n], BatchCells(batch, n + 1))}
  <1>2. 0 \in P
    <2>1. 1 \in 1 .. (N + 1) /\ 0 \in 0 .. N /\ 1 .. (0 + 1) = {1}
      BY <1>0
    <2>2. BatchCells(batch, 0 + 1) = FirstCells(batch[1], Len(batch[1]))
      BY <2>1 DEF BatchCells
    <2>3. f[0] = batch[1]
      BY <1>1 DEF IsMerged
    <2>4. Aggregates(batch[1], FirstCells(batch[1], Len(batch[1])))
      BY <1>0, <2>1, FirstAggregates
    <2>5. Aggregates(f[0], BatchCells(batch, 0 + 1))
      BY <2>2, <2>3, <2>4, Zenon
    <2> QED
      BY <2>1, <2>5, Zenon
  <1>3. ASSUME NEW n \in 1 .. N, n - 1 \in P PROVE n \in P
    <2>0. n \in 0 .. N /\ n + 1 \in 1 .. (N + 1) /\ (n - 1) + 1 = n
      BY <1>0
    <2> DEFINE m == batch[n + 1]
    <2> DEFINE C == BatchCells(batch, n)
    <2>1. f[n] = AddMeasurement(f[n - 1], m)
      BY <1>1 DEF IsMerged
    <2>2. Aggregates(f[n - 1], C)
      <3>1. Aggregates(f[n - 1], BatchCells(batch, (n - 1) + 1))
        BY <1>3
      <3> QED
        BY <2>0, <3>1
    <2>3. m \in Seq(PlainRows) /\ NamesDiffer(m)
      BY <1>0, <2>0
    <2>4. KeysDiffer(m)
      BY <2>3 DEF KeysDiffer, NamesDiffer
    <2>5. ASSUME NEW j \in 1 .. Len(m) PROVE Fresh(m[j], C)
      <3> SUFFICES ASSUME NEW i \in 1 .. n, NEW a \in 1 .. Len(batch[i]),
                          Cell(batch[i][a], 1)[1] = m[j].name,
                          Cell(batch[i][a], 1)[2] = m[j].ids[1]
                   PROVE  FALSE
        BY DEF Fresh, BatchCells, FirstCells
      <3>1. SameKey(batch[i][a], m[j])
        BY DEF SameKey, Cell
      <3>2. i \in 1 .. Len(batch) /\ n + 1 \in 1 .. Len(batch) /\ i # n + 1
        BY <1>0, <2>0
      <3> QED
        BY <3>1, <3>2 DEF GoodBatch
    <2>6. C \cup FirstCells(m, Len(m)) = BatchCells(batch, n + 1)
      <3>1. \A i \in 1 .. (n + 1) : i \in 1 .. n \/ i = n + 1
        BY <1>0
      <3>2. n + 1 \in 1 .. (n + 1) /\ \A i \in 1 .. n : i \in 1 .. (n + 1)
        BY <1>0
      <3> QED
        BY <3>1, <3>2 DEF BatchCells
    <2> HIDE DEF m, C
    <2>7. Aggregates(f[n], C \cup FirstCells(m, Len(m)))
      BY <2>1, <2>2, <2>3, <2>4, <2>5, AddMeasurementAggregates
    <2>8. Aggregates(f[n], BatchCells(batch, n + 1))
      BY <2>6, <2>7, Zenon
    <2> QED
      BY <2>0, <2>8, Zenon
  <1>4. P = 0 .. N
    <2>1. P \in SUBSET (0 .. N)
      OBVIOUS
    <2> HIDE DEF P, N
    <2> QED
      BY <1>0, <1>2, <1>3, <2>1, Rounds
  <1>5. N \in 0 .. N
    BY <1>0
  <1>6. Aggregates(f[N], BatchCells(batch, N + 1))
    BY <1>4, <1>5, Zenon
  <1> QED
    BY <1>0, <1>1, <1>6

\* The aggregation meets its reference.
LEMMA AggregateOfBatch ==
    ASSUME NEW batch, GoodBatch(batch), Len(batch) > 0, batch[1] # <<>>
    PROVE  /\ IsAggregateOf(NetworkStats(batch), batch)
           /\ \A row \in ToSet(NetworkStats(batch)) :
                 \E i \in 1 .. Len(batch) : \E a \in 1 .. Len(batch[i]) :
                     batch[i][a].name = row.name /\ batch[i][a].values[1] = row.values[1]
  <1> DEFINE rows == NetworkStats(batch)
  <1>0. /\ batch \in Seq(Seq(PlainRows)) /\ DOMAIN batch = 1 .. Len(batch)
        /\ \A i \in 1 .. Len(batch) : batch[i] \in Seq(PlainRows)
                                      /\ DOMAIN batch[i] = 1 .. Len(batch[i])
    <2>1. batch \in Seq(Seq(PlainRows))
      BY DEF GoodBatch
    <2> QED
      BY <2>1, BatchFacts, LenProperties
  <1>1. /\ rows \in Seq(OrderedRows) /\ NamesDiffer(rows)
        /\ RowCells(rows) = BatchCells(batch, Len(batch))
    BY NetworkStatsAggregates DEF Aggregates
  <1> HIDE DEF rows
  <1>2. /\ DOMAIN rows = 1 .. Len(rows)
        /\ \A i \in 1 .. Len(rows) : rows[i] \in OrderedRows
    BY <1>1, LenProperties, ElementOfSeq
  <1>3. \A row \in OrderedRows :
           /\ DOMAIN row.ids = 1 .. Len(row.ids) /\ 1 \in 1 .. Len(row.ids)
           /\ \A i, j \in 1 .. Len(row.ids) : i < j => row.ids[i] < row.ids[j]
    <2>1. \A row \in OrderedRows : row \in AllRows /\ Len(row.ids) > 0
      BY DEF OrderedRows, PairedRows
    <2> QED
      BY <2>1, RowTypes DEF OrderedRows
  <1>4. Cells(rows) = RowCells(rows)
    <2> DEFINE G(i) == {<<rows[i].name, rows[i].ids[j], rows[i].values[j]>> :
                            j \in DOMAIN rows[i].ids}
    <2>1. \A i \in 1 .. Len(rows) : G(i) = CellsOf(rows[i])
      BY <1>2, <1>3 DEF CellsOf, Cell
    <2>2. Cells(rows) = UNION {G(i) : i \in 1 .. Len(rows)}
      BY <1>2 DEF Cells, ToSet
    <2> HIDE DEF G
    <2>3. \A x : x \in UNION {G(i) : i \in 1 .. Len(rows)} <=> x \in RowCells(rows)
      BY <2>1 DEF RowCells
    <2> QED
      BY <2>2, <2>3
  <1>5. \A i \in 1 .. Len(batch) : Cells(batch[i]) = FirstCells(batch[i], Len(batch[i]))
    <2> SUFFICES ASSUME NEW i \in 1 .. Len(batch)
                 PROVE  Cells(batch[i]) = FirstCells(batch[i], Len(batch[i]))
      OBVIOUS
    <2> DEFINE m == batch[i]
    <2>1. m \in Seq(PlainRows) /\ DOMAIN m = 1 .. Len(m)
      BY <1>0
    <2>2. \A a \in 1 .. Len(m) : m[a] \in PlainRows
      BY <2>1, ElementOfSeq
    <2>3. \A a \in 1 .. Len(m) : DOMAIN m[a].ids = {1}
      <3>1. \A row \in PlainRows : DOMAIN row.ids = {1}
        BY RowTypes DEF PlainRows
      <3> QED
        BY <2>2, <3>1
    <2> HIDE DEF m
    <2>4. Cells(m) = FirstCells(m, Len(m))
      BY <2>1, <2>3 DEF Cells, FirstCells, Cell, ToSet
    <2> QED
      BY <2>4 DEF m
  <1>6. UNION {Cells(batch[i]) : i \in DOMAIN batch} = BatchCells(batch, Len(batch))
    BY <1>0, <1>5 DEF BatchCells
  <1>7. \A i, j \in DOMAIN rows : i # j => rows[i].name # rows[j].name
    BY <1>1, <1>2 DEF NamesDiffer
  <1>8. \A row \in ToSet(rows) : row \in OrderedRows
    BY <1>2 DEF ToSet
  <1>9. \A row \in ToSet(rows) : \A i, j \in DOMAIN row.ids : i < j => row.ids[i] < row.ids[j]
    BY <1>3, <1>8
  <1>10. IsAggregateOf(rows, batch)
    BY <1>1, <1>4, <1>6, <1>7, <1>9 DEF IsAggregateOf
  <1>11. ASSUME NEW row \in ToSet(rows)
         PROVE  \E i \in 1 .. Len(batch) : \E a \in 1 .. Len(batch[i]) :
                    batch[i][a].name = row.name /\ batch[i][a].values[1] = row.values[1]
    <2>1. Cell(row, 1) \in BatchCells(batch, Len(batch))
      <3>1. PICK k \in 1 .. Len(rows) : row = rows[k]
        BY <1>2, <1>11 DEF ToSet
      <3>2. 1 \in 1 .. Len(row.ids)
        BY <1>3, <1>8, <1>11
      <3> QED
        BY <1>1, <3>1, <3>2 DEF RowCells, CellsOf
    <2>2. PICK i \in 1 .. Len(batch) : \E a \in 1 .. Len(batch[i]) : Cell(row, 1) = Cell(batch[i][a], 1)
      BY <2>1 DEF BatchCells, FirstCells
    <2> QED
      BY <2>2 DEF Cell
  <1> QED
    BY <1>10, <1>11 DEF rows

-----------------------------------------------------------------------------
(***************************************************************************)
(* The invariants of the data.                                             *)
(***************************************************************************)
DataTypes ==
    /\ now \in Nat /\ toReport \subseteq Sources /\ repeats \in 0 .. MaxRepeats
    /\ m_dlQosMeasure \in Measures /\ m_moreMeasurement \in Seq(Sums)
    /\ m_qosMarking \in [Clients -> {0, 1}]
    /\ inbox \in Seq([ts : 1 .. now])
    /\ m_measurementSentTsMs \in 0 .. now /\ answered \in 0 .. now /\ applied \in 0 .. now

\* The instants of a session have positive time stamps.
StampInv ==
    /\ m_measurementStarted => now > 0
    /\ phase = "wait" => m_measurementSentTsMs > 0

\* The sources report while the simulator runs; the first report of an instant
\* schedules the exchange.
InstantInv ==
    /\ phase # "run" => toReport = {} /\ ~ exchange
    /\ phase = "run" /\ m_measurementStarted /\ ~ exchange => toReport = {} \/ toReport = Sources
    /\ phase = "fatal" => m_waitCounter <= sent /\ sent < TotalSteps

\* Who measured a row of the batch.
SourceOf(row) == IF row.name = "rb_usage" THEN Enb ELSE row.ids[1]
FromSources(batch, S) ==
    \A i \in 1 .. Len(batch) : \A a \in 1 .. Len(batch[i]) :
        batch[i][a].name # "slice_rate" /\ SourceOf(batch[i][a]) \in S

\* The batch holds the rows of those that have reported, and waits for an exchange.
BatchInv ==
    /\ GoodBatch(m_measurementBatch)
    /\ FromSources(m_measurementBatch, Sources \ toReport)
    /\ m_measurementBatch # <<>> => exchange

\* The clients whose rates are saved for the next action.
Reported == IF exchange \/ phase = "wait" THEN Clients \ toReport ELSE {}

\* After z entries without a rate there is one entry for each client of R.
HasEntries(measure, R, z) ==
    /\ Len(measure) - z = Cardinality(R)
    /\ \A i \in 1 .. z : measure[i].rate = 0
    /\ \A i \in (z + 1) .. Len(measure) : measure[i].client \in R
    /\ \A i, j \in (z + 1) .. Len(measure) : measure[i].client = measure[j].client => i = j
    /\ \A c \in R : \E i \in (z + 1) .. Len(measure) : measure[i].client = c

MeasureInv ==
    /\ \A i \in 1 .. Len(m_dlQosMeasure) : m_dlQosMeasure[i].mark = ClientMarking
    /\ phase # "fatal" /\ (m_measurementStarted \/ sent = 0) =>
           \E z \in 0 .. Len(m_dlQosMeasure) : HasEntries(m_dlQosMeasure, Reported, z)

\* The sums of the slices are those of the rates saved.
HasSums(more, measure) ==
    /\ \A i, j \in 1 .. Len(more) : more[i].slice = more[j].slice => i = j
    /\ \A i \in 1 .. Len(more) : more[i].sum = SliceSum(measure, more[i].slice)

HasSlices(more, R) == \A c \in R : \E i \in 1 .. Len(more) : more[i].slice = Slice[c]

MoreInv ==
    /\ m_moreMeasurement # <<>> => exchange /\ "slice_rate" \in Subscribed
    /\ HasSums(m_moreMeasurement, m_dlQosMeasure)
    /\ exchange /\ "slice_rate" \in Subscribed => HasSlices(m_moreMeasurement, Clients \ toReport)

\* The report stays as it was sent until it is answered; so do the rates.
IsSliceReport(value, measure) ==
    \E more \in Seq(Sums) :
        value = more /\ HasSums(more, measure) /\ HasSlices(more, Clients)

SliceRowsRight(batch, measure) ==
    \A i \in 1 .. Len(batch) : \A a \in 1 .. Len(batch[i]) :
        batch[i][a].name = "slice_rate" => IsSliceReport(batch[i][a].values[1], measure)

ReportInv ==
    /\ GoodBatch(report)
    /\ report # <<>> => /\ toReport = {} /\ ~ exchange
                        /\ phase # "run" \/ (~ m_measurementStarted /\ sent > 0)
    /\ SliceRowsRight(report, m_dlQosMeasure)

-----------------------------------------------------------------------------
(***************************************************************************)
(* The batch.                                                              *)
(***************************************************************************)
FreshTo(m, batch) ==
    \A i \in 1 .. Len(batch) : \A a \in 1 .. Len(batch[i]) : \A b \in 1 .. Len(m) :
        ~ SameKey(batch[i][a], m[b])

LEMMA EmptyBatch == GoodBatch(<<>>) /\ \A S : FromSources(<<>>, S)
  <1>1. <<>> \in Seq(Seq(PlainRows)) /\ Len(<<>>) = 0
    BY EmptySeq
  <1> QED
    BY <1>1 DEF GoodBatch, FromSources

LEMMA AppendedBatch ==
    ASSUME NEW batch, GoodBatch(batch), NEW m \in Seq(PlainRows)
    PROVE  /\ Append(batch, m) \in Seq(Seq(PlainRows)) /\ Len(batch) \in Nat
           /\ Len(Append(batch, m)) = Len(batch) + 1
           /\ Append(batch, m)[Len(batch) + 1] = m
           /\ \A i \in 1 .. Len(batch) : Append(batch, m)[i] = batch[i] /\ i # Len(batch) + 1
           /\ \A i \in 1 .. (Len(batch) + 1) : i \in 1 .. Len(batch) \/ i = Len(batch) + 1
  <1>1. batch \in Seq(Seq(PlainRows))
    BY DEF GoodBatch
  <1> QED
    BY <1>1, AppendProperties, LenProperties

LEMMA GoodAppend ==
    ASSUME NEW batch, GoodBatch(batch), NEW m \in Seq(PlainRows), NamesDiffer(m),
           FreshTo(m, batch)
    PROVE  GoodBatch(Append(batch, m))
  <1> DEFINE more == Append(batch, m)
  <1> DEFINE N == Len(batch)
  <1>1. /\ more \in Seq(Seq(PlainRows)) /\ N \in Nat
        /\ Len(more) = N + 1
        /\ more[N + 1] = m
        /\ \A i \in 1 .. N : more[i] = batch[i] /\ i # N + 1
        /\ \A i \in 1 .. (N + 1) : i \in 1 .. N \/ i = N + 1
    BY AppendedBatch
  <1> HIDE DEF more
  <1>2. \A i \in 1 .. (N + 1) : NamesDiffer(more[i])
    BY <1>1 DEF GoodBatch
  <1>3. ASSUME NEW i \in 1 .. (N + 1), NEW k \in 1 .. (N + 1), NEW a \in 1 .. Len(more[i]),
               NEW b \in 1 .. Len(more[k]), SameKey(more[i][a], more[k][b])
        PROVE  i = k
    <2>1. CASE i \in 1 .. N /\ k \in 1 .. N
      BY <1>1, <1>3, <2>1 DEF GoodBatch
    <2>2. CASE i \in 1 .. N /\ k = N + 1
      BY <1>1, <1>3, <2>2 DEF FreshTo
    <2>3. CASE i = N + 1 /\ k \in 1 .. N
      <3>1. more[i] = m /\ more[k] = batch[k]
        BY <1>1, <2>3
      <3>2. ~ SameKey(batch[k][b], m[a])
        BY <1>3, <2>3, <3>1 DEF FreshTo
      <3> QED
        BY <1>3, <3>1, <3>2 DEF SameKey
    <2> QED
      BY <1>1, <2>1, <2>2, <2>3
  <1>4. GoodBatch(more)
    BY <1>1, <1>2, <1>3 DEF GoodBatch
  <1> QED
    BY <1>4 DEF more

LEMMA FromAppend ==
    ASSUME NEW batch, GoodBatch(batch), NEW m \in Seq(PlainRows), NEW S, FromSources(batch, S),
           \A a \in 1 .. Len(m) : m[a].name # "slice_rate" /\ SourceOf(m[a]) \in S
    PROVE  FromSources(Append(batch, m), S)
  BY AppendedBatch DEF FromSources

\* A source that has not reported has no row in the batch.
LEMMA FreshSource ==
    ASSUME NEW batch, NEW S, FromSources(batch, S), NEW m,
           \A a \in 1 .. Len(m) : SourceOf(m[a]) \notin S
    PROVE  FreshTo(m, batch)
  <1>1. \A a, b : SameKey(a, b) => SourceOf(a) = SourceOf(b)
    BY DEF SameKey, SourceOf
  <1> QED
    BY <1>1 DEF FromSources, FreshTo

\* A measurement of a source: rows of different metrics.
IsMeasurement(m, s) ==
    /\ m \in Seq(PlainRows) /\ NamesDiffer(m)
    /\ \A a \in 1 .. Len(m) : m[a].name # "slice_rate" /\ SourceOf(m[a]) = s

LEMMA KeptMeasurement ==
    ASSUME NEW m, NEW s, IsMeasurement(m, s)
    PROVE  /\ IsMeasurement(SubscribedRows(m), s)
           /\ \A j \in 1 .. Len(SubscribedRows(m)) :
                 \E i \in 1 .. Len(m) : SubscribedRows(m)[j] = m[i]
  <1>1. m \in Seq(PlainRows) /\ NamesDiffer(m)
    BY DEF IsMeasurement
  <1>2. SubscribedRows(m) \in Seq(PlainRows) /\ PartOf(SubscribedRows(m), m, Len(m))
    BY <1>1, KeptIsPart
  <1> QED
    BY <1>2 DEF IsMeasurement, PartOf

LEMMA RowIsPlain ==
    ASSUME NEW name \in Names, NEW id \in Nat, NEW value \in Nat \cup Seq(Sums)
    PROVE  /\ Row(name, id, value) \in PlainRows
           /\ Row(name, id, value).name = name /\ Row(name, id, value).ids[1] = id
           /\ Row(name, id, value).values[1] = value
  <1> DEFINE row == Row(name, id, value)
  <1>1. /\ row = [name |-> name, ids |-> <<id>>, values |-> <<value>>]
        /\ <<id>> \in Seq(Nat) /\ <<value>> \in Seq(Nat \cup Seq(Sums))
        /\ Len(<<id>>) = 1 /\ Len(<<value>>) = 1 /\ <<id>>[1] = id /\ <<value>>[1] = value
    BY DEF Row
  <1>2. row \in AllRows
    BY <1>1 DEF AllRows
  <1> QED
    BY <1>1, <1>2 DEF PlainRows

LEMMA ClientMeasurements ==
    ASSUME NEW c \in Clients, NEW rate \in Nat
    PROVE  /\ IsMeasurement(<<Row("rate", c, rate), Row("owd", c, rate)>>, c)
           /\ IsMeasurement(<<Row("cell_id", c, 0)>>, c)
           /\ \A i, j : i \in 1 .. 2 /\ j \in 1 .. 1 =>
                 <<Row("rate", c, rate), Row("owd", c, rate)>>[i].name # <<Row("cell_id", c, 0)>>[j].name
  <1>0. c \in Nat /\ rate \in Nat \cup Seq(Sums) /\ 0 \in Nat \cup Seq(Sums)
    BY GymAssumption
  <1>1. PICK x, y, z : x = Row("rate", c, rate) /\ y = Row("owd", c, rate) /\ z = Row("cell_id", c, 0)
    OBVIOUS
  <1>2. /\ x \in PlainRows /\ x.name = "rate" /\ x.ids[1] = c
        /\ y \in PlainRows /\ y.name = "owd" /\ y.ids[1] = c
        /\ z \in PlainRows /\ z.name = "cell_id" /\ z.ids[1] = c
    BY <1>0, <1>1, RowIsPlain DEF Names
  <1>3. IsMeasurement(<<x, y>>, c)
    <2>1. <<x, y>> \in Seq(PlainRows) /\ Len(<<x, y>>) = 2 /\ <<x, y>>[1] = x /\ <<x, y>>[2] = y
      BY <1>2
    <2>2. \A a \in 1 .. 2 : a = 1 \/ a = 2
      OBVIOUS
    <2>3. NamesDiffer(<<x, y>>)
      BY <1>2, <2>1, <2>2 DEF NamesDiffer
    <2> QED
      BY <1>2, <2>1, <2>2, <2>3 DEF IsMeasurement, SourceOf
  <1>4. IsMeasurement(<<z>>, c)
    <2>1. <<z>> \in Seq(PlainRows) /\ Len(<<z>>) = 1 /\ <<z>>[1] = z
      BY <1>2
    <2>2. \A a \in 1 .. 1 : a = 1
      OBVIOUS
    <2>3. NamesDiffer(<<z>>)
      BY <1>2, <2>1, <2>2 DEF NamesDiffer
    <2> QED
      BY <1>2, <2>1, <2>2, <2>3 DEF IsMeasurement, SourceOf
  <1>5. \A i, j : i \in 1 .. 2 /\ j \in 1 .. 1 => <<x, y>>[i].name # <<z>>[j].name
    <2>1. \A i \in 1 .. 2 : i = 1 \/ i = 2
      OBVIOUS
    <2>2. \A j \in 1 .. 1 : j = 1
      OBVIOUS
    <2> QED
      BY <1>2, <2>1, <2>2
  <1> QED
    BY <1>1, <1>3, <1>4, <1>5

LEMMA EnbMeasurements == IsMeasurement(<<Row("rb_usage", NETWORK_CELL, 0)>>, Enb)
  <1>1. PICK x : x = Row("rb_usage", NETWORK_CELL, 0)
    OBVIOUS
  <1>2. x \in PlainRows /\ x.name = "rb_usage"
    BY <1>1, RowIsPlain DEF Names, NETWORK_CELL
  <1>3. <<x>> \in Seq(PlainRows) /\ Len(<<x>>) = 1 /\ <<x>>[1] = x
    BY <1>2
  <1>4. \A a \in 1 .. 1 : a = 1
    OBVIOUS
  <1>5. NamesDiffer(<<x>>)
    BY <1>3, <1>4 DEF NamesDiffer
  <1>6. IsMeasurement(<<x>>, Enb)
    BY <1>2, <1>3, <1>4, <1>5 DEF IsMeasurement, SourceOf
  <1> QED
    BY <1>1, <1>6

\* A measurement of a source that has not reported.
LEMMA NewMeasurement ==
    ASSUME NEW batch, NEW S, GoodBatch(batch), FromSources(batch, S),
           NEW s, s \notin S, NEW m, IsMeasurement(m, s)
    PROVE  GoodBatch(Append(batch, m)) /\ FromSources(Append(batch, m), S \cup {s})
  <1>1. m \in Seq(PlainRows) /\ NamesDiffer(m)
    BY DEF IsMeasurement
  <1>2. FreshTo(m, batch)
    BY FreshSource DEF IsMeasurement
  <1>3. FromSources(batch, S \cup {s})
    BY DEF FromSources
  <1> QED
    BY <1>1, <1>2, <1>3, GoodAppend, FromAppend DEF IsMeasurement

\* The next measurement of the same source, of other metrics.
LEMMA NextMeasurement ==
    ASSUME NEW batch, NEW S, GoodBatch(batch), FromSources(batch, S),
           NEW s, s \notin S, NEW m, IsMeasurement(m, s), NEW n, IsMeasurement(n, s),
           \A i \in 1 .. Len(m) : \A j \in 1 .. Len(n) : m[i].name # n[j].name
    PROVE  GoodBatch(Append(Append(batch, m), n)) /\ FromSources(Append(Append(batch, m), n), S \cup {s})
  <1>1. GoodBatch(Append(batch, m)) /\ FromSources(Append(batch, m), S \cup {s})
    BY NewMeasurement
  <1>2. n \in Seq(PlainRows) /\ NamesDiffer(n) /\ m \in Seq(PlainRows)
    BY DEF IsMeasurement
  <1>3. FreshTo(n, batch)
    BY FreshSource DEF IsMeasurement
  <1>4. FreshTo(n, Append(batch, m))
    <2> SUFFICES ASSUME NEW i \in 1 .. Len(Append(batch, m)), NEW a \in 1 .. Len(Append(batch, m)[i]),
                        NEW b \in 1 .. Len(n), SameKey(Append(batch, m)[i][a], n[b])
                 PROVE  FALSE
      BY DEF FreshTo
    <2>1. CASE i \in 1 .. Len(batch)
      BY <1>2, <1>3, <2>1, AppendedBatch DEF FreshTo
    <2>2. CASE i = Len(batch) + 1
      BY <1>2, <2>2, AppendedBatch DEF SameKey
    <2> QED
      BY <1>2, <2>1, <2>2, AppendedBatch
  <1> QED
    BY <1>1, <1>2, <1>4, GoodAppend, FromAppend DEF IsMeasurement

-----------------------------------------------------------------------------
(***************************************************************************)
(* The rates that the clients saved, and the sums of the slices.           *)
(***************************************************************************)
Entry(c, rate) == [client |-> c, rate |-> rate, mark |-> ClientMarking]

LEMMA EntryIsEntry ==
    ASSUME NEW c \in Clients, NEW rate \in Rates
    PROVE  /\ Entry(c, rate) \in Entries /\ Entry(c, rate).client = c
           /\ Entry(c, rate).rate = rate /\ Entry(c, rate).mark = ClientMarking
  BY DEF Entry, Entries, ClientMarking

LEMMA AppendedEntry ==
    ASSUME NEW measure \in Measures, NEW c \in Clients, NEW rate \in Rates
    PROVE  /\ Append(measure, Entry(c, rate)) \in Measures /\ Len(measure) \in Nat
           /\ Len(Append(measure, Entry(c, rate))) = Len(measure) + 1
           /\ Append(measure, Entry(c, rate))[Len(measure) + 1] = Entry(c, rate)
           /\ \A i \in 1 .. Len(measure) : Append(measure, Entry(c, rate))[i] = measure[i]
  BY EntryIsEntry, AppendProperties, LenProperties DEF Measures

\* A client reports.
LEMMA NextEntry ==
    ASSUME NEW measure \in Measures, NEW R \in SUBSET Clients, NEW z \in 0 .. Len(measure),
           HasEntries(measure, R, z), NEW c \in Clients \ R, NEW rate \in Rates
    PROVE  HasEntries(Append(measure, Entry(c, rate)), R \cup {c}, z)
  <1> DEFINE N == Len(measure)
  <1> DEFINE more == Append(measure, Entry(c, rate))
  <1>1. /\ N \in Nat /\ Len(more) = N + 1 /\ more[N + 1].client = c
        /\ \A i \in 1 .. N : more[i] = measure[i]
    BY AppendedEntry, EntryIsEntry
  <1>2. /\ N - z = Cardinality(R)
        /\ \A i \in 1 .. z : measure[i].rate = 0
        /\ \A i \in (z + 1) .. N : measure[i].client \in R
        /\ \A i, j \in (z + 1) .. N : measure[i].client = measure[j].client => i = j
        /\ \A x \in R : \E i \in (z + 1) .. N : measure[i].client = x
    BY DEF HasEntries
  <1> HIDE DEF more
  <1>3. (N + 1) - z = Cardinality(R \cup {c})
    <2>1. IsFiniteSet(R)
      BY GymAssumption, FS_Subset
    <2>2. Cardinality(R) \in Nat /\ Cardinality(R \cup {c}) = Cardinality(R) + 1
      BY <2>1, FS_AddElement, FS_CardinalityType
    <2> QED
      BY <1>1, <1>2, <2>2
  <1>4. /\ \A i \in 1 .. z : i \in 1 .. N
        /\ \A i \in (z + 1) .. N : i \in 1 .. N /\ i # N + 1 /\ i \in (z + 1) .. (N + 1)
        /\ \A i \in (z + 1) .. (N + 1) : i \in (z + 1) .. N \/ i = N + 1
        /\ N + 1 \in (z + 1) .. (N + 1)
    BY <1>1
  <1>5. \A i \in 1 .. z : more[i].rate = 0
    BY <1>1, <1>2, <1>4
  <1>6. \A i \in (z + 1) .. (N + 1) : more[i].client \in R \cup {c}
    BY <1>1, <1>2, <1>4
  <1>7. \A i, j \in (z + 1) .. (N + 1) : more[i].client = more[j].client => i = j
    BY <1>1, <1>2, <1>4
  <1>8. \A x \in R \cup {c} : \E i \in (z + 1) .. (N + 1) : more[i].client = x
    BY <1>1, <1>2, <1>4
  <1>9. HasEntries(more, R \cup {c}, z)
    BY <1>1, <1>3, <1>5, <1>6, <1>7, <1>8 DEF HasEntries
  <1> QED
    BY <1>9 DEF more

\* A client reports before the start.
LEMMA EarlyEntry ==
    ASSUME NEW measure \in Measures, NEW z \in 0 .. Len(measure), HasEntries(measure, {}, z),
           NEW c \in Clients, 0 \in Rates
    PROVE  HasEntries(Append(measure, Entry(c, 0)), {}, Len(measure) + 1)
  <1> DEFINE N == Len(measure)
  <1> DEFINE more == Append(measure, Entry(c, 0))
  <1>1. /\ N \in Nat /\ Len(more) = N + 1 /\ more[N + 1].rate = 0
        /\ \A i \in 1 .. N : more[i] = measure[i]
    BY AppendedEntry, EntryIsEntry
  <1>2. z = N /\ \A i \in 1 .. z : measure[i].rate = 0
    BY <1>1, FS_EmptySet DEF HasEntries
  <1>3. \A i \in 1 .. (N + 1) : i \in 1 .. N \/ i = N + 1
    BY <1>1
  <1> HIDE DEF more
  <1>4. \A i \in 1 .. (N + 1) : more[i].rate = 0
    BY <1>1, <1>2, <1>3
  <1>5. (N + 1) - (N + 1) = Cardinality({}) /\ ((N + 1) + 1) .. (N + 1) = {}
    BY <1>1, FS_EmptySet
  <1>6. HasEntries(more, {}, N + 1)
    BY <1>1, <1>4, <1>5 DEF HasEntries
  <1> QED
    BY <1>6 DEF more

LEMMA NoEntries == <<>> \in Measures /\ Len(<<>>) = 0 /\ HasEntries(<<>>, {}, 0)
  <1>1. <<>> \in Measures /\ Len(<<>>) = 0 /\ Cardinality({}) = 0
    BY EmptySeq, FS_EmptySet DEF Measures
  <1> QED
    BY <1>1 DEF HasEntries

LEMMA SumOfNone ==
    ASSUME NEW measure \in Measures
    PROVE  SumOfRates(measure, {}) = 0
  <1> DEFINE N == Len(measure)
  <1>1. PICK f : IsSum(f, measure, {}) /\ SumOfRates(measure, {}) = f[N]
    BY SumUnfolds
  <1>2. N \in Nat
    BY EntryTypes
  <1> DEFINE P == {n \in 0 .. N : f[n] = 0}
  <1>3. 0 \in P /\ \A n \in 1 .. N : n - 1 \in P => n \in P
    BY <1>1, <1>2 DEF IsSum, SumStep
  <1>4. P = 0 .. N
    <2>1. P \in SUBSET (0 .. N)
      OBVIOUS
    <2> HIDE DEF P, N
    <2> QED
      BY <1>2, <1>3, <2>1, Rounds
  <1> QED
    BY <1>1, <1>2, <1>4

\* A slice none of whose clients have reported has no rate.
LEMMA NoSliceSum ==
    ASSUME NEW measure \in Measures, NEW R, NEW z \in 0 .. Len(measure), HasEntries(measure, R, z),
           NEW s, \A c \in R : Slice[c] # s
    PROVE  SliceSum(measure, s) = 0
  <1> DEFINE N == Len(measure)
  <1>1. N \in Nat /\ DOMAIN measure = 1 .. N
    BY EntryTypes
  <1>2. \A n \in 1 .. N : measure[n].rate = 0 \/ n \notin EntriesOf(measure, s)
    <2>1. \A n \in 1 .. N : n \in 1 .. z \/ n \in (z + 1) .. N
      BY <1>1
    <2> QED
      BY <2>1 DEF HasEntries, EntriesOf
  <1>3. SumOfRates(measure, EntriesOf(measure, s)) = SumOfRates(measure, {})
    BY <1>2, SumSame
  <1> QED
    BY <1>3, SumOfNone DEF SliceSum

-----------------------------------------------------------------------------
\* AppendSliceMeasurement, as a function of the sums so far.
AddRate(more, slice, rate) ==
    LET known == {i \in DOMAIN more : more[i].slice = slice}
    IN  IF known = {} THEN Append(more, [slice |-> slice, sum |-> rate])
        ELSE [i \in DOMAIN more |->
                IF i \in known THEN [more[i] EXCEPT !.sum = @ + rate] ELSE more[i]]

LEMMA SumsElements ==
    ASSUME NEW more \in Seq(Sums)
    PROVE  /\ Len(more) \in Nat /\ DOMAIN more = 1 .. Len(more)
           /\ \A i \in 1 .. Len(more) :
                 /\ more[i] = [slice |-> more[i].slice, sum |-> more[i].sum]
                 /\ more[i].slice \in Slices /\ more[i].sum \in Nat
  <1>1. \A e \in Sums : e = [slice |-> e.slice, sum |-> e.sum] /\ e.slice \in Slices /\ e.sum \in Nat
    BY DEF Sums
  <1> QED
    BY <1>1, LenProperties, ElementOfSeq

LEMMA AddRateSums ==
    ASSUME NEW more \in Seq(Sums), NEW measure \in Measures, HasSums(more, measure),
           NEW R \in SUBSET Clients, NEW z \in 0 .. Len(measure), HasEntries(measure, R, z),
           HasSlices(more, R), NEW c \in Clients \ R, NEW rate \in Rates
    PROVE  /\ AddRate(more, Slice[c], rate) \in Seq(Sums)
           /\ HasSums(AddRate(more, Slice[c], rate), Append(measure, Entry(c, rate)))
           /\ HasSlices(AddRate(more, Slice[c], rate), R \cup {c})
  <1> DEFINE s == Slice[c]
  <1> DEFINE N == Len(more)
  <1> DEFINE out == AddRate(more, s, rate)
  <1> DEFINE known == {i \in DOMAIN more : more[i].slice = s}
  <1> DEFINE measured == Append(measure, Entry(c, rate))
  <1>0. /\ N \in Nat /\ DOMAIN more = 1 .. N /\ s \in Slices /\ rate \in Nat
        /\ \A i \in 1 .. N : /\ more[i] = [slice |-> more[i].slice, sum |-> more[i].sum]
                             /\ more[i].slice \in Slices /\ more[i].sum \in Nat
    BY SumsElements, GymAssumption DEF Slices
  <1>1. \A t : SliceSum(measured, t) = SliceSum(measure, t) + (IF s = t THEN rate ELSE 0)
               /\ SliceSum(measure, t) \in Nat
    BY EntryIsEntry, SliceSumAppend, SumIsNat DEF SliceSum
  <1>2. /\ \A i, j \in 1 .. N : more[i].slice = more[j].slice => i = j
        /\ \A i \in 1 .. N : more[i].sum = SliceSum(measure, more[i].slice)
        /\ \A x \in R : \E i \in 1 .. N : more[i].slice = Slice[x]
    BY DEF HasSums, HasSlices
  <1> HIDE DEF measured
  <1>3. CASE known = {}
    <2>1. out = Append(more, [slice |-> s, sum |-> rate])
      BY <1>3 DEF AddRate
    <2>2. [slice |-> s, sum |-> rate] \in Sums
      BY <1>0 DEF Sums
    <2> HIDE DEF s
    <2>3. /\ out \in Seq(Sums) /\ Len(out) = N + 1
          /\ out[N + 1].slice = s /\ out[N + 1].sum = rate
          /\ \A i \in 1 .. N : out[i] = more[i]
      BY <2>1, <2>2, AppendProperties
    <2> HIDE DEF out
    <2>4. \A i \in 1 .. (N + 1) : i \in 1 .. N \/ i = N + 1
      BY <1>0
    <2>5. \A i \in 1 .. N : more[i].slice # s /\ i \in 1 .. (N + 1)
      BY <1>0, <1>3
    <2>6. SliceSum(measure, s) = 0
      <3>1. \A x \in R : Slice[x] # s
        BY <1>2, <2>5
      <3> QED
        BY <3>1, NoSliceSum
    <2>7. \A i, j \in 1 .. (N + 1) : out[i].slice = out[j].slice => i = j
      BY <1>2, <2>3, <2>4, <2>5
    <2>8. \A i \in 1 .. (N + 1) : out[i].sum = SliceSum(measured, out[i].slice)
      <3>1. out[N + 1].sum = SliceSum(measured, out[N + 1].slice)
        BY <1>0, <1>1, <2>3, <2>6
      <3>2. ASSUME NEW i \in 1 .. N PROVE out[i].sum = SliceSum(measured, out[i].slice)
        BY <1>0, <1>1, <1>2, <2>3, <2>5
      <3> QED
        BY <2>4, <3>1, <3>2
    <2>9. \A x \in R \cup {c} : \E i \in 1 .. (N + 1) : out[i].slice = Slice[x]
      <3>1. out[N + 1].slice = Slice[c] /\ N + 1 \in 1 .. (N + 1)
        BY <1>0, <2>3 DEF s
      <3>2. ASSUME NEW x \in R PROVE \E i \in 1 .. (N + 1) : out[i].slice = Slice[x]
        BY <1>2, <2>3, <2>5
      <3> QED
        BY <3>1, <3>2
    <2>10. out \in Seq(Sums) /\ HasSums(out, measured) /\ HasSlices(out, R \cup {c})
      BY <2>3, <2>7, <2>8, <2>9 DEF HasSums, HasSlices
    <2> QED
      BY <2>10 DEF out, s, measured
  <1>4. CASE known # {}
    <2> DEFINE after(i) == IF more[i].slice = s THEN [slice |-> s, sum |-> more[i].sum + rate] ELSE more[i]
    <2>1. out = [i \in 1 .. N |-> after(i)]
      <3>1. out = [i \in DOMAIN more |->
                     IF i \in known THEN [more[i] EXCEPT !.sum = @ + rate] ELSE more[i]]
        BY <1>4 DEF AddRate
      <3>2. \A i \in 1 .. N : after(i) = IF i \in known THEN [more[i] EXCEPT !.sum = @ + rate] ELSE more[i]
        BY <1>0
      <3> HIDE DEF after, known, out
      <3> QED
        BY <1>0, <3>1, <3>2
    <2> HIDE DEF s
    <2>2. \A i \in 1 .. N : after(i) \in Sums
      BY <1>0 DEF Sums
    <2>3. out \in Seq(Sums) /\ Len(out) = N /\ \A i \in 1 .. N : out[i] = after(i)
      <3>1. [i \in 1 .. N |-> after(i)] \in Seq(Sums)
        <4> HIDE DEF after
        <4> QED
          BY <1>0, <2>2, IsASeq
      <3> HIDE DEF after, out
      <3> QED
        BY <1>0, <2>1, <3>1, LenProperties
    <2> HIDE DEF out
    <2>4. \A i \in 1 .. N : /\ out[i].slice = more[i].slice
                            /\ out[i].sum = more[i].sum + (IF s = more[i].slice THEN rate ELSE 0)
      <3> SUFFICES ASSUME NEW i \in 1 .. N
                   PROVE  /\ out[i].slice = more[i].slice
                          /\ out[i].sum = more[i].sum + (IF s = more[i].slice THEN rate ELSE 0)
        OBVIOUS
      <3>1. PICK k \in Nat : k = more[i].sum
        BY <1>0
      <3>2. CASE more[i].slice = s
        <4>1. out[i] = [slice |-> s, sum |-> k + rate]
          BY <2>3, <3>1, <3>2
        <4> QED
          BY <3>1, <3>2, <4>1
      <3>3. CASE more[i].slice # s
        <4>1. out[i] = more[i]
          BY <2>3, <3>3
        <4> QED
          BY <3>1, <3>3, <4>1
      <3> QED
        BY <3>2, <3>3
    <2>5. \A i, j \in 1 .. N : out[i].slice = out[j].slice => i = j
      BY <1>2, <2>4
    <2>6. \A i \in 1 .. N : out[i].sum = SliceSum(measured, out[i].slice)
      BY <1>1, <1>2, <2>4
    <2>7. \A x \in R \cup {c} : \E i \in 1 .. N : out[i].slice = Slice[x]
      <3>1. PICK i \in 1 .. N : more[i].slice = s
        BY <1>0, <1>4
      <3>2. out[i].slice = Slice[c]
        BY <2>4, <3>1 DEF s
      <3>3. ASSUME NEW x \in R PROVE \E k \in 1 .. N : out[k].slice = Slice[x]
        BY <1>2, <2>4
      <3> QED
        BY <3>1, <3>2, <3>3
    <2>8. out \in Seq(Sums) /\ HasSums(out, measured) /\ HasSlices(out, R \cup {c})
      BY <2>3, <2>5, <2>6, <2>7 DEF HasSums, HasSlices
    <2> QED
      BY <2>8 DEF out, s, measured
  <1> QED
    BY <1>3, <1>4

-----------------------------------------------------------------------------
(***************************************************************************)
(* The priorities of the clients.                                          *)
(***************************************************************************)
\* The rate of the entries of a slice up to entry i.
PrefixRate(measure, s, i) == SumOfRates(measure, {j \in EntriesOf(measure, s) : j <= i})

\* No client has lost its priority before: entry i keeps it when the entries up to i
\* have at most 70 % of the rate of the slice.
LEMMA PriorityOfEntry ==
    ASSUME m_dlQosMeasure \in Measures, NEW s, NEW i \in EntriesOf(m_dlQosMeasure, s),
           \A n \in 1 .. Len(m_dlQosMeasure) : m_dlQosMeasure[n].mark = ClientMarking
    PROVE  CalcQosMarkingActionPerSlice(EntriesOf(m_dlQosMeasure, s))[i]
              = IF 10 * PrefixRate(m_dlQosMeasure, s, i) <= 7 * SliceSum(m_dlQosMeasure, s)
                THEN 1 ELSE 0
  <1> DEFINE list == EntriesOf(m_dlQosMeasure, s)
  <1> DEFINE marked == {k \in list : m_dlQosMeasure[k].mark > 0}
  <1> DEFINE unmarked == list \ marked
  <1> DEFINE qos == SumOfRates(m_dlQosMeasure, marked)
  <1> DEFINE nqos == SumOfRates(m_dlQosMeasure, unmarked)
  <1> DEFINE raised == IF 10 * qos < 7 * (qos + nqos) /\ unmarked # {}
                       THEN {CHOOSE k \in unmarked : \A j \in unmarked : k <= j} ELSE {}
  <1> DEFINE Above(rate) == 10 * rate > 9 * (rate + nqos) /\ 10 * rate > 7 * qos
  <1> DEFINE lowered == {k \in list : Above(SumOfRates(m_dlQosMeasure, {j \in marked : j <= k}))}
  <1>1. CalcQosMarkingActionPerSlice(list)
           = [k \in list |-> CASE k \in lowered -> 0 [] k \in raised -> 1
                               [] OTHER -> m_dlQosMeasure[k].mark]
    BY DEF CalcQosMarkingActionPerSlice
  <1>2. \A k \in list : m_dlQosMeasure[k].mark = 1
    BY EntryTypes DEF EntriesOf, ClientMarking
  <1>3. marked = list
    BY <1>2
  <1>4. unmarked = {}
    BY <1>3
  <1>5. raised = {}
    BY <1>4
  <1>6. nqos = 0
    BY <1>4, SumOfNone
  <1>7. qos = SliceSum(m_dlQosMeasure, s) /\ qos \in Nat
    BY <1>3, SumIsNat DEF SliceSum
  <1> DEFINE rate == SumOfRates(m_dlQosMeasure, {j \in marked : j <= i})
  <1>8. rate = PrefixRate(m_dlQosMeasure, s, i) /\ rate \in Nat
    BY <1>3, SumIsNat DEF PrefixRate
  <1>9. i \in lowered <=> Above(rate)
    OBVIOUS
  <1>10. Above(rate) <=> ~ (10 * rate <= 7 * qos)
    <2> HIDE DEF rate, qos, nqos
    <2> QED
      BY <1>6, <1>7, <1>8
  <1> HIDE DEF raised, lowered, Above, rate, qos
  <1>11. CalcQosMarkingActionPerSlice(list)[i] = IF i \in lowered THEN 0 ELSE 1
    BY <1>1, <1>2, <1>5
  <1> QED
    BY <1>7, <1>8, <1>9, <1>10, <1>11

\* Of several entries of a client the one of the last instant counts.
LEMMA PriorityOfClient ==
    ASSUME m_dlQosMeasure \in Measures, NEW z \in 0 .. Len(m_dlQosMeasure),
           HasEntries(m_dlQosMeasure, Clients, z),
           \A n \in 1 .. Len(m_dlQosMeasure) : m_dlQosMeasure[n].mark = ClientMarking,
           NEW i \in (z + 1) .. Len(m_dlQosMeasure), NEW c \in Clients,
           m_dlQosMeasure[i].client = c
    PROVE  CalcQosMarkingAction[c]
              = IF 10 * PrefixRate(m_dlQosMeasure, Slice[c], i) <= 7 * SliceSum(m_dlQosMeasure, Slice[c])
                THEN 1 ELSE 0
  <1> DEFINE N == Len(m_dlQosMeasure)
  <1> DEFINE list == EntriesOf(m_dlQosMeasure, Slice[c])
  <1> DEFINE own == {k \in list : m_dlQosMeasure[k].client = c}
  <1>1. N \in Nat /\ DOMAIN m_dlQosMeasure = 1 .. N
    BY EntryTypes
  <1>2. i \in own
    BY <1>1 DEF EntriesOf
  <1>3. \A k \in own : k \in 1 .. N /\ k <= i
    <2> SUFFICES ASSUME NEW k \in own PROVE k \in 1 .. N /\ k <= i
      OBVIOUS
    <2>1. k \in 1 .. N /\ m_dlQosMeasure[k].client = c
      BY <1>1 DEF EntriesOf
    <2>2. k \in (z + 1) .. N => k = i
      BY <2>1 DEF HasEntries
    <2>3. k \in (z + 1) .. N \/ k <= i
      BY <1>1, <2>1
    <2> QED
      BY <1>1, <2>1, <2>2, <2>3
  <1> DEFINE last == CHOOSE k \in own : \A j \in own : k >= j
  <1>4. last = i
    <2>0. i \in Nat /\ \A k \in own : k \in Nat /\ i >= k
      BY <1>1, <1>3
    <2> HIDE DEF own
    <2>1. last \in own /\ \A j \in own : last >= j
      <3>1. \E k \in own : \A j \in own : k >= j
        BY <1>2, <2>0
      <3> QED
        BY <3>1
    <2> HIDE DEF last
    <2>2. last >= i /\ i >= last /\ last \in Nat
      BY <1>2, <2>0, <2>1
    <2> QED
      BY <2>0, <2>2
  <1>5. CalcQosMarkingAction[c] = CalcQosMarkingActionPerSlice(list)[last]
    BY DEF CalcQosMarkingAction
  <1>6. i \in list
    BY <1>2
  <1> HIDE DEF last
  <1> QED
    BY <1>4, <1>5, <1>6, PriorityOfEntry

LEMMA MarkingTypes ==
    ASSUME m_dlQosMeasure \in Measures, NEW z \in 0 .. Len(m_dlQosMeasure),
           HasEntries(m_dlQosMeasure, Clients, z),
           \A n \in 1 .. Len(m_dlQosMeasure) : m_dlQosMeasure[n].mark = ClientMarking
    PROVE  CalcQosMarkingAction \in [Clients -> {0, 1}]
  <1>1. ASSUME NEW c \in Clients PROVE CalcQosMarkingAction[c] \in {0, 1}
    <2>1. PICK i \in (z + 1) .. Len(m_dlQosMeasure) : m_dlQosMeasure[i].client = c
      BY DEF HasEntries
    <2> QED
      BY <2>1, PriorityOfClient
  <1>2. CalcQosMarkingAction = [c \in Clients |-> CalcQosMarkingAction[c]]
    BY DEF CalcQosMarkingAction
  <1> QED
    BY <1>1, <1>2

\* The counters and the control state.
ControlTypes ==
    /\ sent \in Nat /\ m_waitCounter \in Nat
    /\ m_measurementStarted \in BOOLEAN /\ exchange \in BOOLEAN
    /\ phase \in {"run", "wait", "fatal"}

\* Only a started session schedules the exchange, waits for the agent or is stopped.
OnlyWhenStarted == (exchange \/ phase # "run") => m_measurementStarted

\* A wait is for the action of the last report, which is not the last of the session.
WaitIsOneBehind == phase = "wait" => m_waitCounter = sent - 1 /\ sent < TotalSteps

\* A session that runs has applied one action per report.
RunIsLevel ==
    (phase = "run" /\ m_measurementStarted) =>
        /\ m_waitCounter = sent /\ sent < TotalSteps
        /\ sent > 0 => applied = m_measurementSentTsMs

\* A session that is not started has not begun, or has sent its last report.
NotStartedOrOver ==
    (phase = "run" /\ ~ m_measurementStarted) =>
        \/ sent = 0 /\ m_waitCounter = 0
        \/ sent = TotalSteps /\ m_waitCounter = TotalSteps - 1

StepInv == ControlTypes /\ OnlyWhenStarted /\ WaitIsOneBehind /\ RunIsLevel /\ NotStartedOrOver

LEMMA StepInit ==
    ASSUME Init
    PROVE  StepInv
  BY GymAssumption DEF Init, StepInv, ControlTypes, OnlyWhenStarted, WaitIsOneBehind, RunIsLevel,
                       NotStartedOrOver

\* A step that touches none of the state the invariant is about, except that a started
\* session may schedule the exchange.
LEMMA QuietStep ==
    ASSUME StepInv, exchange' \in BOOLEAN, exchange' => exchange \/ m_measurementStarted,
           UNCHANGED <<sent, m_waitCounter, m_measurementStarted, phase, applied,
                       m_measurementSentTsMs>>
    PROVE  StepInv'
  BY DEF StepInv, ControlTypes, OnlyWhenStarted, WaitIsOneBehind, RunIsLevel, NotStartedOrOver

LEMMA StepInductive ==
    ASSUME StepInv, [Next]_vars
    PROVE  StepInv'
  <1> USE GymAssumption
  <1>1. CASE StartMeasurement
    <2>1. phase = "run" /\ ~ m_measurementStarted /\ sent = 0 /\ m_measurementStarted' = TRUE
      BY <1>1 DEF StartMeasurement
    <2>2. UNCHANGED <<sent, m_waitCounter, exchange, phase, applied, m_measurementSentTsMs>>
      BY <1>1 DEF StartMeasurement
    <2> QED
      BY <2>1, <2>2 DEF StepInv, ControlTypes, OnlyWhenStarted, WaitIsOneBehind, RunIsLevel,
                        NotStartedOrOver
  <1>2. CASE Report
    <2>1. ASSUME NEW ms, AppendMeasurement(ms)
          PROVE  exchange' \in BOOLEAN /\ (exchange' => exchange \/ m_measurementStarted)
      BY <2>1 DEF AppendMeasurement, StepInv, ControlTypes
    <2>2. CASE EnbMeasurement
      BY <2>1, <2>2, QuietStep DEF EnbMeasurement
    <2>3. ASSUME NEW c \in Clients, NEW rate \in Rates, CollectMeasureResults(c, rate)
          PROVE  StepInv'
      BY <2>1, <2>3, QuietStep DEF CollectMeasureResults
    <2> QED
      BY <1>2, <2>2, <2>3 DEF Report
  <1>3. CASE Tick
    BY <1>3, QuietStep DEF Tick, StepInv, ControlTypes
  <1>4. CASE ExchangeMeasurement
    <2>1. /\ phase = "run" /\ exchange /\ exchange' = FALSE /\ sent' = sent + 1
          /\ UNCHANGED m_waitCounter
          /\ IF IsLastStep
             THEN m_measurementStarted' = FALSE /\ phase' = phase
             ELSE m_measurementStarted' = m_measurementStarted /\ phase' = "wait"
      BY <1>4 DEF ExchangeMeasurement
    <2>2. m_measurementStarted /\ m_waitCounter = sent /\ sent < TotalSteps
      BY <2>1 DEF StepInv, OnlyWhenStarted, RunIsLevel
    <2>3. TotalSteps \in Nat /\ sent \in Nat
      BY DEF StepInv, ControlTypes
    <2>4. CASE IsLastStep
      <3>1. m_measurementStarted' = FALSE /\ phase' = "run" /\ exchange' = FALSE
        BY <2>1, <2>4
      <3>2. sent' = TotalSteps /\ m_waitCounter' = TotalSteps - 1 /\ m_waitCounter' \in Nat
        BY <2>1, <2>2, <2>3, <2>4 DEF IsLastStep
      <3> QED
        BY <2>3, <3>1, <3>2 DEF StepInv, ControlTypes, OnlyWhenStarted, WaitIsOneBehind,
                                RunIsLevel, NotStartedOrOver
    <2>5. CASE ~ IsLastStep
      <3>1. m_measurementStarted' = TRUE /\ phase' = "wait" /\ exchange' = FALSE
        BY <2>1, <2>2, <2>5 DEF StepInv, ControlTypes
      <3>2. m_waitCounter' = sent' - 1 /\ sent' < TotalSteps /\ m_waitCounter' \in Nat
            /\ sent' \in Nat
        BY <2>1, <2>2, <2>3, <2>5 DEF IsLastStep
      <3> QED
        BY <3>1, <3>2 DEF StepInv, ControlTypes, OnlyWhenStarted, WaitIsOneBehind,
                          RunIsLevel, NotStartedOrOver
    <2> QED
      BY <2>4, <2>5
  <1>5. CASE Answer \/ AnswerAgain
    BY <1>5, QuietStep DEF Answer, AnswerAgain, StepInv, ControlTypes
  <1>6. CASE GetAction
    <2>1. /\ phase = "wait" /\ m_waitCounter' = m_waitCounter + 1
          /\ UNCHANGED <<m_measurementStarted, exchange, m_measurementSentTsMs, sent>>
      BY <1>6 DEF GetAction
    <2>2. m_measurementStarted /\ m_waitCounter = sent - 1 /\ sent < TotalSteps
      BY <2>1 DEF StepInv, OnlyWhenStarted, WaitIsOneBehind
    <2>3. CASE IsCurrent(Last(inbox))
      <3>1. phase' = "run" /\ applied' = m_measurementSentTsMs
        BY <1>6, <2>3 DEF GetAction, IsCurrent
      <3> QED
        BY <2>1, <2>2, <3>1 DEF StepInv, ControlTypes, OnlyWhenStarted, WaitIsOneBehind,
                                RunIsLevel, NotStartedOrOver
    <2>4. CASE ~ IsCurrent(Last(inbox))
      <3>1. phase' = "fatal"
        BY <1>6, <2>4 DEF GetAction
      <3> QED
        BY <2>1, <2>2, <3>1 DEF StepInv, ControlTypes, OnlyWhenStarted, WaitIsOneBehind,
                                RunIsLevel, NotStartedOrOver
    <2> QED
      BY <2>3, <2>4
  <1>7. CASE ActionTimeout
    BY <1>7 DEF ActionTimeout, StepInv, ControlTypes, OnlyWhenStarted, WaitIsOneBehind,
                RunIsLevel, NotStartedOrOver
  <1>8. ASSUME NEW c \in Clients, AddPhyLink(c)
        PROVE  StepInv'
    BY <1>8, QuietStep DEF AddPhyLink, StepInv, ControlTypes
  <1>9. CASE UNCHANGED vars
    BY <1>9, QuietStep DEF vars, StepInv, ControlTypes
  <1> QED
    BY <1>1, <1>2, <1>3, <1>4, <1>5, <1>6, <1>7, <1>8, <1>9 DEF Next

-----------------------------------------------------------------------------
DataInv ==
    /\ DataTypes /\ StampInv /\ InstantInv /\ BatchInv /\ MeasureInv /\ MoreInv /\ ReportInv

LEMMA DataInit ==
    ASSUME Init
    PROVE  DataInv
  <1>1. /\ m_measurementStarted = FALSE /\ m_measurementBatch = <<>> /\ m_moreMeasurement = <<>>
        /\ m_dlQosMeasure = <<>> /\ exchange = FALSE /\ report = <<>>
        /\ m_qosMarking = [c \in Clients |-> 1] /\ m_measurementSentTsMs = 0 /\ sent = 0
        /\ phase = "run" /\ now = 0 /\ toReport = {} /\ inbox = <<>> /\ answered = 0
        /\ repeats = 0 /\ applied = 0
    BY DEF Init
  <1>2. DataTypes
    <2>1. <<>> \in Seq(Sums) /\ <<>> \in Seq([ts : 1 .. now]) /\ <<>> \in Measures
      BY EmptySeq, NoEntries
    <2>2. m_qosMarking \in [Clients -> {0, 1}] /\ 0 \in 0 .. MaxRepeats /\ 0 \in 0 .. now
      BY <1>1, GymAssumption
    <2> QED
      BY <1>1, <2>1, <2>2 DEF DataTypes
  <1>3. StampInv /\ InstantInv
    BY <1>1 DEF StampInv, InstantInv
  <1>4. BatchInv /\ ReportInv
    <2>1. SliceRowsRight(<<>>, m_dlQosMeasure)
      BY EmptySeq DEF SliceRowsRight
    <2> QED
      BY <1>1, <2>1, EmptyBatch DEF BatchInv, ReportInv
  <1>5. MeasureInv
    <2>1. Reported = {} /\ 0 \in 0 .. 0
      BY <1>1 DEF Reported
    <2> QED
      BY <1>1, <2>1, NoEntries DEF MeasureInv
  <1>6. MoreInv
    <2>1. HasSums(<<>>, m_dlQosMeasure)
      BY EmptySeq DEF HasSums
    <2> QED
      BY <1>1, <2>1 DEF MoreInv
  <1> QED
    BY <1>2, <1>3, <1>4, <1>5, <1>6 DEF DataInv

\* The state that is about the rows, the rates and the sums.
LEMMA DataUnchanged ==
    ASSUME DataInv,
           UNCHANGED <<m_measurementBatch, m_moreMeasurement, m_dlQosMeasure, report, exchange,
                       toReport, phase, m_measurementStarted, sent, m_waitCounter, now,
                       m_measurementSentTsMs>>,
           DataTypes'
    PROVE  DataInv'
  <1>1. StampInv' /\ InstantInv'
    BY DEF DataInv, StampInv, InstantInv
  <1>2. BatchInv'
    BY DEF DataInv, BatchInv
  <1>3. MeasureInv'
    BY DEF DataInv, MeasureInv, Reported
  <1>4. MoreInv'
    BY DEF DataInv, MoreInv
  <1>5. ReportInv'
    BY DEF DataInv, ReportInv
  <1> QED
    BY <1>1, <1>2, <1>3, <1>4, <1>5 DEF DataInv

\* The next instant begins when nothing waits for an exchange.
LEMMA InstantStep ==
    ASSUME DataInv, phase = "run", ~ exchange, m_measurementStarted \/ sent = 0, NextInstant,
           m_measurementStarted' \in BOOLEAN,
           UNCHANGED <<m_waitCounter, stats, exchange, m_qosMarking, report,
                       m_measurementSentTsMs, sent, phase, agent, applied>>,
           sent = 0 \/ UNCHANGED m_measurementStarted
    PROVE  DataInv'
  <1>0. /\ DataTypes /\ StampInv /\ InstantInv /\ BatchInv /\ MeasureInv /\ MoreInv /\ ReportInv
    BY DEF DataInv
  <1>1. /\ UNCHANGED <<m_measurementBatch, m_moreMeasurement, m_dlQosMeasure, inbox, answered,
                       repeats, applied, m_qosMarking, report, m_measurementSentTsMs, exchange,
                       sent, phase, m_waitCounter>>
        /\ now' = now + 1 /\ toReport' = Sources
    BY DEF stats, agent, NextInstant
  <1>2. m_measurementBatch = <<>> /\ m_moreMeasurement = <<>>
    BY <1>0 DEF BatchInv, MoreInv
  <1>3. report = <<>>
    <2>1. report # <<>> => ~ m_measurementStarted /\ sent > 0
      BY <1>0 DEF ReportInv
    <2> QED
      BY <2>1
  <1>4. DataTypes'
    <2>1. now \in Nat /\ 1 .. now \subseteq 1 .. (now + 1) /\ 0 .. now \subseteq 0 .. (now + 1)
      BY <1>0 DEF DataTypes
    <2>2. [ts : 1 .. now] \subseteq [ts : 1 .. (now + 1)]
      BY <2>1
    <2>3. inbox \in Seq([ts : 1 .. (now + 1)])
      BY <1>0, <2>2, SeqMonotonic DEF DataTypes
    <2> QED
      BY <1>0, <1>1, <2>1, <2>3 DEF DataTypes
  <1>5. StampInv' /\ InstantInv'
    BY <1>0, <1>1 DEF DataTypes, StampInv, InstantInv
  <1>6. BatchInv'
    BY <1>1, <1>2, EmptyBatch DEF BatchInv
  <1>7. MeasureInv'
    <2>1. Reported = {} /\ Reported' = {}
      BY <1>1 DEF Reported
    <2>2. \E z \in 0 .. Len(m_dlQosMeasure) : HasEntries(m_dlQosMeasure, {}, z)
      BY <1>0, <2>1 DEF MeasureInv
    <2> QED
      BY <1>0, <1>1, <2>1, <2>2 DEF MeasureInv
  <1>8. MoreInv'
    BY <1>0, <1>1, <1>2 DEF MoreInv
  <1>9. ReportInv'
    BY <1>0, <1>1, <1>3 DEF ReportInv
  <1> QED
    BY <1>4, <1>5, <1>6, <1>7, <1>8, <1>9 DEF DataInv

\* Several measurements of a report, as appends.
LEMMA AppendsOne ==
    ASSUME GoodBatch(m_measurementBatch), NEW m, SubscribedRows(m) \in Seq(PlainRows),
           AppendMeasurement(<<m>>)
    PROVE  m_measurementBatch' = IF m_measurementStarted
                                 THEN Append(m_measurementBatch, SubscribedRows(m))
                                 ELSE m_measurementBatch
  <1> DEFINE kept == [i \in DOMAIN <<m>> |-> SubscribedRows(<<m>>[i])]
  <1>1. PICK k \in Seq(PlainRows) : k = SubscribedRows(m)
    OBVIOUS
  <1>2. kept = <<k>>
    <2>1. DOMAIN <<m>> = 1 .. 1 /\ <<m>>[1] = m /\ \A i \in 1 .. 1 : i = 1
      OBVIOUS
    <2>2. \A i \in 1 .. 1 : SubscribedRows(<<m>>[i]) = k
      BY <1>1, <2>1
    <2>3. kept = [i \in 1 .. 1 |-> k]
      BY <2>1, <2>2
    <2> QED
      BY <2>3
  <1>3. m_measurementBatch' = IF m_measurementStarted THEN m_measurementBatch \o kept
                              ELSE m_measurementBatch
    BY DEF AppendMeasurement
  <1>4. Append(m_measurementBatch, k) = m_measurementBatch \o <<k>>
    <2>1. m_measurementBatch \in Seq(Seq(PlainRows))
      BY DEF GoodBatch
    <2> QED
      BY <2>1, AppendIsConcat
  <1> QED
    BY <1>1, <1>2, <1>3, <1>4

LEMMA TwoAppends ==
    ASSUME NEW S, NEW s \in Seq(S), NEW a \in S, NEW b \in S
    PROVE  Append(Append(s, a), b) = s \o <<a, b>>
  <1>1. <<a>> \in Seq(S) /\ <<b>> \in Seq(S) /\ <<a, b>> \in Seq(S)
    OBVIOUS
  <1>2. Append(<<a>>, b) = <<a, b>>
    <2>1. PICK t : t = Append(<<a>>, b)
      OBVIOUS
    <2>2. Len(<<a>>) = 1 /\ <<a>>[1] = a
      OBVIOUS
    <2>3. t \in Seq(S) /\ Len(t) = 2 /\ t[1] = a /\ t[2] = b
      BY <1>1, <2>1, <2>2, AppendProperties
    <2>4. Len(<<a, b>>) = 2 /\ <<a, b>>[1] = a /\ <<a, b>>[2] = b
      OBVIOUS
    <2>5. \A i \in 1 .. Len(t) : t[i] = <<a, b>>[i]
      <3>1. \A i \in 1 .. 2 : i = 1 \/ i = 2
        OBVIOUS
      <3> QED
        BY <2>3, <2>4, <3>1
    <2>6. t = <<a, b>>
      BY <1>1, <2>3, <2>4, <2>5, SeqEqual
    <2> QED
      BY <2>1, <2>6
  <1>3. <<a>> \o <<b>> = <<a, b>>
    BY <1>1, <1>2, AppendIsConcat
  <1>4. Append(s, a) \in Seq(S) /\ Append(s, a) = s \o <<a>>
    BY AppendProperties, AppendIsConcat
  <1>5. Append(Append(s, a), b) = Append(s, a) \o <<b>>
    BY <1>4, AppendIsConcat
  <1>6. (s \o <<a>>) \o <<b>> = s \o (<<a>> \o <<b>>)
    BY <1>1, ConcatAssociative
  <1> QED
    BY <1>3, <1>4, <1>5, <1>6

LEMMA AppendsTwo ==
    ASSUME GoodBatch(m_measurementBatch), NEW m, SubscribedRows(m) \in Seq(PlainRows),
           NEW n, SubscribedRows(n) \in Seq(PlainRows), AppendMeasurement(<<m, n>>)
    PROVE  m_measurementBatch' =
              IF m_measurementStarted
              THEN Append(Append(m_measurementBatch, SubscribedRows(m)), SubscribedRows(n))
              ELSE m_measurementBatch
  <1> DEFINE kept == [i \in DOMAIN <<m, n>> |-> SubscribedRows(<<m, n>>[i])]
  <1>1. PICK k \in Seq(PlainRows), l \in Seq(PlainRows) : k = SubscribedRows(m) /\ l = SubscribedRows(n)
    OBVIOUS
  <1>2. kept = <<k, l>>
    <2>1. DOMAIN <<m, n>> = 1 .. 2 /\ <<m, n>>[1] = m /\ <<m, n>>[2] = n
          /\ \A i \in 1 .. 2 : i = 1 \/ i = 2
      OBVIOUS
    <2>2. \A i \in 1 .. 2 : SubscribedRows(<<m, n>>[i]) = <<k, l>>[i]
      BY <1>1, <2>1
    <2>3. kept = [i \in 1 .. 2 |-> <<k, l>>[i]]
      BY <2>1, <2>2
    <2> QED
      BY <2>3
  <1>3. m_measurementBatch' = IF m_measurementStarted THEN m_measurementBatch \o kept
                              ELSE m_measurementBatch
    BY DEF AppendMeasurement
  <1>4. Append(Append(m_measurementBatch, k), l) = m_measurementBatch \o <<k, l>>
    <2>1. m_measurementBatch \in Seq(Seq(PlainRows))
      BY DEF GoodBatch
    <2> QED
      BY <2>1, TwoAppends
  <1> QED
    BY <1>1, <1>2, <1>3, <1>4

\* CollectMeasureResults of a client.
LEMMA CollectStep ==
    ASSUME StepInv, DataInv, NEW c \in Clients, NEW rate \in Rates, CollectMeasureResults(c, rate)
    PROVE  DataInv'
  <1> DEFINE a == <<Row("rate", c, rate), Row("owd", c, rate)>>
  <1> DEFINE b == <<Row("cell_id", c, 0)>>
  <1> DEFINE e == Entry(c, rate)
  <1>0. /\ DataTypes /\ StampInv /\ InstantInv /\ BatchInv /\ MeasureInv /\ MoreInv /\ ReportInv
        /\ m_measurementStarted \in BOOLEAN /\ exchange \in BOOLEAN
        /\ exchange => m_measurementStarted
    BY DEF DataInv, StepInv, ControlTypes, OnlyWhenStarted
  <1>1. /\ phase = "run" /\ c \in toReport
        /\ m_measurementStarted \/ rate = 0
        /\ toReport' = toReport \ {c}
        /\ m_dlQosMeasure' = Append(m_dlQosMeasure, e)
        /\ AppendMeasurement(<<a, b>>)
        /\ AppendSliceMeasurement(Slice[c], rate)
        /\ UNCHANGED <<m_measurementStarted, m_waitCounter, m_qosMarking, report,
                       m_measurementSentTsMs, sent, phase, now, agent, applied>>
    BY DEF CollectMeasureResults, Entry
  <1>2. rate \in Nat /\ Rates \subseteq Nat /\ 0 \in Rates /\ c \in Sources /\ Clients \subseteq Sources
    BY GymAssumption DEF Sources
  <1>3. /\ m_dlQosMeasure \in Measures /\ m_moreMeasurement \in Seq(Sums)
        /\ toReport \subseteq Sources
    BY <1>0 DEF DataTypes
  <1>4. exchange' = (exchange \/ m_measurementStarted)
    BY <1>1 DEF AppendMeasurement
  <1>5. report = <<>>
    <2>1. toReport # {}
      BY <1>1
    <2> QED
      BY <1>0, <2>1 DEF ReportInv
  \* The entry.
  <1>6. /\ e \in Entries /\ e.mark = ClientMarking
        /\ m_dlQosMeasure' \in Measures /\ Len(m_dlQosMeasure) \in Nat
        /\ Len(m_dlQosMeasure') = Len(m_dlQosMeasure) + 1
        /\ m_dlQosMeasure'[Len(m_dlQosMeasure) + 1] = e
        /\ \A i \in 1 .. Len(m_dlQosMeasure) : m_dlQosMeasure'[i] = m_dlQosMeasure[i]
    BY <1>1, <1>3, EntryIsEntry, AppendedEntry
  <1> HIDE DEF e
  <1>7. \A i \in 1 .. Len(m_dlQosMeasure') : m_dlQosMeasure'[i].mark = ClientMarking
    <2>1. \A i \in 1 .. Len(m_dlQosMeasure') :
              i \in 1 .. Len(m_dlQosMeasure) \/ i = Len(m_dlQosMeasure) + 1
      BY <1>6
    <2> QED
      BY <1>0, <1>6, <2>1 DEF MeasureInv
  <1>8. CASE ~ m_measurementStarted
    <2>1. ~ exchange /\ ~ exchange' /\ rate = 0
      BY <1>0, <1>1, <1>4, <1>8
    <2>2. m_measurementBatch = <<>> /\ m_moreMeasurement = <<>>
      BY <1>0, <2>1 DEF BatchInv, MoreInv
    <2>3. m_measurementBatch' = <<>> /\ m_moreMeasurement' = <<>>
      BY <1>1, <1>8, <2>2 DEF AppendMeasurement, AppendSliceMeasurement
    <2>4. DataTypes'
      <3>1. <<>> \in Seq(Sums)
        BY EmptySeq
      <3> QED
        BY <1>0, <1>1, <1>6, <2>3, <3>1 DEF DataTypes, agent
    <2>5. StampInv' /\ InstantInv'
      BY <1>0, <1>1, <1>8 DEF StampInv, InstantInv
    <2>6. BatchInv'
      BY <2>3, EmptyBatch DEF BatchInv
    <2>7. MeasureInv'
      <3>1. Reported = {} /\ Reported' = {}
        BY <1>1, <2>1 DEF Reported
      <3>2. sent = 0 => \E z \in 0 .. Len(m_dlQosMeasure) : HasEntries(m_dlQosMeasure, {}, z)
        BY <1>0, <1>1, <3>1 DEF MeasureInv
      <3>3. sent = 0 => HasEntries(m_dlQosMeasure', {}, Len(m_dlQosMeasure) + 1)
        BY <1>1, <1>2, <1>3, <2>1, <3>2, EarlyEntry DEF e
      <3>4. Len(m_dlQosMeasure) + 1 \in 0 .. Len(m_dlQosMeasure')
        BY <1>6
      <3> QED
        BY <1>1, <1>7, <1>8, <3>1, <3>3, <3>4 DEF MeasureInv
    <2>8. MoreInv'
      <3>1. HasSums(<<>>, m_dlQosMeasure')
        BY EmptySeq DEF HasSums
      <3> QED
        BY <2>1, <2>3, <3>1 DEF MoreInv
    <2>9. ReportInv'
      <3>1. SliceRowsRight(<<>>, m_dlQosMeasure') /\ report' = <<>>
        BY <1>1, <1>5, EmptySeq DEF SliceRowsRight
      <3> QED
        BY <3>1, EmptyBatch DEF ReportInv
    <2> QED
      BY <2>4, <2>5, <2>6, <2>7, <2>8, <2>9 DEF DataInv
  <1>9. CASE m_measurementStarted
    <2> DEFINE R == Reported
    <2>1. exchange' = TRUE
      BY <1>4, <1>9
    <2>2. R \in SUBSET Clients /\ c \in Clients \ R /\ Reported' = R \cup {c}
      <3>1. CASE exchange
        <4>1. R = Clients \ toReport
          BY <3>1 DEF Reported
        <4>2. Reported' = Clients \ (toReport \ {c})
          BY <1>1, <2>1 DEF Reported
        <4> QED
          BY <1>1, <4>1, <4>2
      <3>2. CASE ~ exchange
        <4>1. R = {} /\ toReport = Sources
          BY <1>0, <1>1, <1>9, <3>2 DEF Reported, InstantInv
        <4>2. Reported' = Clients \ (Sources \ {c})
          BY <1>1, <2>1, <4>1 DEF Reported
        <4> QED
          BY <1>2, <4>1, <4>2
      <3> QED
        BY <3>1, <3>2
    <2>3. PICK z \in 0 .. Len(m_dlQosMeasure) : HasEntries(m_dlQosMeasure, R, z)
      BY <1>0, <1>1, <1>9 DEF MeasureInv
    <2>4. Clients \ toReport' = (Clients \ toReport) \cup {c}
      BY <1>1
    <2> HIDE DEF R
    \* The rates.
    <2>5. MeasureInv'
      <3>1. HasEntries(m_dlQosMeasure', R \cup {c}, z)
        BY <1>1, <1>3, <2>2, <2>3, NextEntry DEF e
      <3>2. z \in 0 .. Len(m_dlQosMeasure')
        BY <1>6
      <3> QED
        BY <1>7, <2>2, <3>1, <3>2 DEF MeasureInv
    \* The batch.
    <2>6. BatchInv'
      <3>1. /\ IsMeasurement(a, c) /\ IsMeasurement(b, c)
            /\ \A i, j : i \in 1 .. 2 /\ j \in 1 .. 1 => a[i].name # b[j].name
        BY <1>2, ClientMeasurements
      <3>2. Len(a) = 2 /\ Len(b) = 1
        OBVIOUS
      <3> HIDE DEF a, b
      <3> DEFINE m == SubscribedRows(a)
      <3> DEFINE n == SubscribedRows(b)
      <3>3. /\ IsMeasurement(m, c) /\ \A j \in 1 .. Len(m) : \E i \in 1 .. Len(a) : m[j] = a[i]
            /\ IsMeasurement(n, c) /\ \A j \in 1 .. Len(n) : \E i \in 1 .. Len(b) : n[j] = b[i]
        BY <3>1, KeptMeasurement
      <3>4. \A i \in 1 .. Len(m) : \A j \in 1 .. Len(n) : m[i].name # n[j].name
        BY <3>1, <3>2, <3>3
      <3>5. m \in Seq(PlainRows) /\ n \in Seq(PlainRows)
        BY <3>3 DEF IsMeasurement
      <3>6. GoodBatch(m_measurementBatch) /\ FromSources(m_measurementBatch, Sources \ toReport)
        BY <1>0 DEF BatchInv
      <3>7. m_measurementBatch' = Append(Append(m_measurementBatch, m), n)
        BY <1>1, <1>9, <3>5, <3>6, AppendsTwo
      <3> HIDE DEF m, n
      <3>8. c \notin Sources \ toReport /\ Sources \ toReport' = (Sources \ toReport) \cup {c}
        BY <1>1, <1>2
      <3>9. GoodBatch(m_measurementBatch')
            /\ FromSources(m_measurementBatch', (Sources \ toReport) \cup {c})
        BY <3>3, <3>4, <3>6, <3>7, <3>8, NextMeasurement
      <3> QED
        BY <2>1, <3>8, <3>9 DEF BatchInv
    \* The sums of the slices.
    <2>7. m_moreMeasurement' \in Seq(Sums) /\ MoreInv'
      <3>1. CASE "slice_rate" \in Subscribed
        <4>1. m_moreMeasurement' = AddRate(m_moreMeasurement, Slice[c], rate)
          BY <1>1, <1>9, <3>1 DEF AppendSliceMeasurement, AddRate
        <4>2. HasSums(m_moreMeasurement, m_dlQosMeasure)
          BY <1>0 DEF MoreInv
        <4>3. HasSlices(m_moreMeasurement, R)
          <5>1. CASE exchange
            <6>1. R = Clients \ toReport
              BY <5>1 DEF Reported, R
            <6> QED
              BY <1>0, <3>1, <5>1, <6>1 DEF MoreInv
          <5>2. CASE ~ exchange
            <6>1. R = {}
              BY <1>1, <5>2 DEF Reported, R
            <6> QED
              BY <6>1 DEF HasSlices
          <5> QED
            BY <5>1, <5>2
        <4>4. /\ m_moreMeasurement' \in Seq(Sums)
              /\ HasSums(m_moreMeasurement', m_dlQosMeasure')
              /\ HasSlices(m_moreMeasurement', R \cup {c})
          BY <1>1, <1>3, <2>2, <2>3, <4>1, <4>2, <4>3, AddRateSums DEF e
        <4>5. R \cup {c} = Clients \ toReport'
          BY <1>1, <2>1, <2>2 DEF Reported
        <4> QED
          BY <2>1, <3>1, <4>4, <4>5 DEF MoreInv
      <3>2. CASE "slice_rate" \notin Subscribed
        <4>1. m_moreMeasurement = <<>>
          BY <1>0, <3>2 DEF MoreInv
        <4>2. m_moreMeasurement' = <<>>
          BY <1>1, <3>2, <4>1 DEF AppendSliceMeasurement
        <4>3. <<>> \in Seq(Sums) /\ HasSums(<<>>, m_dlQosMeasure')
          BY EmptySeq DEF HasSums
        <4> QED
          BY <3>2, <4>2, <4>3 DEF MoreInv
      <3> QED
        BY <3>1, <3>2
    <2>8. DataTypes'
      BY <1>0, <1>1, <1>6, <2>7 DEF DataTypes, agent
    <2>9. StampInv' /\ InstantInv'
      BY <1>0, <1>1, <2>1 DEF StampInv, InstantInv
    <2>10. ReportInv'
      <3>1. SliceRowsRight(<<>>, m_dlQosMeasure') /\ report' = <<>>
        BY <1>1, <1>5, EmptySeq DEF SliceRowsRight
      <3> QED
        BY <3>1, EmptyBatch DEF ReportInv
    <2> QED
      BY <2>5, <2>6, <2>7, <2>8, <2>9, <2>10 DEF DataInv
  <1> QED
    BY <1>0, <1>8, <1>9

\* LteEnbMeasurementCallback.
LEMMA EnbStep ==
    ASSUME StepInv, DataInv, EnbMeasurement
    PROVE  DataInv'
  <1> DEFINE a == <<Row("rb_usage", NETWORK_CELL, 0)>>
  <1>0. /\ DataTypes /\ StampInv /\ InstantInv /\ BatchInv /\ MeasureInv /\ MoreInv /\ ReportInv
        /\ m_measurementStarted \in BOOLEAN /\ exchange \in BOOLEAN
        /\ exchange => m_measurementStarted
    BY DEF DataInv, StepInv, ControlTypes, OnlyWhenStarted
  <1>1. /\ phase = "run" /\ Enb \in toReport
        /\ toReport' = toReport \ {Enb}
        /\ AppendMeasurement(<<a>>)
        /\ UNCHANGED <<m_measurementStarted, m_waitCounter, m_moreMeasurement, m_dlQosMeasure,
                       m_qosMarking, report, m_measurementSentTsMs, sent, phase, now, agent, applied>>
    BY DEF EnbMeasurement
  <1>2. exchange' = (exchange \/ m_measurementStarted)
    BY <1>1 DEF AppendMeasurement
  <1>3. Enb \notin Clients /\ Enb \in Sources /\ Clients \ toReport' = Clients \ toReport
    BY <1>1, GymAssumption DEF Enb, Sources
  <1>4. DataTypes'
    BY <1>0, <1>1 DEF DataTypes, agent
  <1>5. StampInv' /\ InstantInv'
    BY <1>0, <1>1, <1>2 DEF StampInv, InstantInv
  <1>6. report = <<>> /\ report' = <<>>
    BY <1>0, <1>1 DEF ReportInv
  <1>7. Reported' = Reported
    <2>1. CASE exchange \/ ~ m_measurementStarted
      <3>1. exchange' = exchange
        BY <1>0, <1>2, <2>1
      <3> QED
        BY <1>1, <1>3, <3>1 DEF Reported
    <2>2. CASE ~ exchange /\ m_measurementStarted
      <3>1. toReport = Sources
        BY <1>0, <1>1, <2>2 DEF InstantInv
      <3>2. Clients \ toReport = {}
        BY <3>1 DEF Sources
      <3> QED
        BY <1>1, <1>3, <2>2, <3>2 DEF Reported
    <2> QED
      BY <1>0, <2>1, <2>2
  <1>8. MeasureInv'
    BY <1>0, <1>1, <1>7 DEF MeasureInv
  <1>9. BatchInv'
    <2>1. IsMeasurement(a, Enb)
      BY EnbMeasurements
    <2> HIDE DEF a
    <2> DEFINE m == SubscribedRows(a)
    <2>2. IsMeasurement(m, Enb) /\ m \in Seq(PlainRows)
      BY <2>1, KeptMeasurement DEF IsMeasurement
    <2>3. GoodBatch(m_measurementBatch) /\ FromSources(m_measurementBatch, Sources \ toReport)
      BY <1>0 DEF BatchInv
    <2>4. m_measurementBatch' = IF m_measurementStarted THEN Append(m_measurementBatch, m)
                                ELSE m_measurementBatch
      BY <1>1, <2>2, <2>3, AppendsOne
    <2> HIDE DEF m
    <2>5. Enb \notin Sources \ toReport /\ Sources \ toReport' = (Sources \ toReport) \cup {Enb}
      BY <1>1, <1>3
    <2>6. CASE m_measurementStarted
      <3>1. GoodBatch(m_measurementBatch')
            /\ FromSources(m_measurementBatch', (Sources \ toReport) \cup {Enb})
        BY <2>2, <2>3, <2>4, <2>5, <2>6, NewMeasurement
      <3> QED
        BY <1>2, <2>5, <2>6, <3>1 DEF BatchInv
    <2>7. CASE ~ m_measurementStarted
      <3>1. m_measurementBatch = <<>> /\ m_measurementBatch' = <<>>
        BY <1>0, <2>4, <2>7 DEF BatchInv
      <3> QED
        BY <3>1, EmptyBatch DEF BatchInv
    <2> QED
      BY <2>6, <2>7
  <1>10. MoreInv'
    <2>1. CASE exchange' = exchange
      BY <1>0, <1>1, <1>3, <2>1 DEF MoreInv
    <2>2. CASE exchange' # exchange
      <3>1. ~ exchange /\ m_measurementStarted /\ exchange'
        BY <1>0, <1>2, <2>2
      <3>2. toReport = Sources
        BY <1>0, <1>1, <3>1 DEF InstantInv
      <3>3. Clients \ toReport' = {}
        BY <1>3, <3>2 DEF Sources
      <3>4. HasSlices(m_moreMeasurement', Clients \ toReport')
        BY <3>3 DEF HasSlices
      <3>5. m_moreMeasurement = <<>>
        BY <1>0, <3>1 DEF MoreInv
      <3> QED
        BY <1>0, <1>1, <3>4, <3>5 DEF MoreInv
    <2> QED
      BY <2>1, <2>2
  <1>11. ReportInv'
    <2>1. SliceRowsRight(<<>>, m_dlQosMeasure')
      BY EmptySeq DEF SliceRowsRight
    <2> QED
      BY <1>6, <2>1, EmptyBatch DEF ReportInv
  <1> QED
    BY <1>4, <1>5, <1>8, <1>9, <1>10, <1>11 DEF DataInv

\* ExchangeMeasurementAndAction up to the wait.
LEMMA ExchangeStep ==
    ASSUME StepInv, DataInv, ExchangeMeasurement
    PROVE  DataInv'
  <1> DEFINE m == IF m_moreMeasurement = <<>> THEN <<>>
                  ELSE <<Row("slice_rate", NETWORK_CELL, m_moreMeasurement)>>
  <1>0. /\ DataTypes /\ StampInv /\ InstantInv /\ BatchInv /\ MeasureInv /\ MoreInv /\ ReportInv
        /\ m_measurementStarted = TRUE /\ sent \in Nat
    BY DEF DataInv, StepInv, ControlTypes, OnlyWhenStarted, ExchangeMeasurement
  <1>1. /\ phase = "run" /\ exchange /\ toReport \cap Clients = {}
        /\ exchange' = FALSE
        /\ report' = Append(m_measurementBatch, m)
        /\ m_measurementSentTsMs' = now /\ sent' = sent + 1
        /\ m_measurementBatch' = <<>> /\ m_moreMeasurement' = <<>>
        /\ toReport' = {}
        /\ IF IsLastStep THEN m_measurementStarted' = FALSE /\ phase' = phase
           ELSE m_measurementStarted' = m_measurementStarted /\ phase' = "wait"
        /\ UNCHANGED <<m_waitCounter, m_dlQosMeasure, m_qosMarking, now, agent, applied>>
    BY DEF ExchangeMeasurement, AddMoreMeasurement
  <1>2. \/ m_measurementStarted' = FALSE /\ phase' = "run"
        \/ m_measurementStarted' = TRUE /\ phase' = "wait"
    BY <1>0, <1>1
  <1>3. sent' > 0 /\ sent' # 0
    BY <1>0, <1>1
  <1>4. Clients \ toReport = Clients /\ Clients \ toReport' = Clients
    BY <1>1
  <1>5. DataTypes'
    <2>1. <<>> \in Seq(Sums)
      BY EmptySeq
    <2>2. now \in 0 .. now
      BY <1>0 DEF DataTypes
    <2> QED
      BY <1>0, <1>1, <2>1, <2>2 DEF DataTypes, agent
  <1>6. StampInv' /\ InstantInv'
    BY <1>0, <1>1, <1>2 DEF StampInv, InstantInv
  <1>7. BatchInv'
    BY <1>1, EmptyBatch DEF BatchInv
  <1>8. MeasureInv'
    <2>1. Reported = Clients
      BY <1>1, <1>4 DEF Reported
    <2>2. phase' = "wait" => Reported' = Clients
      BY <1>4 DEF Reported
    <2>3. \E z \in 0 .. Len(m_dlQosMeasure) : HasEntries(m_dlQosMeasure, Clients, z)
      BY <1>0, <1>1, <2>1 DEF MeasureInv
    <2> QED
      BY <1>0, <1>1, <1>2, <1>3, <2>2, <2>3 DEF MeasureInv
  <1>9. MoreInv'
    <2>1. HasSums(<<>>, m_dlQosMeasure')
      BY EmptySeq DEF HasSums
    <2> QED
      BY <1>1, <2>1 DEF MoreInv
  <1>10. ReportInv'
    <2>1. GoodBatch(m_measurementBatch) /\ FromSources(m_measurementBatch, Sources \ toReport)
      BY <1>0 DEF BatchInv
    <2>2. /\ m \in Seq(PlainRows) /\ NamesDiffer(m)
          /\ \A b \in 1 .. Len(m) : /\ m[b].name = "slice_rate"
                                    /\ m_moreMeasurement # <<>> /\ m[b].values[1] = m_moreMeasurement
      <3>1. CASE m_moreMeasurement = <<>>
        <4>1. m = <<>> /\ <<>> \in Seq(PlainRows) /\ Len(<<>>) = 0
          BY <3>1, EmptySeq
        <4> QED
          BY <4>1 DEF NamesDiffer
      <3>2. CASE m_moreMeasurement # <<>>
        <4>1. PICK row : row = Row("slice_rate", NETWORK_CELL, m_moreMeasurement)
          OBVIOUS
        <4>2. row \in PlainRows /\ row.name = "slice_rate" /\ row.values[1] = m_moreMeasurement
          <5>1. "slice_rate" \in Names /\ NETWORK_CELL \in Nat
            BY DEF Names, NETWORK_CELL
          <5>2. m_moreMeasurement \in Nat \cup Seq(Sums)
            BY <1>0 DEF DataTypes
          <5> QED
            BY <4>1, <5>1, <5>2, RowIsPlain
        <4>3. m = <<row>>
          BY <3>2, <4>1
        <4> HIDE DEF m
        <4>4. m \in Seq(PlainRows) /\ Len(m) = 1 /\ m[1] = row /\ \A b \in 1 .. 1 : b = 1
          BY <4>2, <4>3
        <4> QED
          BY <3>2, <4>2, <4>4 DEF NamesDiffer
      <3> QED
        BY <3>1, <3>2
    <2> HIDE DEF m
    <2>3. FreshTo(m, m_measurementBatch)
      BY <2>1, <2>2 DEF FromSources, FreshTo, SameKey
    <2>4. GoodBatch(report')
      BY <1>1, <2>1, <2>2, <2>3, GoodAppend
    <2>5. m_moreMeasurement # <<>> => IsSliceReport(m_moreMeasurement, m_dlQosMeasure)
      <3>1. HasSums(m_moreMeasurement, m_dlQosMeasure) /\ m_moreMeasurement \in Seq(Sums)
        BY <1>0 DEF MoreInv, DataTypes
      <3>2. m_moreMeasurement # <<>> => HasSlices(m_moreMeasurement, Clients)
        BY <1>0, <1>1, <1>4 DEF MoreInv
      <3> QED
        BY <3>1, <3>2 DEF IsSliceReport
    <2>6. SliceRowsRight(report', m_dlQosMeasure')
      <3> DEFINE N == Len(m_measurementBatch)
      <3>1. /\ N \in Nat /\ Len(report') = N + 1 /\ report'[N + 1] = m
            /\ \A i \in 1 .. N : report'[i] = m_measurementBatch[i]
            /\ \A i \in 1 .. (N + 1) : i \in 1 .. N \/ i = N + 1
        BY <1>1, <2>1, <2>2, AppendedBatch
      <3>2. m_dlQosMeasure' = m_dlQosMeasure
        BY <1>1
      <3>3. \A i \in 1 .. N : \A a \in 1 .. Len(m_measurementBatch[i]) :
                m_measurementBatch[i][a].name # "slice_rate"
        BY <2>1 DEF FromSources
      <3> QED
        BY <2>2, <2>5, <3>1, <3>2, <3>3 DEF SliceRowsRight
    <2> QED
      BY <1>1, <1>2, <1>3, <2>4, <2>6 DEF ReportInv
  <1> QED
    BY <1>5, <1>6, <1>7, <1>8, <1>9, <1>10 DEF DataInv

\* The answers of the agent.
LEMMA AgentStep ==
    ASSUME DataInv, Answer \/ AnswerAgain
    PROVE  DataInv'
  <1>0. DataTypes /\ StampInv
    BY DEF DataInv
  <1>1. /\ UNCHANGED <<m_measurementBatch, m_moreMeasurement, m_dlQosMeasure, report, exchange,
                       toReport, phase, m_measurementStarted, sent, m_waitCounter, now,
                       m_measurementSentTsMs, m_qosMarking, applied>>
        /\ repeats' \in 0 .. MaxRepeats /\ answered' \in 0 .. now
        /\ \E ts \in 1 .. now : inbox' = Append(inbox, [ts |-> ts])
    <2>0. now \in Nat /\ m_measurementSentTsMs \in 0 .. now /\ answered \in 0 .. now
          /\ repeats \in 0 .. MaxRepeats /\ MaxRepeats \in Nat
      BY <1>0, GymAssumption DEF DataTypes
    <2>1. CASE Answer
      <3>1. m_measurementSentTsMs \in 1 .. now
        BY <1>0, <2>0, <2>1 DEF StampInv, Answer
      <3> QED
        BY <2>0, <2>1, <3>1 DEF Answer, stats
    <2>2. CASE AnswerAgain
      <3>1. answered \in 1 .. now /\ repeats + 1 \in 0 .. MaxRepeats
        BY <2>0, <2>2 DEF AnswerAgain
      <3> QED
        BY <2>0, <2>2, <3>1 DEF AnswerAgain, stats
    <2> QED
      BY <2>1, <2>2
  <1>2. inbox' \in Seq([ts : 1 .. now])
    <2>1. PICK t \in 1 .. now : inbox' = Append(inbox, [ts |-> t])
      BY <1>1
    <2>2. [ts |-> t] \in [ts : 1 .. now] /\ inbox \in Seq([ts : 1 .. now])
      BY <1>0 DEF DataTypes
    <2> QED
      BY <2>1, <2>2, AppendProperties
  <1>3. DataTypes'
    BY <1>0, <1>1, <1>2 DEF DataTypes
  <1> QED
    BY <1>1, <1>3, DataUnchanged

\* A probe marks a link again.
LEMMA MarkStep ==
    ASSUME DataInv, NEW c \in Clients, AddPhyLink(c)
    PROVE  DataInv'
  <1>1. /\ UNCHANGED <<m_measurementBatch, m_moreMeasurement, m_dlQosMeasure, report, exchange,
                       toReport, phase, m_measurementStarted, sent, m_waitCounter, now,
                       m_measurementSentTsMs>>
        /\ UNCHANGED <<inbox, answered, repeats, applied>>
        /\ m_qosMarking' = [m_qosMarking EXCEPT ![c] = 1]
    BY DEF AddPhyLink, stats, agent
  <1>2. m_qosMarking' \in [Clients -> {0, 1}]
    BY <1>1 DEF DataInv, DataTypes
  <1>3. DataTypes'
    BY <1>1, <1>2 DEF DataInv, DataTypes
  <1> QED
    BY <1>1, <1>3, DataUnchanged

\* The action arrives.
LEMMA ActionStep ==
    ASSUME StepInv, DataInv, GetAction
    PROVE  DataInv'
  <1>0. /\ DataTypes /\ StampInv /\ InstantInv /\ BatchInv /\ MeasureInv /\ MoreInv /\ ReportInv
        /\ m_measurementStarted = TRUE /\ m_waitCounter = sent - 1 /\ sent < TotalSteps
        /\ sent \in Nat /\ TotalSteps \in Nat
    BY GymAssumption
       DEF DataInv, StepInv, ControlTypes, OnlyWhenStarted, WaitIsOneBehind, GetAction
  <1>1. /\ phase = "wait" /\ inbox # <<>>
        /\ inbox' = <<>> /\ report' = <<>> /\ m_dlQosMeasure' = <<>>
        /\ m_waitCounter' = m_waitCounter + 1
        /\ UNCHANGED <<m_measurementStarted, m_measurementBatch, m_moreMeasurement, exchange,
                       m_measurementSentTsMs, sent, now, toReport, answered, repeats>>
    BY DEF GetAction
  <1>2. \/ /\ phase' = "run" /\ applied' = Last(inbox).ts /\ m_qosMarking' = CalcQosMarkingAction
        \/ /\ phase' = "fatal" /\ UNCHANGED <<applied, m_qosMarking>>
    BY DEF GetAction
  <1>3. toReport = {} /\ ~ exchange
    BY <1>0, <1>1 DEF InstantInv
  <1>4. m_qosMarking' \in [Clients -> {0, 1}]
    <2>1. Reported = Clients
      BY <1>1, <1>3 DEF Reported
    <2>2. m_dlQosMeasure \in Measures
      BY <1>0 DEF DataTypes
    <2>3. PICK z \in 0 .. Len(m_dlQosMeasure) : HasEntries(m_dlQosMeasure, Clients, z)
      BY <1>0, <1>1, <2>1 DEF MeasureInv
    <2>4. CalcQosMarkingAction \in [Clients -> {0, 1}]
      BY <1>0, <2>2, <2>3, MarkingTypes DEF MeasureInv
    <2> QED
      BY <1>0, <1>2, <2>4 DEF DataTypes
  <1>5. applied' \in 0 .. now
    <2>1. inbox \in Seq([ts : 1 .. now]) /\ now \in Nat /\ applied \in 0 .. now
      BY <1>0 DEF DataTypes
    <2>2. Len(inbox) \in Nat \ {0}
      BY <1>1, <2>1, EmptySeq
    <2>3. inbox[Len(inbox)] \in [ts : 1 .. now]
      <3>1. Len(inbox) \in 1 .. Len(inbox)
        BY <2>2
      <3> QED
        BY <2>1, <3>1, ElementOfSeq
    <2>4. Last(inbox).ts \in 1 .. now
      BY <2>3 DEF Last
    <2> QED
      BY <1>2, <2>1, <2>4
  <1>6. DataTypes'
    <2>1. <<>> \in Seq([ts : 1 .. now])
      BY EmptySeq
    <2> QED
      BY <1>0, <1>1, <1>4, <1>5, <2>1, NoEntries DEF DataTypes
  <1>7. StampInv' /\ InstantInv'
    BY <1>0, <1>1, <1>2, <1>3 DEF StampInv, InstantInv
  <1>8. BatchInv'
    BY <1>0, <1>1 DEF BatchInv
  <1>9. MeasureInv'
    <2>1. phase' = "run" => Reported' = {}
      BY <1>1, <1>3 DEF Reported
    <2> QED
      BY <1>1, <1>2, <2>1, NoEntries DEF MeasureInv
  <1>10. MoreInv'
    <2>1. m_moreMeasurement = <<>> /\ HasSums(<<>>, <<>>)
      BY <1>0, <1>3, EmptySeq DEF MoreInv, HasSums
    <2> QED
      BY <1>1, <1>3, <2>1 DEF MoreInv
  <1>11. ReportInv'
    <2>1. SliceRowsRight(<<>>, <<>>)
      BY EmptySeq DEF SliceRowsRight
    <2> QED
      BY <1>1, <2>1, EmptyBatch DEF ReportInv
  <1> QED
    BY <1>6, <1>7, <1>8, <1>9, <1>10, <1>11 DEF DataInv

LEMMA TimeoutStep ==
    ASSUME StepInv, DataInv, ActionTimeout
    PROVE  DataInv'
  <1>0. /\ DataTypes /\ StampInv /\ InstantInv /\ BatchInv /\ MeasureInv /\ MoreInv /\ ReportInv
        /\ m_waitCounter = sent - 1 /\ sent < TotalSteps /\ sent \in Nat
    BY DEF DataInv, StepInv, ControlTypes, WaitIsOneBehind, ActionTimeout
  <1>1. /\ phase = "wait" /\ phase' = "fatal"
        /\ UNCHANGED <<m_measurementBatch, m_moreMeasurement, m_dlQosMeasure, report, exchange,
                       toReport, m_measurementStarted, sent, m_waitCounter, now,
                       m_measurementSentTsMs, m_qosMarking, inbox, answered, repeats, applied>>
    BY DEF ActionTimeout, stats, agent
  <1>2. DataTypes' /\ StampInv'
    BY <1>0, <1>1 DEF DataTypes, StampInv
  <1>3. InstantInv'
    BY <1>0, <1>1 DEF InstantInv
  <1>4. BatchInv' /\ MoreInv'
    BY <1>0, <1>1 DEF BatchInv, MoreInv
  <1>5. MeasureInv'
    BY <1>0, <1>1 DEF MeasureInv
  <1>6. ReportInv'
    BY <1>0, <1>1 DEF ReportInv
  <1> QED
    BY <1>2, <1>3, <1>4, <1>5, <1>6 DEF DataInv

LEMMA DataInductive ==
    ASSUME StepInv, DataInv, [Next]_vars
    PROVE  DataInv'
  <1>1. CASE StartMeasurement
    <2>1. ~ exchange
      BY <1>1 DEF StartMeasurement, StepInv, OnlyWhenStarted
    <2> QED
      BY <1>1, <2>1, InstantStep DEF StartMeasurement
  <1>2. CASE Report
    BY <1>2, EnbStep, CollectStep DEF Report
  <1>3. CASE Tick
    <2>1. m_measurementStarted' \in BOOLEAN
      BY <1>3 DEF Tick, StepInv, ControlTypes
    <2> QED
      BY <1>3, <2>1, InstantStep DEF Tick
  <1>4. CASE ExchangeMeasurement
    BY <1>4, ExchangeStep
  <1>5. CASE Answer \/ AnswerAgain
    BY <1>5, AgentStep
  <1>6. CASE GetAction
    BY <1>6, ActionStep
  <1>7. CASE ActionTimeout
    BY <1>7, TimeoutStep
  <1>8. CASE \E c \in Clients : AddPhyLink(c)
    BY <1>8, MarkStep
  <1>9. CASE UNCHANGED vars
    <2>1. /\ UNCHANGED <<m_measurementBatch, m_moreMeasurement, m_dlQosMeasure, report, exchange,
                         toReport, phase, m_measurementStarted, sent, m_waitCounter, now,
                         m_measurementSentTsMs>>
          /\ UNCHANGED <<inbox, answered, repeats, applied, m_qosMarking>>
      BY <1>9 DEF vars, stats, agent
    <2>2. DataTypes'
      BY <2>1 DEF DataInv, DataTypes
    <2> QED
      BY <2>1, <2>2, DataUnchanged
  <1> QED
    BY <1>1, <1>2, <1>3, <1>4, <1>5, <1>6, <1>7, <1>8, <1>9 DEF Next

-----------------------------------------------------------------------------
(***************************************************************************)
(* The theorems.                                                           *)
(***************************************************************************)

\* The simulator and the agent stay in lock step (ExchangeMeasurementAndAction): it runs
\* on only with the action for its last report, also when the agent repeats answers,
\* and a session ends with TotalSteps reports and one action less.
THEOREM InLockStep == Spec => []LockStep
  <1>1. Init => StepInv
    BY StepInit
  <1>2. StepInv /\ [Next]_vars => StepInv'
    BY StepInductive
  <1>3. StepInv => LockStep
    BY GymAssumption DEF StepInv, ControlTypes, OnlyWhenStarted, WaitIsOneBehind, RunIsLevel,
                         NotStartedOrOver, LockStep
  <1> QED
    BY <1>1, <1>2, <1>3, PTL DEF Spec

GymInv == StepInv /\ DataInv

\* The invariants of the steps and of the data hold throughout.
THEOREM InvariantsHold == Spec => []GymInv
  <1>1. Init => GymInv
    BY StepInit, DataInit DEF GymInv
  <1>2. GymInv /\ [Next]_vars => GymInv'
    BY StepInductive, DataInductive DEF GymInv
  <1> QED
    BY <1>1, <1>2, PTL DEF Spec

LEMMA GoodRows ==
    ASSUME NEW batch, GoodBatch(batch)
    PROVE  \A m \in ToSet(batch) : \A row \in ToSet(m) :
               row.name \in Names /\ Len(row.ids) = Len(row.values)
  <1> SUFFICES ASSUME NEW m \in ToSet(batch), NEW row \in ToSet(m)
               PROVE  row.name \in Names /\ Len(row.ids) = Len(row.values)
    OBVIOUS
  <1>1. batch \in Seq(Seq(PlainRows))
    BY DEF GoodBatch
  <1>2. m \in Seq(PlainRows)
    BY <1>1, LenProperties, ElementOfSeq DEF ToSet
  <1>3. row \in PlainRows
    BY <1>2, LenProperties, ElementOfSeq DEF ToSet
  <1> QED
    BY <1>3, RowTypes DEF PlainRows

LEMMA TypesFollow ==
    ASSUME GymInv
    PROVE  TypeOK
  <1>0. /\ StepInv /\ DataTypes /\ InstantInv
        /\ GoodBatch(m_measurementBatch) /\ GoodBatch(report)
    BY DEF GymInv, DataInv, BatchInv, ReportInv
  <1>1. m_waitCounter \in 0 .. TotalSteps /\ sent \in 0 .. TotalSteps
    <2>1. sent \in Nat /\ m_waitCounter \in Nat /\ TotalSteps \in Nat /\ TotalSteps > 0
          /\ phase \in {"run", "wait", "fatal"}
      BY <1>0, GymAssumption DEF StepInv, ControlTypes
    <2>2. m_waitCounter <= TotalSteps /\ sent <= TotalSteps
      <3>1. CASE phase = "run"
        BY <1>0, <2>1, <3>1 DEF StepInv, RunIsLevel, NotStartedOrOver
      <3>2. CASE phase = "wait"
        BY <1>0, <2>1, <3>2 DEF StepInv, WaitIsOneBehind
      <3>3. CASE phase = "fatal"
        BY <1>0, <2>1, <3>3 DEF InstantInv
      <3> QED
        BY <2>1, <3>1, <3>2, <3>3
    <2> QED
      BY <2>1, <2>2
  <1>2. \A m \in ToSet(m_measurementBatch) \cup ToSet(report) : \A row \in ToSet(m) :
            row.name \in Names /\ Len(row.ids) = Len(row.values)
    BY <1>0, GoodRows
  <1>3. \A e \in ToSet(m_moreMeasurement) : e.sum \in Nat
    BY <1>0, SumsElements DEF DataTypes, ToSet
  <1>4. ToSet(m_dlQosMeasure) \subseteq Entries
    BY <1>0, EntryTypes DEF DataTypes, ToSet
  <1>5. \A a \in ToSet(inbox) : a.ts \in 1 .. now
    <2>1. inbox \in Seq([ts : 1 .. now])
      BY <1>0 DEF DataTypes
    <2>2. DOMAIN inbox = 1 .. Len(inbox)
      BY <2>1, LenProperties
    <2>3. \A i \in 1 .. Len(inbox) : inbox[i].ts \in 1 .. now
      <3>1. \A i \in 1 .. Len(inbox) : inbox[i] \in [ts : 1 .. now]
        BY <2>1, ElementOfSeq
      <3> QED
        BY <3>1
    <2> QED
      BY <2>2, <2>3 DEF ToSet
  <1> QED
    BY <1>0, <1>1, <1>2, <1>3, <1>4, <1>5 DEF TypeOK, DataTypes, StepInv, ControlTypes

\* All variables keep their types: no more reports are sent and no more actions are
\* applied than the session has steps (m_totalSteps), the ids and the values of a row go
\* together, and every marking of a client is 0 or 1 (DataProcessor, GmaDataProcessor).
THEOREM TypeCorrect == Spec => []TypeOK
  <1>1. GymInv => TypeOK
    BY TypesFollow
  <1> QED
    BY <1>1, InvariantsHold, PTL

LEMMA ReportFollows ==
    ASSUME GymInv
    PROVE  ReportIsAggregate
  <1> SUFFICES ASSUME report # <<>>, Head(report) # <<>>
               PROVE  IsAggregateOf(NetworkStats(report), report) /\ HasSliceSums(NetworkStats(report))
    BY Zenon DEF ReportIsAggregate
  <1>0. GoodBatch(report) /\ SliceRowsRight(report, m_dlQosMeasure) /\ m_dlQosMeasure \in Measures
    BY DEF GymInv, DataInv, ReportInv, DataTypes
  <1>1. Len(report) > 0 /\ report[1] # <<>>
    <2>1. report \in Seq(Seq(PlainRows))
      BY <1>0 DEF GoodBatch
    <2> QED
      BY <2>1, EmptySeq
  <1>2. /\ IsAggregateOf(NetworkStats(report), report)
        /\ \A row \in ToSet(NetworkStats(report)) :
               \E i \in 1 .. Len(report) : \E a \in 1 .. Len(report[i]) :
                   report[i][a].name = row.name /\ report[i][a].values[1] = row.values[1]
    BY <1>0, <1>1, AggregateOfBatch
  <1>3. ASSUME NEW row \in ToSet(NetworkStats(report)), row.name = "slice_rate"
        PROVE  {<<e.slice, e.sum>> : e \in ToSet(row.values[1])} =
               {<<s, SumOfRates(m_dlQosMeasure, EntriesOf(m_dlQosMeasure, s))>> :
                    s \in {Slice[c] : c \in Clients}}
    <2>1. IsSliceReport(row.values[1], m_dlQosMeasure)
      BY <1>0, <1>2, <1>3 DEF SliceRowsRight
    <2>2. PICK more \in Seq(Sums) : /\ row.values[1] = more /\ HasSums(more, m_dlQosMeasure)
                                    /\ HasSlices(more, Clients)
      BY <2>1 DEF IsSliceReport
    <2>3. /\ DOMAIN more = 1 .. Len(more)
          /\ \A i \in 1 .. Len(more) : more[i].slice \in Slices
                                       /\ more[i].sum = SliceSum(m_dlQosMeasure, more[i].slice)
          /\ \A s \in Slices : \E i \in 1 .. Len(more) : more[i].slice = s
      <3>1. DOMAIN more = 1 .. Len(more) /\ \A i \in 1 .. Len(more) : more[i].slice \in Slices
        BY SumsElements
      <3>2. \A i \in 1 .. Len(more) : more[i].sum = SliceSum(m_dlQosMeasure, more[i].slice)
        BY <2>2 DEF HasSums
      <3>3. \A s \in Slices : \E i \in 1 .. Len(more) : more[i].slice = s
        BY <2>2 DEF HasSlices, Slices
      <3> QED
        BY <3>1, <3>2, <3>3
    <2>4. {<<e.slice, e.sum>> : e \in ToSet(more)}
             = {<<more[i].slice, more[i].sum>> : i \in 1 .. Len(more)}
      BY <2>3 DEF ToSet
    <2>5. {<<more[i].slice, more[i].sum>> : i \in 1 .. Len(more)}
             = {<<s, SliceSum(m_dlQosMeasure, s)>> : s \in Slices}
      BY <2>3
    <2> QED
      BY <2>2, <2>4, <2>5, Zenon DEF SliceSum, Slices
  <1>4. HasSliceSums(NetworkStats(report))
    BY <1>3 DEF HasSliceSums
  <1> QED
    BY <1>2, <1>4

\* In whatever order the sources report, ExchangeMeasurementAndAction sends every
\* subscribed row of the batch once, under its metric and with the ids in order, and the
\* sums of AppendSliceMeasurement are those of the rates the clients of a slice reported,
\* provided the first measurement has a subscribed row.
THEOREM ReportsAggregate == Spec => []ReportIsAggregate
  <1>1. GymInv => ReportIsAggregate
    BY ReportFollows
  <1> QED
    BY <1>1, InvariantsHold, PTL

LEMMA LatestAreReported ==
    ASSUME NEW z \in 0 .. Len(m_dlQosMeasure), m_dlQosMeasure \in Measures,
           HasEntries(m_dlQosMeasure, Clients, z)
    PROVE  LatestReports = (z + 1) .. Len(m_dlQosMeasure)
  <1>1. Cardinality(Clients) \in Nat /\ Len(m_dlQosMeasure) \in Nat
    BY GymAssumption, FS_CardinalityType, EntryTypes
  <1>2. Len(m_dlQosMeasure) - Cardinality(Clients) = z
    BY <1>1 DEF HasEntries
  <1> QED
    BY <1>2 DEF LatestReports

LEMMA PriorityStep ==
    ASSUME GymInv, [Next]_vars, applied' # applied,
           NEW s \in {Slice[c] : c \in Clients},
           NEW i \in LatestReports \cap EntriesOf(m_dlQosMeasure, s)
    PROVE  (m_qosMarking'[m_dlQosMeasure[i].client] = 1) <=>
               (10 * SumOfRates(m_dlQosMeasure, {j \in LatestReports \cap EntriesOf(m_dlQosMeasure, s) : j <= i})
                   <= 7 * SumOfRates(m_dlQosMeasure, LatestReports \cap EntriesOf(m_dlQosMeasure, s)))
  <1> DEFINE N == Len(m_dlQosMeasure)
  <1> DEFINE list == LatestReports \cap EntriesOf(m_dlQosMeasure, s)
  <1> DEFINE c == m_dlQosMeasure[i].client
  <1>0. /\ StepInv /\ DataTypes /\ InstantInv /\ MeasureInv
        /\ m_dlQosMeasure \in Measures
    BY DEF GymInv, DataInv, DataTypes
  <1>1. phase = "wait" /\ m_qosMarking' = CalcQosMarkingAction
    <2>1. GetAction
      <3>1. UNCHANGED applied \/ GetAction
        BY DEF Next, StartMeasurement, Report, EnbMeasurement, CollectMeasureResults, Tick,
               ExchangeMeasurement, Answer, AnswerAgain, ActionTimeout, AddPhyLink, vars
      <3> QED
        BY <3>1
    <2> QED
      BY <2>1 DEF GetAction
  <1>2. m_measurementStarted /\ Reported = Clients
    BY <1>0, <1>1 DEF StepInv, OnlyWhenStarted, InstantInv, Reported
  <1>3. PICK z \in 0 .. N : HasEntries(m_dlQosMeasure, Clients, z)
    BY <1>0, <1>1, <1>2 DEF MeasureInv
  <1>4. N \in Nat /\ DOMAIN m_dlQosMeasure = 1 .. N
    BY <1>0, EntryTypes
  <1>5. LatestReports = (z + 1) .. N
    BY <1>0, <1>3, LatestAreReported
  <1>6. i \in (z + 1) .. N /\ c \in Clients /\ Slice[c] = s
    <2>1. i \in (z + 1) .. N /\ Slice[c] = s
      BY <1>5 DEF EntriesOf
    <2> QED
      BY <1>3, <2>1 DEF HasEntries
  <1>7. CalcQosMarkingAction[c]
           = IF 10 * PrefixRate(m_dlQosMeasure, s, i) <= 7 * SliceSum(m_dlQosMeasure, s) THEN 1 ELSE 0
    BY <1>0, <1>3, <1>6, PriorityOfClient DEF MeasureInv
  \* The entries of earlier instants have no rate.
  <1>8. \A n \in 1 .. N : m_dlQosMeasure[n].rate = 0 \/ n \in LatestReports
    <2>1. \A n \in 1 .. N : n \in 1 .. z \/ n \in (z + 1) .. N
      BY <1>4
    <2> QED
      BY <1>3, <1>5, <2>1 DEF HasEntries
  <1>9. SumOfRates(m_dlQosMeasure, list) = SliceSum(m_dlQosMeasure, s)
    <2>1. \A n \in 1 .. N : m_dlQosMeasure[n].rate = 0
              \/ (n \in list <=> n \in EntriesOf(m_dlQosMeasure, s))
      BY <1>8
    <2> HIDE DEF list
    <2> QED
      BY <1>0, <2>1, SumSame DEF SliceSum
  <1>10. SumOfRates(m_dlQosMeasure, {j \in list : j <= i}) = PrefixRate(m_dlQosMeasure, s, i)
    <2> DEFINE T == {j \in list : j <= i}
    <2> DEFINE U == {j \in EntriesOf(m_dlQosMeasure, s) : j <= i}
    <2>1. \A n \in 1 .. N : m_dlQosMeasure[n].rate = 0 \/ (n \in T <=> n \in U)
      BY <1>8
    <2> HIDE DEF T, U
    <2>2. SumOfRates(m_dlQosMeasure, T) = SumOfRates(m_dlQosMeasure, U)
      BY <1>0, <2>1, SumSame
    <2> QED
      BY <2>2 DEF T, U, PrefixRate
  <1> HIDE DEF list
  <1>11. (m_qosMarking'[c] = 1) <=>
            (10 * SumOfRates(m_dlQosMeasure, {j \in list : j <= i})
                <= 7 * SumOfRates(m_dlQosMeasure, list))
    BY <1>1, <1>7, <1>9, <1>10
  <1> QED
    BY <1>11 DEF list

\* When an action is applied, GetNoneAiAction leaves the priority to the longest prefix of
\* the clients of each slice, in the order of their reports, that has at most 70 % of the
\* rate of the slice: no rate saved before the measurement was started, and no marking of
\* another end of a link, has a part in it.
THEOREM PrefixHasPriority == Spec => PriorityForLongestPrefix
  <1>1. GymInv /\ [Next]_vars =>
          [applied' # applied =>
            \A s \in {Slice[c] : c \in Clients} :
                LET list == LatestReports \cap EntriesOf(m_dlQosMeasure, s)
                    Rate(entries) == SumOfRates(m_dlQosMeasure, entries)
                IN  \A i \in list :
                        (m_qosMarking'[m_dlQosMeasure[i].client] = 1) <=>
                            (10 * Rate({j \in list : j <= i}) <= 7 * Rate(list))]_vars
    BY PriorityStep
  <1> QED
    BY <1>1, InvariantsHold, PTL DEF Spec, PriorityForLongestPrefix

=============================================================================
