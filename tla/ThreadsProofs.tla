--------------------------- MODULE ThreadsProofs ---------------------------
(***************************************************************************)
(* Theorems about Threads, for every set of threads and semaphores, every  *)
(* priority assignment, clock width and set of timeouts.                   *)
(***************************************************************************)
EXTENDS Threads, FiniteSetTheorems, SequenceTheorems, WellFoundedInduction, TLAPS

(***************************************************************************)
(* Sequences and ranks                                                     *)
(***************************************************************************)

\* A non-empty set of naturals has a least element.
LEMMA LeastNat ==
    ASSUME NEW T, T \subseteq Nat, T # {}
    PROVE  \E x \in T : \A y \in T : x <= y
<1> DEFINE R == OpToRel(<, Nat)
<1>1. IsWellFoundedOn(R, Nat)
    BY NatLessThanWellFounded
<1>2. \E x \in T : \A y \in T : ~ (<<y, x>> \in R)
    <2> HIDE DEF R
    <2> QED BY <1>1, WFMin
<1>3. \A x \in Nat, y \in Nat : <<y, x>> \in R <=> y < x
    BY DEF OpToRel
<1>4. PICK x \in T : \A y \in T : ~ (<<y, x>> \in R)
    BY <1>2
<1> HIDE DEF R
<1>5. \A y \in T : ~ (y < x)
    BY <1>3, <1>4
<1> QED
    BY <1>5

\* What __schedule picks: a runnable entry that no runnable entry precedes in
\* priority, provided there is one.
LEMMA BestPick ==
    ASSUME NEW r \in Seq(Threads), NEW b, NEW p \in [Threads -> Nat],
           \E j \in DOMAIN r : b[r[j]] = NoSem
    PROVE  /\ Best(r, b, p) \in DOMAIN r
           /\ b[r[Best(r, b, p)]] = NoSem
           /\ \A j \in DOMAIN r : b[r[j]] = NoSem => p[r[Best(r, b, p)]] <= p[r[j]]
<1> DEFINE J == {j \in DOMAIN r : b[r[j]] = NoSem}
           Q == {p[r[j]] : j \in J}
<1>1. DOMAIN r \subseteq Nat /\ \A j \in DOMAIN r : r[j] \in Threads /\ p[r[j]] \in Nat
    OBVIOUS
<1>2. PICK m \in Q : \A y \in Q : m <= y
    <2>1. Q \subseteq Nat /\ Q # {}
        BY <1>1
    <2> HIDE DEF Q
    <2> QED BY <2>1, LeastNat
<1> DEFINE K == {j \in J : p[r[j]] = m}
<1>3. PICK i \in K : \A j \in K : i <= j
    <2>1. K \subseteq Nat /\ K # {}
        BY <1>1, <1>2
    <2> HIDE DEF K
    <2> QED BY <2>1, LeastNat
<1>4. /\ i \in DOMAIN r /\ b[r[i]] = NoSem
      /\ \A j \in DOMAIN r : b[r[j]] = NoSem =>
            \/ p[r[i]] < p[r[j]]
            \/ p[r[i]] = p[r[j]] /\ i <= j
    <2> SUFFICES ASSUME NEW j \in DOMAIN r, b[r[j]] = NoSem
                 PROVE  p[r[i]] < p[r[j]] \/ (p[r[i]] = p[r[j]] /\ i <= j)
        BY <1>3
    <2>1. p[r[i]] = m /\ m <= p[r[j]] /\ p[r[j]] \in Nat /\ m \in Nat
        BY <1>1, <1>2, <1>3
    <2>2. p[r[j]] = m => i <= j
        BY <1>3
    <2> QED BY <2>1, <2>2
<1>5. /\ Best(r, b, p) \in DOMAIN r /\ b[r[Best(r, b, p)]] = NoSem
      /\ \A j \in DOMAIN r : b[r[j]] = NoSem =>
            \/ p[r[Best(r, b, p)]] < p[r[j]]
            \/ p[r[Best(r, b, p)]] = p[r[j]] /\ Best(r, b, p) <= j
    BY <1>4 DEF Best
<1> QED BY <1>1, <1>5, SMTT(30)

\* Rotating a list to end at entry i keeps its members.
LEMMA Rotate ==
    ASSUME NEW S, NEW r \in Seq(S), NEW i \in DOMAIN r
    PROVE  LET w == SubSeq(r, i + 1, Len(r)) \o SubSeq(r, 1, i)
           IN  /\ w \in Seq(S) /\ Len(w) = Len(r) /\ Len(w) \in DOMAIN w
               /\ w[Len(w)] = r[i]
               /\ Members(w) = Members(r)
<1> DEFINE x == SubSeq(r, i + 1, Len(r))
           y == SubSeq(r, 1, i)
           w == x \o y
<1>1. Len(r) \in Nat /\ DOMAIN r = 1 .. Len(r) /\ i \in 1 .. Len(r)
    OBVIOUS
<1>2. /\ x \in Seq(S) /\ Len(x) = Len(r) - i
      /\ \A k \in 1 .. Len(r) - i : x[k] = r[i + k]
    BY <1>1
<1>3. /\ y \in Seq(S) /\ Len(y) = i
      /\ \A k \in 1 .. i : y[k] = r[k]
    BY <1>1
<1> HIDE DEF x, y
<1>4. /\ w \in Seq(S) /\ Len(w) = Len(r) /\ DOMAIN w = 1 .. Len(r)
      /\ \A k \in 1 .. Len(r) : w[k] = IF k <= Len(r) - i THEN r[i + k] ELSE r[k - (Len(r) - i)]
    <2>1. /\ w \in Seq(S) /\ Len(w) = Len(x) + Len(y) /\ DOMAIN w = 1 .. Len(w)
          /\ \A k \in 1 .. Len(x) + Len(y) :
                w[k] = IF k <= Len(x) THEN x[k] ELSE y[k - Len(x)]
        BY <1>2, <1>3, ConcatProperties, LenProperties
    <2> HIDE DEF w
    <2>2. Len(w) = Len(r)
        BY <1>1, <1>2, <1>3, <2>1
    <2>3. ASSUME NEW k \in 1 .. Len(r)
          PROVE  w[k] = IF k <= Len(r) - i THEN r[i + k] ELSE r[k - (Len(r) - i)]
        <3>1. CASE k <= Len(r) - i
            BY <1>1, <1>2, <1>3, <2>1, <3>1
        <3>2. CASE k > Len(r) - i
            <4>1. k - (Len(r) - i) \in 1 .. i
                BY <1>1, <3>2
            <4>2. w[k] = y[k - (Len(r) - i)]
                BY <1>1, <1>2, <1>3, <2>1, <3>2
            <4> QED BY <1>1, <1>3, <3>2, <4>1, <4>2
        <3> QED BY <1>1, <3>1, <3>2
    <2> QED BY <2>1, <2>2, <2>3
<1> HIDE DEF w
<1>5. Members(w) \subseteq Members(r)
    BY <1>1, <1>4, SMTT(30) DEF Members
<1>6. Members(r) \subseteq Members(w)
    <2> SUFFICES ASSUME NEW k \in 1 .. Len(r)
                 PROVE  r[k] \in Members(w)
        BY <1>1 DEF Members
    <2>1. CASE k > i
        <3>1. k - i \in 1 .. Len(r) /\ k - i <= Len(r) - i /\ i + (k - i) = k
            BY <1>1, <2>1
        <3> QED BY <1>4, <3>1 DEF Members
    <2>2. CASE k <= i
        <3> DEFINE h == k + (Len(r) - i)
        <3>1. h \in 1 .. Len(r) /\ ~(h <= Len(r) - i) /\ h - (Len(r) - i) = k
            BY <1>1, <2>2
        <3> HIDE DEF h
        <3> QED BY <1>4, <3>1 DEF Members
    <2> QED BY <1>1, <2>1, <2>2
<1>7. w[Len(w)] = r[i] /\ Len(w) \in DOMAIN w
    BY <1>1, <1>4
<1> QED BY <1>4, <1>5, <1>6, <1>7 DEF w, x, y

\* For every k up to its size, a set of list positions has a k-th smallest one.
LEMMA RankExists ==
    ASSUME NEW n \in Nat, NEW K \in SUBSET (1 .. n), NEW k \in 1 .. Cardinality(K)
    PROVE  \E i \in K : Cardinality({j \in K : j <= i}) = k
<1> DEFINE Upto(i) == {j \in K : j <= i}
           S == {i \in 0 .. n : Cardinality(Upto(i)) >= k}
<1>0. \A j \in K : j \in Nat /\ 1 <= j /\ j <= n
    OBVIOUS
<1>1. IsFiniteSet(K) /\ Cardinality(K) \in Nat
    <2>1. IsFiniteSet(1 .. n)
        BY FS_Interval
    <2> QED BY <2>1, FS_Subset, FS_CardinalityType
<1>2. \A i \in 0 .. n : IsFiniteSet(Upto(i)) /\ Cardinality(Upto(i)) \in Nat
    BY <1>1, FS_Subset, FS_CardinalityType
<1>3. Upto(n) = K
    BY <1>0
<1>4. n \in S
    BY <1>1, <1>3
<1>5. PICK m \in S : \A i \in S : m <= i
    <2>1. S \subseteq Nat /\ S # {}
        BY <1>4
    <2> HIDE DEF S
    <2> QED BY <2>1, LeastNat
<1>. m \in Nat /\ m <= n
    BY <1>5
<1> HIDE DEF S
<1>6. m # 0
    <2>1. Upto(0) = {}
        <3>1. \A j \in K : ~(j <= 0)
            BY <1>0
        <3> QED BY <3>1
    <2>2. Cardinality(Upto(0)) = 0
        BY <2>1, FS_EmptySet
    <2> QED BY <1>5, <2>2 DEF S
<1>7. m - 1 \in 0 .. n /\ Cardinality(Upto(m - 1)) < k
    <2>1. m - 1 \in 0 .. n /\ m - 1 \notin S
        BY <1>5, <1>6
    <2>2. ~(Cardinality(Upto(m - 1)) >= k)
        BY <2>1 DEF S
    <2> HIDE DEF Upto, S
    <2> QED BY <1>2, <2>1, <2>2
<1>8. m \in K
    <2> SUFFICES ASSUME m \notin K PROVE FALSE
        OBVIOUS
    <2>1. \A j \in K : j <= m <=> j <= m - 1
        BY <1>0
    <2>2. Upto(m) = Upto(m - 1)
        BY <2>1
    <2> HIDE DEF Upto
    <2> QED BY <1>2, <1>5, <1>7, <2>2 DEF S
<1>9. Upto(m) = Upto(m - 1) \cup {m} /\ m \notin Upto(m - 1)
    <2>1. \A j \in K : (j <= m <=> j <= m - 1 \/ j = m) /\ ~(m <= m - 1)
        BY <1>0
    <2> QED BY <1>8, <2>1
<1>10. Cardinality(Upto(m)) = Cardinality(Upto(m - 1)) + 1
    <2> HIDE DEF Upto
    <2> QED BY <1>2, <1>7, <1>9, FS_AddElement
<1>11. Cardinality(Upto(m)) >= k
    BY <1>5 DEF S
<1> QED
    <2> HIDE DEF Upto
    <2>1. Cardinality(Upto(m)) = k
        BY <1>2, <1>7, <1>10, <1>11
    <2> QED BY <1>8, <2>1 DEF Upto

\* Distinct positions have distinct ranks, from 1 to the size of the set.
LEMMA RankUnique ==
    ASSUME NEW n \in Nat, NEW K \in SUBSET (1 .. n), NEW a \in K, NEW b \in K
    PROVE  /\ Cardinality({j \in K : j <= a}) \in 1 .. Cardinality(K)
           /\ Cardinality({j \in K : j <= a}) = Cardinality({j \in K : j <= b}) => a = b
<1> DEFINE Upto(i) == {j \in K : j <= i}
<1>0. \A j \in K : j \in Nat /\ 1 <= j /\ j <= n
    OBVIOUS
<1>1. IsFiniteSet(K) /\ Cardinality(K) \in Nat
    <2>1. IsFiniteSet(1 .. n)
        BY FS_Interval
    <2> QED BY <2>1, FS_Subset, FS_CardinalityType
<1>2. \A i \in K : Upto(i) \in SUBSET K /\ i \in Upto(i)
    OBVIOUS
<1>3. \A i \in K : IsFiniteSet(Upto(i)) /\ Cardinality(Upto(i)) \in 1 .. Cardinality(K)
    <2> SUFFICES ASSUME NEW i \in K
                 PROVE  IsFiniteSet(Upto(i)) /\ Cardinality(Upto(i)) \in 1 .. Cardinality(K)
        OBVIOUS
    <2> HIDE DEF Upto
    <2>1. IsFiniteSet(Upto(i)) /\ Cardinality(Upto(i)) <= Cardinality(K)
        BY <1>1, <1>2, FS_Subset
    <2>2. Cardinality(Upto(i)) \in Nat /\ Cardinality(Upto(i)) # 0
        BY <1>2, <2>1, FS_EmptySet, FS_CardinalityType
    <2> QED BY <1>1, <2>1, <2>2
<1>4. ASSUME NEW i \in K, NEW h \in K, i < h
      PROVE  Cardinality(Upto(i)) # Cardinality(Upto(h))
    <2>0. \A j \in K : (j <= i => j <= h) /\ ~(h <= i) /\ h <= h
        BY <1>0, <1>4
    <2>1. Upto(i) \in SUBSET Upto(h) /\ h \notin Upto(i) /\ h \in Upto(h)
        BY <2>0
    <2> HIDE DEF Upto
    <2> QED BY <1>3, <2>1, FS_Subset
<1>5. a \in Nat /\ b \in Nat
    OBVIOUS
<1> HIDE DEF Upto
<1>6. Cardinality(Upto(a)) = Cardinality(Upto(b)) => a = b
    BY <1>4, <1>5
<1> QED BY <1>3, <1>6 DEF Upto

\* Unlinking the threads of e from a list without duplicates leaves the others,
\* again without duplicates.
LEMMA WithoutProperties ==
    ASSUME NEW T, NEW q \in Seq(T), NEW e
    PROVE  /\ Without(q, e) \in Seq(T)
           /\ Members(Without(q, e)) = Members(q) \ e
           /\ (\A i, j \in DOMAIN q : q[i] = q[j] => i = j)
                => \A i, j \in DOMAIN Without(q, e) :
                      Without(q, e)[i] = Without(q, e)[j] => i = j
<1> DEFINE K == {i \in DOMAIN q : q[i] \notin e}
           Rank(i) == Cardinality({j \in K : j <= i})
           Nth(k) == CHOOSE i \in K : Rank(i) = k
           w == [k \in 1 .. Cardinality(K) |-> q[Nth(k)]]
<1>1. Len(q) \in Nat /\ DOMAIN q = 1 .. Len(q) /\ K \in SUBSET (1 .. Len(q))
      /\ \A i \in DOMAIN q : q[i] \in T
    BY LenProperties
<1>2. IsFiniteSet(K) /\ Cardinality(K) \in Nat
    <2> HIDE DEF K
    <2>1. IsFiniteSet(1 .. Len(q))
        BY <1>1, FS_Interval
    <2> QED BY <1>1, <2>1, FS_Subset, FS_CardinalityType
<1>3. \A k \in 1 .. Cardinality(K) : \E i \in K : Rank(i) = k
    <2> HIDE DEF K
    <2> QED BY <1>1, RankExists
<1>4. \A i, j \in K : Rank(i) \in 1 .. Cardinality(K) /\ (Rank(i) = Rank(j) => i = j)
    <2> HIDE DEF K
    <2> QED BY <1>1, RankUnique
<1>5. \A k \in 1 .. Cardinality(K) : Nth(k) \in K /\ Rank(Nth(k)) = k
    <2> HIDE DEF K, Rank
    <2> QED BY <1>3
<1>6. \A i \in K : Nth(Rank(i)) = i
    <2> HIDE DEF K, Rank, Nth
    <2> QED BY <1>4, <1>5
<1>7. Without(q, e) = w
    BY DEF Without
<1>8. w \in Seq(T) /\ DOMAIN w = 1 .. Cardinality(K) /\ \A k \in DOMAIN w : w[k] = q[Nth(k)]
    <2>1. \A i \in K : q[i] \in T
        BY <1>1
    <2> HIDE DEF K, Rank, Nth
    <2> QED BY <1>2, <1>5, <2>1
<1>9. Members(w) = Members(q) \ e
    <2>1. \A i \in K : i \in DOMAIN q /\ q[i] \notin e
        OBVIOUS
    <2>2. \A i \in DOMAIN q : q[i] \notin e => i \in K
        OBVIOUS
    <2> HIDE DEF K, Rank, Nth, w
    <2>3. Members(w) \subseteq Members(q) \ e
        BY <1>5, <1>8, <2>1 DEF Members
    <2>4. Members(q) \ e \subseteq Members(w)
        <3> SUFFICES ASSUME NEW i \in DOMAIN q, q[i] \notin e PROVE q[i] \in Members(w)
            BY DEF Members
        <3>1. i \in K
            BY <2>2
        <3>2. Rank(i) \in DOMAIN w /\ w[Rank(i)] = q[i]
            BY <1>4, <1>6, <1>8, <3>1
        <3> QED BY <3>2 DEF Members
    <2> QED BY <2>3, <2>4
<1>10. ASSUME \A i, j \in DOMAIN q : q[i] = q[j] => i = j,
              NEW i \in DOMAIN w, NEW j \in DOMAIN w, w[i] = w[j]
       PROVE  i = j
    <2>1. \A k \in K : k \in DOMAIN q
        OBVIOUS
    <2> HIDE DEF K, Rank, Nth, w
    <2>2. Nth(i) = Nth(j)
        BY <1>5, <1>8, <1>10, <2>1
    <2> QED BY <1>5, <1>8, <2>2
<1> HIDE DEF K, Rank, Nth, w
<1> QED BY <1>7, <1>8, <1>9, <1>10

-----------------------------------------------------------------------------
(***************************************************************************)
(* Type correctness and the scheduler's choice                             *)
(***************************************************************************)

\* The list ends with curr, idle is on it and always runnable (so __schedule
\* never finds nothing to run), and a call in progress knows its semaphore.
Alive ==
    /\ Len(ring) \in DOMAIN ring /\ ring[Len(ring)] = curr
    /\ Idle \in Members(ring) /\ blocked[Idle] = NoSem /\ pc[Idle] = "user"
    /\ \A t \in Threads : pc[t] \in {"down", "up"} => arg[t] \in Sems

\* HighestPriorityRuns is kept by what __schedule does, given Alive.
Sound == TypeOK /\ Alive /\ HighestPriorityRuns

\* What __schedule establishes, whatever it is called with.
LEMMA ScheduleSound ==
    ASSUME TypeOK,
           NEW c \in [Sems -> Int], NEW q \in [Sems -> Seq(Threads)],
           NEW b \in [Threads -> Sems \cup {NoSem}],
           NEW d \in [Threads -> 0 .. ClockMod - 1],
           NEW o \in [Threads -> BOOLEAN],
           NEW r \in Seq(Threads), NEW p \in [Threads -> Nat],
           NEW n \in 0 .. ClockMod - 1,
           Idle \in Members(r), b[Idle] = NoSem,
           Schedule(c, q, b, d, o, r, p, n)
    PROVE  /\ ring' \in Seq(Threads) /\ curr' \in Threads
           /\ prio' \in [Threads -> Nat]
           /\ blocked' \in [Threads -> Sems \cup {NoSem}]
           /\ deadline' \in [Threads -> 0 .. ClockMod - 1]
           /\ timedOut' \in [Threads -> BOOLEAN]
           /\ count' \in [Sems -> Int]
           /\ queue' \in [Sems -> Seq(Threads)]
           /\ now' \in 0 .. ClockMod - 1 /\ last' \in 0 .. ClockMod - 1
           /\ Len(ring') \in DOMAIN ring' /\ ring'[Len(ring')] = curr'
           /\ Idle \in Members(ring)' /\ blocked'[Idle] = NoSem
           /\ HighestPriorityRuns'
<1> DEFINE e == IF hooks = "both" /\ n # last THEN Expired(b, d, r, n) ELSE {}
           i == Best(r, blocked', p)
<1>0. IsFiniteSet(Threads) /\ NoSem \notin Sems /\ Idle \in Threads
    BY ThreadsAssumption
<1>1. /\ count' = Returned(c, b, e)
      /\ queue' = [s \in Sems |-> Without(q[s], e)]
      /\ blocked' = [t \in Threads |-> IF t \in e THEN NoSem ELSE b[t]]
      /\ deadline' = [t \in Threads |-> IF t \in e THEN 0 ELSE d[t]]
      /\ timedOut' = [t \in Threads |-> t \in e \/ o[t]]
      /\ last' = IF hooks = "both" THEN n ELSE last
      /\ ring' = SubSeq(r, i + 1, Len(r)) \o SubSeq(r, 1, i)
      /\ curr' = r[i] /\ prio' = p /\ now' = n
    BY DEF Schedule
<1>2. e \in SUBSET Threads
    BY DEF Expired, Members
<1> HIDE DEF e
<1>3. blocked' \in [Threads -> Sems \cup {NoSem}] /\ blocked'[Idle] = NoSem
    BY <1>0, <1>1
<1>4. \E j \in DOMAIN r : blocked'[r[j]] = NoSem
    BY <1>3 DEF Members
<1>5. /\ i \in DOMAIN r /\ blocked'[r[i]] = NoSem
      /\ \A j \in DOMAIN r : blocked'[r[j]] = NoSem => p[r[i]] <= p[r[j]]
    BY <1>4, BestPick
<1> HIDE DEF i
<1>6. /\ ring' \in Seq(Threads) /\ Len(ring') \in DOMAIN ring'
      /\ ring'[Len(ring')] = curr' /\ Members(ring') = Members(r)
    BY <1>1, <1>5, Rotate, ZenonT(60)
<1>7. curr' \in Threads
    BY <1>1, <1>5
<1>8. HighestPriorityRuns'
    <2> SUFFICES ASSUME NEW t \in Threads, t \in Members(r), blocked'[t] = NoSem
                 PROVE  prio'[curr'] <= prio'[t]
        BY <1>1, <1>5, <1>6 DEF HighestPriorityRuns, Runnable, Members
    <2> QED BY <1>1, <1>5 DEF Members
<1>9. count' \in [Sems -> Int]
    <2>1. ASSUME NEW s \in Sems
          PROVE  c[s] + Cardinality({t \in e : b[t] = s}) \in Int
        <3>1. {t \in e : b[t] = s} \in SUBSET Threads
            BY <1>2
        <3>2. Cardinality({t \in e : b[t] = s}) \in Nat
            BY <1>0, <3>1, FS_Subset, FS_CardinalityType
        <3> QED BY <3>2
    <2> QED BY <1>1, <2>1 DEF Returned
<1>10. queue' \in [Sems -> Seq(Threads)]
    BY <1>1, WithoutProperties
<1>11. /\ deadline' \in [Threads -> 0 .. ClockMod - 1]
       /\ timedOut' \in [Threads -> BOOLEAN]
    <2>1. 0 \in 0 .. ClockMod - 1
        BY ThreadsAssumption
    <2> QED BY <1>1, <2>1
<1>12. last' \in 0 .. ClockMod - 1
    BY <1>1 DEF TypeOK
<1> QED
    BY <1>1, <1>3, <1>6, <1>7, <1>8, <1>9, <1>10, <1>11, <1>12 DEF Members

LEMMA SoundInit == Init => Sound
<1> SUFFICES ASSUME Init PROVE Sound
    OBVIOUS
<1>0. /\ Root \in Threads /\ Idle \in Threads /\ Root # Idle
      /\ Prio \in [Threads -> Nat] /\ InitCount \in [Sems -> Nat]
      /\ 0 \in 0 .. ClockMod - 1 /\ ClockMod \in Nat
    BY ThreadsAssumption
<1>1. ring \in Seq(Threads) /\ Len(ring) = 2 /\ DOMAIN ring = 1 .. 2 /\ ring[1] = Idle /\ ring[2] = Root
    BY <1>0 DEF Init
<1>2. Members(ring) = {Idle, Root}
    <2>1. 1 \in DOMAIN ring /\ 2 \in DOMAIN ring /\ \A i \in DOMAIN ring : i = 1 \/ i = 2
        BY <1>1
    <2>2. \A x : x \in Members(ring) <=> \E i \in DOMAIN ring : x = ring[i]
        BY Zenon DEF Members
    <2>3. \A x : x \in Members(ring) <=> x = Idle \/ x = Root
        BY <1>1, <2>1, <2>2, Zenon
    <2> QED BY <2>3
<1>3. TypeOK
    BY <1>0, <1>1 DEF Init, TypeOK, Places
<1>4. Alive
    <2>1. Len(ring) \in DOMAIN ring /\ ring[Len(ring)] = curr
        BY <1>1 DEF Init
    <2>2. Idle \in Members(ring) /\ blocked[Idle] = NoSem /\ pc[Idle] = "user"
        BY <1>0, <1>2 DEF Init
    <2>3. \A t \in Threads : pc[t] \notin {"down", "up"}
        BY <1>0 DEF Init
    <2> QED BY <2>1, <2>2, <2>3 DEF Alive
<1>5. HighestPriorityRuns
    <2>1. Prio[Root] <= Prio[Root] /\ Prio[Root] <= Prio[Idle]
        BY <1>0, ThreadsAssumption
    <2>2. prio = Prio /\ curr = Root /\ blocked[curr] = NoSem
        BY <1>0 DEF Init
    <2> QED BY <1>2, <2>1, <2>2 DEF HighestPriorityRuns, Runnable
<1> QED BY <1>3, <1>4, <1>5 DEF Sound

\* One tick later, the clock and the ghost `waited' are still in range.
LEMMA ClockTypes ==
    ASSUME TypeOK
    PROVE  Ticked \in 0 .. ClockMod - 1 /\ Older \in [Threads -> 0 .. ClockMod]
<1>0. ClockMod \in Nat \ {0} /\ TickMs \in Nat \ {0} /\ now \in Nat
    BY ThreadsAssumption DEF TypeOK
<1>1. Ticked \in 0 .. ClockMod - 1
    BY <1>0 DEF Ticked
<1>2. ASSUME NEW t \in Threads
      PROVE  (IF deadline[t] = 0 \/ waited[t] + TickMs > ClockMod THEN waited[t]
              ELSE waited[t] + TickMs) \in 0 .. ClockMod
    <2>1. waited[t] \in 0 .. ClockMod
        BY DEF TypeOK
    <2> QED BY <1>0, <2>1
<1> QED BY <1>1, <1>2 DEF Older

LEMMA SoundStep == Sound /\ [Next]_vars => Sound'
<1> SUFFICES ASSUME Sound, [Next]_vars PROVE Sound'
    OBVIOUS
<1> USE DEF Sound
<1>0. /\ Root \in Threads /\ Idle \in Threads /\ NoSem \notin Sems /\ MallocSem \in Sems
      /\ Mortal \subseteq Threads \ {Root, Idle} /\ Timeouts \subseteq Nat \cup {-1}
      /\ ClockMod \in Nat \ {0} /\ TickMs \in Nat \ {0} /\ 0 \in 0 .. ClockMod - 1
    BY ThreadsAssumption
<1>1. ASSUME NEW t \in Threads, NEW s \in Sems, NEW timeout \in Timeouts, SemDown(t, s, timeout)
      PROVE  Sound'
    <2>1. TypeOK'
        <3>0. /\ count' = [count EXCEPT ![s] = @ - 1]
              /\ NoSchedule /\ UNCHANGED <<hooks, waited>>
            BY <1>1 DEF SemDown, IrqVars
        <3>1. count' \in [Sems -> Int]
            BY <3>0 DEF TypeOK
        <3>2. CASE count[s] - 1 < 0
            <4>1. /\ pc' = [pc EXCEPT ![t] = "down"] /\ arg' = [arg EXCEPT ![t] = s]
                  /\ tmo' = [tmo EXCEPT ![t] = timeout] /\ UNCHANGED <<holds, held>>
                BY <1>1, <3>2 DEF SemDown
            <4>2. /\ pc' \in [Threads -> Places] /\ arg' \in [Threads -> Sems \cup {NoSem}]
                  /\ tmo' \in [Threads -> Timeouts \cup {0}]
                BY <4>1 DEF TypeOK, Places
            <4> QED BY <3>0, <3>1, <4>1, <4>2 DEF TypeOK, NoSchedule
        <3>3. CASE ~(count[s] - 1 < 0)
            <4>1. Acquire(t, s) /\ UNCHANGED <<pc, arg, tmo>>
                BY <1>1, <3>3 DEF SemDown
            <4>2. holds' \in [Threads -> SUBSET Sems] /\ held' \in [Sems -> Int]
                BY <4>1 DEF TypeOK, Acquire
            <4> QED BY <3>0, <3>1, <4>1, <4>2 DEF TypeOK, NoSchedule
        <3> QED BY <3>2, <3>3
    <2>2. Alive'
        BY <1>0, <1>1, ZenonT(60) DEF SemDown, TypeOK, Alive, NoSchedule, Running, Members
    <2>3. HighestPriorityRuns'
        BY <1>1 DEF SemDown, HighestPriorityRuns, Runnable, NoSchedule, Members
    <2> QED BY <2>1, <2>2, <2>3
<1>2. ASSUME NEW t \in Threads, SemDownBail(t) \/ SemDownImmediate(t) \/ SemUpNobody(t)
      PROVE  Sound'
    <2>0. /\ pc' = [pc EXCEPT ![t] = "user"] /\ arg' = [arg EXCEPT ![t] = NoSem]
          /\ NoSchedule /\ UNCHANGED <<hooks, waited>>
          /\ tmo' = tmo \/ tmo' = [tmo EXCEPT ![t] = 0]
          /\ arg[t] \in Sems
        BY <1>2 DEF SemDownBail, SemDownImmediate, SemUpNobody, IrqVars, Alive
    <2>1. /\ count' \in [Sems -> Int]
          /\ holds' \in [Threads -> SUBSET Sems] /\ held' \in [Sems -> Int]
        <3>1. CASE SemDownBail(t)
            BY <2>0, <3>1 DEF SemDownBail, TypeOK, Acquire
        <3>2. CASE SemDownImmediate(t)
            BY <2>0, <3>2 DEF SemDownImmediate, TypeOK
        <3>3. CASE SemUpNobody(t)
            BY <3>3 DEF SemUpNobody, TypeOK
        <3> QED BY <1>2, <3>1, <3>2, <3>3
    <2>2. pc' \in [Threads -> Places] /\ arg' \in [Threads -> Sems \cup {NoSem}]
        BY <2>0 DEF TypeOK, Places
    <2>3. tmo' \in [Threads -> Timeouts \cup {0}]
        BY <2>0 DEF TypeOK
    <2>4. TypeOK'
        BY <2>0, <2>1, <2>2, <2>3 DEF TypeOK, NoSchedule
    <2>5. \A v \in Threads : pc'[v] \in {"down", "up"} => arg'[v] \in Sems
        BY <2>0 DEF TypeOK, Alive
    <2>6. pc'[Idle] = "user"
        BY <1>0, <2>0 DEF TypeOK, Alive
    <2>7. Alive'
        BY <2>0, <2>5, <2>6 DEF Alive, NoSchedule, Members
    <2>8. HighestPriorityRuns'
        BY <2>0 DEF HighestPriorityRuns, Runnable, NoSchedule, Members
    <2> QED BY <2>4, <2>7, <2>8
<1>3. ASSUME NEW t \in Threads, SemDownReturn(t)
      PROVE  Sound'
    <2>1. TypeOK'
        BY <1>0, <1>3, SMTT(30) DEF SemDownReturn, TypeOK, Places
    <2>2. Alive'
        BY <1>0, <1>3 DEF SemDownReturn, TypeOK, Alive, Members
    <2>3. HighestPriorityRuns'
        BY <1>3 DEF SemDownReturn, HighestPriorityRuns, Runnable, Members
    <2> QED BY <2>1, <2>2, <2>3
<1>4. ASSUME NEW t \in Threads, NEW s \in Sems, SemUp(t, s)
      PROVE  Sound'
    <2>1. TypeOK'
        <3>1. /\ count' \in [Sems -> Int] /\ held' \in [Sems -> Int]
              /\ holds' \in [Threads -> SUBSET Sems]
            BY <1>4, SMTT(30) DEF SemUp, TypeOK
        <3>2. /\ pc' \in [Threads -> Places]
              /\ arg' \in [Threads -> Sems \cup {NoSem}]
            BY <1>4 DEF SemUp, TypeOK, Places
        <3> QED BY <1>4, <3>1, <3>2 DEF SemUp, TypeOK, NoSchedule, IrqVars
    <2>2. Alive'
        BY <1>0, <1>4, ZenonT(60) DEF SemUp, TypeOK, Alive, NoSchedule, Running, Members
    <2>3. HighestPriorityRuns'
        BY <1>4 DEF SemUp, HighestPriorityRuns, Runnable, NoSchedule, Members
    <2> QED BY <2>1, <2>2, <2>3
<1>5. ASSUME NEW t \in Threads, RemoveHook(t)
      PROVE  Sound'
    BY <1>5 DEF RemoveHook, TypeOK, Alive, HighestPriorityRuns, Runnable, NoSchedule, SemVars, Members
<1>6. CASE UnhookedTick
    <2>1. Ticked \in 0 .. ClockMod - 1 /\ Older \in [Threads -> 0 .. ClockMod]
        BY ClockTypes
    <2> QED BY <1>6, <2>1 DEF UnhookedTick, TypeOK, Alive, HighestPriorityRuns, Runnable, SemVars, Members
<1>7. CASE UNCHANGED vars
    <2>1. TypeOK'
        BY <1>7 DEF vars, TypeOK
    <2>2. Alive'
        BY <1>7 DEF vars, Alive, Members
    <2>3. HighestPriorityRuns'
        BY <1>7 DEF vars, HighestPriorityRuns, Runnable, Members
    <2> QED BY <2>1, <2>2, <2>3
<1>8. ASSUME NEW t \in Threads, SemDownBlock(t)
      PROVE  Sound'
    <2> DEFINE due == IF tmo[t] = 0 THEN 0 ELSE (now + tmo[t]) % ClockMod
    <2>0. t # Idle /\ arg[t] \in Sems
        BY <1>8 DEF SemDownBlock, Alive
    <2>1. due \in 0 .. ClockMod - 1
        <3>1. tmo[t] \in Nat /\ now \in Nat
            <4>1. tmo[t] \in Timeouts \cup {0} /\ tmo[t] # -1 /\ now \in 0 .. ClockMod - 1
                BY <1>8 DEF SemDownBlock, TypeOK
            <4>2. \A x \in Timeouts : x \in Nat \/ x = -1
                BY <1>0
            <4>3. tmo[t] \in Nat
                BY <4>1, <4>2
            <4>4. now \in Nat
                BY <1>0, <4>1
            <4> QED BY <4>3, <4>4
        <3> QED BY <1>0, <3>1
    <2>2. /\ [queue EXCEPT ![arg[t]] = Append(@, t)] \in [Sems -> Seq(Threads)]
          /\ [blocked EXCEPT ![t] = arg[t]] \in [Threads -> Sems \cup {NoSem}]
          /\ [deadline EXCEPT ![t] = due] \in [Threads -> 0 .. ClockMod - 1]
          /\ [timedOut EXCEPT ![t] = FALSE] \in [Threads -> BOOLEAN]
          /\ [blocked EXCEPT ![t] = arg[t]][Idle] = NoSem
        <3> HIDE DEF due
        <3>1. queue[arg[t]] \in Seq(Threads)
            BY <2>0 DEF TypeOK
        <3>2. Append(queue[arg[t]], t) \in Seq(Threads)
            BY <3>1, AppendProperties
        <3>3. [queue EXCEPT ![arg[t]] = Append(@, t)] \in [Sems -> Seq(Threads)]
            BY <2>0, <3>2 DEF TypeOK
        <3>4. /\ [blocked EXCEPT ![t] = arg[t]] \in [Threads -> Sems \cup {NoSem}]
              /\ [blocked EXCEPT ![t] = arg[t]][Idle] = NoSem
            BY <1>0, <2>0 DEF TypeOK, Alive
        <3> QED BY <2>1, <3>3, <3>4 DEF TypeOK
    <2>3. Schedule(count, [queue EXCEPT ![arg[t]] = Append(@, t)],
                   [blocked EXCEPT ![t] = arg[t]], [deadline EXCEPT ![t] = due],
                   [timedOut EXCEPT ![t] = FALSE], ring, prio, now)
        BY <1>8 DEF SemDownBlock
    <2> HIDE DEF due
    <2>4. /\ pc' = [pc EXCEPT ![t] = "asleep"] /\ waited' = [waited EXCEPT ![t] = 0]
          /\ UNCHANGED <<hooks, arg, tmo, holds, held>>
        BY <1>8 DEF SemDownBlock, SemVars
    <2>5. /\ pc' \in [Threads -> Places] /\ pc'[Idle] = "user"
          /\ waited' \in [Threads -> 0 .. ClockMod]
          /\ \A u \in Threads : pc'[u] \in {"down", "up"} => arg'[u] \in Sems
        <3>1. pc' \in [Threads -> Places] /\ pc'[Idle] = "user"
            BY <1>0, <2>0, <2>4 DEF TypeOK, Alive, Places
        <3>2. waited' \in [Threads -> 0 .. ClockMod]
            BY <1>0, <2>4 DEF TypeOK
        <3>3. \A u \in Threads : pc'[u] \in {"down", "up"} => arg'[u] \in Sems
            BY <2>4 DEF TypeOK, Alive
        <3> QED BY <3>1, <3>2, <3>3
    <2>6. ring \in Seq(Threads) /\ Idle \in Members(ring) /\ TypeOK
        BY DEF Alive, TypeOK
    <2> QED BY <2>2, <2>3, <2>4, <2>5, <2>6, ScheduleSound DEF TypeOK, Alive
<1>9. ASSUME NEW t \in Threads, SemUpWake(t)
      PROVE  Sound'
    <2> DEFINE s == arg[t]
               u == Head(queue[s])
    <2>0. s \in Sems /\ queue[s] \in Seq(Threads) /\ queue[s] # << >>
        BY <1>9 DEF SemUpWake, Alive, TypeOK
    <2>1. u \in Threads /\ Tail(queue[s]) \in Seq(Threads)
        BY <2>0, HeadTailProperties
    <2>2. /\ [queue EXCEPT ![s] = Tail(@)] \in [Sems -> Seq(Threads)]
          /\ [blocked EXCEPT ![u] = NoSem] \in [Threads -> Sems \cup {NoSem}]
          /\ [deadline EXCEPT ![u] = 0] \in [Threads -> 0 .. ClockMod - 1]
          /\ [blocked EXCEPT ![u] = NoSem][Idle] = NoSem
        <3> HIDE DEF u
        <3> QED BY <1>0, <2>0, <2>1 DEF TypeOK, Alive
    <2>3. Schedule(count, [queue EXCEPT ![s] = Tail(@)], [blocked EXCEPT ![u] = NoSem],
                   [deadline EXCEPT ![u] = 0], timedOut, ring, prio, now)
        BY <1>9 DEF SemUpWake
    <2>4. /\ pc' = [pc EXCEPT ![t] = "user"] /\ arg' = [arg EXCEPT ![t] = NoSem]
          /\ Acquire(u, s) /\ UNCHANGED <<hooks, waited, tmo>>
        BY <1>9 DEF SemUpWake, IrqVars
    <2> HIDE DEF s, u
    <2>5. /\ pc' \in [Threads -> Places] /\ pc'[Idle] = "user"
          /\ arg' \in [Threads -> Sems \cup {NoSem}]
          /\ \A v \in Threads : pc'[v] \in {"down", "up"} => arg'[v] \in Sems
        BY <1>0, <2>4 DEF TypeOK, Alive, Places
    <2>6. held' \in [Sems -> Int] /\ holds' \in [Threads -> SUBSET Sems]
        <3>1. s \in Sems /\ u \in Threads
            BY <2>0, <2>1 DEF s, u
        <3> QED BY <2>4, <3>1, SMTT(30) DEF TypeOK, Acquire
    <2>7. ring \in Seq(Threads) /\ Idle \in Members(ring) /\ TypeOK
        BY DEF Alive, TypeOK
    <2> QED BY <2>2, <2>3, <2>4, <2>5, <2>6, <2>7, ScheduleSound, ZenonT(60) DEF TypeOK, Alive
<1>10. CASE TimerIrq
    <2>1. Ticked \in 0 .. ClockMod - 1 /\ Older \in [Threads -> 0 .. ClockMod]
        BY ClockTypes
    <2>2. Schedule(count, queue, blocked, deadline, timedOut, ring, prio, Ticked)
        BY <1>10 DEF TimerIrq
    <2>3. waited' = Older /\ UNCHANGED <<hooks, pc, arg, tmo, holds, held>>
        BY <1>10 DEF TimerIrq, SemVars
    <2> QED BY <2>1, <2>2, <2>3, ScheduleSound DEF TypeOK, Alive
<1>11. ASSUME Schedule(count, queue, blocked, deadline, timedOut, ring, prio, now),
              UNCHANGED <<hooks, waited, pc, arg, tmo, holds, held>>
       PROVE  Sound'
    BY <1>11, ScheduleSound DEF TypeOK, Alive
<1>12. CASE OtherIrq
    BY <1>11, <1>12 DEF OtherIrq, IrqVars, SemVars
<1>13. ASSUME NEW t \in Threads, Yield(t)
       PROVE  Sound'
    BY <1>11, <1>13 DEF Yield, IrqVars, SemVars
<1>14. ASSUME ScheduleRecv, UNCHANGED <<hooks, waited, arg, tmo, holds>>,
              pc' \in [Threads -> Places], pc'[Idle] = "user",
              \A v \in Threads : pc'[v] \in {"down", "up"} => arg'[v] \in Sems
       PROVE  Sound'
    <2> DEFINE s == RecvSem
               w == IF count[s] + 1 <= 0 /\ queue[s] # << >> THEN {Head(queue[s])} ELSE {}
               b == [t \in Threads |-> IF t \in w THEN NoSem ELSE blocked[t]]
               d == [t \in Threads |-> IF t \in w THEN 0 ELSE deadline[t]]
    <2>0. s \in Sems /\ queue[s] \in Seq(Threads) /\ IsFiniteSet(w)
        BY <1>14, FS_EmptySet, FS_Singleton DEF ScheduleRecv, TypeOK
    <2>1. /\ Schedule([count EXCEPT ![s] = @ + 1], [queue EXCEPT ![s] = Without(@, w)],
                      b, d, timedOut, ring, prio, now)
          /\ held' = [held EXCEPT ![s] = @ - 1 + Cardinality(w)]
        BY <1>14 DEF ScheduleRecv
    <2> HIDE DEF s, w
    <2>2. /\ [count EXCEPT ![s] = @ + 1] \in [Sems -> Int]
          /\ [queue EXCEPT ![s] = Without(@, w)] \in [Sems -> Seq(Threads)]
          /\ b \in [Threads -> Sems \cup {NoSem}] /\ b[Idle] = NoSem
          /\ d \in [Threads -> 0 .. ClockMod - 1]
        <3>1. Without(queue[s], w) \in Seq(Threads)
            BY <2>0, WithoutProperties
        <3>2. /\ [count EXCEPT ![s] = @ + 1] \in [Sems -> Int]
              /\ [queue EXCEPT ![s] = Without(@, w)] \in [Sems -> Seq(Threads)]
            BY <2>0, <3>1 DEF TypeOK
        <3>3. /\ b \in [Threads -> Sems \cup {NoSem}] /\ b[Idle] = NoSem
              /\ d \in [Threads -> 0 .. ClockMod - 1]
            BY <1>0 DEF TypeOK, Alive
        <3> QED BY <3>2, <3>3
    <2>3. held' \in [Sems -> Int]
        BY <2>0, <2>1, FS_CardinalityType DEF TypeOK
    <2> HIDE DEF b, d
    <2> QED BY <1>14, <2>1, <2>2, <2>3, ScheduleSound DEF TypeOK, Alive
<1>15. ASSUME NEW t \in Threads, NEW u \in Threads, StartThread(t, u)
       PROVE  Sound'
    <2>1. /\ Schedule(count, queue, blocked, deadline, timedOut, <<u>> \o ring, prio, now)
          /\ pc' = [pc EXCEPT ![u] = "user"]
          /\ UNCHANGED <<hooks, waited, arg, tmo, holds, held>>
        BY <1>15 DEF StartThread, IrqVars, SemVars
    <2>2. <<u>> \o ring \in Seq(Threads) /\ Idle \in Members(<<u>> \o ring)
        <3>1. <<u>> \in Seq(Threads) /\ Len(<<u>>) = 1 /\ ring \in Seq(Threads)
            BY DEF TypeOK
        <3>2. /\ <<u>> \o ring \in Seq(Threads)
              /\ Len(<<u>> \o ring) = 1 + Len(ring)
              /\ \A i \in 1 .. 1 + Len(ring) :
                    (<<u>> \o ring)[i] = IF i <= 1 THEN <<u>>[i] ELSE ring[i - 1]
            BY <3>1, ConcatProperties
        <3>3. DOMAIN ring = 1 .. Len(ring) /\ Len(ring) \in Nat
            BY <3>1, LenProperties
        <3>4. PICK i \in DOMAIN ring : ring[i] = Idle
            BY Zenon DEF Alive, Members
        <3> DEFINE r == <<u>> \o ring
        <3> HIDE DEF r
        <3>5. r \in Seq(Threads) /\ Len(r) = 1 + Len(ring)
            BY <3>2 DEF r
        <3>6. DOMAIN r = 1 .. 1 + Len(ring)
            BY <3>5, LenProperties
        <3>7. i \in Nat /\ 1 <= i /\ i <= Len(ring)
            BY <3>3, <3>4
        <3>8. i + 1 \in DOMAIN r /\ ~(i + 1 <= 1) /\ i + 1 - 1 = i
            BY <3>3, <3>6, <3>7
        <3>9. r[i + 1] = ring[i + 1 - 1]
            BY <3>2, <3>6, <3>8 DEF r
        <3>10. r[i + 1] = Idle
            BY <3>4, <3>8, <3>9
        <3>11. Idle \in Members(r)
            BY <3>8, <3>10, Zenon DEF Members
        <3> QED BY <3>5, <3>11 DEF r
    <2>3. /\ pc' \in [Threads -> Places] /\ pc'[Idle] = "user"
          /\ \A v \in Threads : pc'[v] \in {"down", "up"} => arg'[v] \in Sems
        BY <1>0, <2>1 DEF TypeOK, Alive, Places
    <2> QED BY <2>1, <2>2, <2>3, ScheduleSound DEF TypeOK, Alive
<1>16. ASSUME NEW t \in Threads, NEW u \in Threads, KillThread(t, u)
       PROVE  Sound'
    <2> DEFINE c == Returned(count, blocked, {u})
               q == [s \in Sems |-> Without(queue[s], {u})]
               b == [blocked EXCEPT ![u] = NoSem]
               d == [deadline EXCEPT ![u] = 0]
               o == [timedOut EXCEPT ![u] = timedOut[u] \/ blocked[u] # NoSem]
               p == [prio EXCEPT ![u] = 0]
    <2>0. u # Idle
        BY <1>0, <1>16 DEF KillThread
    <2>1. /\ Schedule(c, q, b, d, o, ring, p, now)
          /\ pc' = [pc EXCEPT ![u] = "exit"] /\ arg' = [arg EXCEPT ![u] = NoSem]
          /\ tmo' = [tmo EXCEPT ![u] = 0]
          /\ held' = [s \in Sems |-> held[s] + IF pc[u] = "down" /\ arg[u] = s THEN 1 ELSE 0]
          /\ UNCHANGED <<hooks, waited, holds>>
        BY <1>16 DEF KillThread, IrqVars
    <2>2. c \in [Sems -> Int]
        <3>1. ASSUME NEW s \in Sems
              PROVE  count[s] + Cardinality({v \in {u} : blocked[v] = s}) \in Int
            <4>1. IsFiniteSet({v \in {u} : blocked[v] = s})
                BY FS_Singleton, FS_Subset
            <4>2. Cardinality({v \in {u} : blocked[v] = s}) \in Nat
                BY <4>1, FS_CardinalityType
            <4>3. count[s] \in Int
                BY DEF TypeOK
            <4> QED BY <4>2, <4>3
        <3> QED BY <3>1 DEF Returned
    <2>3. q \in [Sems -> Seq(Threads)]
        BY WithoutProperties DEF TypeOK
    <2>4. /\ b \in [Threads -> Sems \cup {NoSem}] /\ b[Idle] = NoSem
          /\ d \in [Threads -> 0 .. ClockMod - 1]
          /\ o \in [Threads -> BOOLEAN] /\ p \in [Threads -> Nat]
        BY <1>0 DEF TypeOK, Alive
    <2> HIDE DEF c, q, b, d, o, p
    <2>5. /\ pc' \in [Threads -> Places] /\ pc'[Idle] = "user"
          /\ arg' \in [Threads -> Sems \cup {NoSem}]
          /\ \A v \in Threads : pc'[v] \in {"down", "up"} => arg'[v] \in Sems
        BY <1>0, <2>0, <2>1 DEF TypeOK, Alive, Places
    <2>6. tmo' \in [Threads -> Timeouts \cup {0}] /\ held' \in [Sems -> Int]
        BY <2>1 DEF TypeOK
    <2>7. ring \in Seq(Threads) /\ Idle \in Members(ring) /\ TypeOK /\ now \in 0 .. ClockMod - 1
        BY DEF Alive, TypeOK
    <2> QED BY <2>1, <2>2, <2>3, <2>4, <2>5, <2>6, <2>7, ScheduleSound, ZenonT(60) DEF TypeOK, Alive
<1>17. ASSUME NEW t \in Threads, ExitThread(t)
       PROVE  Sound'
    <2> DEFINE r == SubSeq(ring, 1, Len(ring) - 1)
    <2>0. t # Idle /\ curr = t
        BY <1>17 DEF ExitThread, Running, Alive
    <2>1. r \in Seq(Threads) /\ Idle \in Members(r)
        <3>0. ring \in Seq(Threads) /\ Len(ring) \in 1 .. Len(ring) /\ Len(ring) \in Nat
            BY DEF TypeOK, Alive
        <3>1. /\ r \in Seq(Threads) /\ Len(r) = Len(ring) - 1
              /\ \A i \in 1 .. Len(ring) - 1 : r[i] = ring[i]
            <4>1. \A i \in 1 .. Len(ring) - 1 : ring[i] \in Threads
                BY <3>0
            <4>2. Len(ring) - 1 \in Nat
                BY <3>0
            <4> DEFINE n == Len(ring) - 1
            <4>3. /\ SubSeq(ring, 1, n) \in Seq(Threads)
                  /\ Len(SubSeq(ring, 1, n)) = IF 1 <= n THEN n - 1 + 1 ELSE 0
                  /\ \A i \in 1 .. n - 1 + 1 : SubSeq(ring, 1, n)[i] = ring[1 + i - 1]
                <5> HIDE DEF n
                <5> QED BY <4>1, <4>2, SubSeqProperties DEF n
            <4>4. Len(SubSeq(ring, 1, n)) = n
                <5>1. n \in Nat
                    BY <4>2
                <5> HIDE DEF n
                <5>2. (IF 1 <= n THEN n - 1 + 1 ELSE 0) = n
                    BY <5>1
                <5> QED BY <4>3, <5>2
            <4>5. ASSUME NEW i \in 1 .. n PROVE SubSeq(ring, 1, n)[i] = ring[i]
                <5>1. i \in 1 .. n - 1 + 1 /\ 1 + i - 1 = i
                    BY <4>2
                <5> HIDE DEF n
                <5> QED BY <4>3, <5>1
            <4> QED BY <4>3, <4>4, <4>5
        <3>2. PICK i \in 1 .. Len(ring) : ring[i] = Idle
            BY <3>0 DEF Alive, Members
        <3>3. i \in 1 .. Len(ring) - 1
            BY <2>0, <3>0, <3>2 DEF Alive
        <3> HIDE DEF r
        <3> QED BY <3>0, <3>1, <3>2, <3>3 DEF Members
    <2> HIDE DEF r
    <2>2. UNCHANGED <<hooks, waited, arg, tmo, holds, held>>
        BY <1>17 DEF ExitThread, IrqVars, SemVars
    <2>3. CASE count[MallocSem] > 0
        <3>1. /\ Schedule(count, queue, blocked, deadline, timedOut, r, prio, now)
              /\ pc' = [pc EXCEPT ![t] = "dead"]
            BY <1>17, <2>3 DEF ExitThread, r
        <3>2. /\ pc' \in [Threads -> Places] /\ pc'[Idle] = "user"
              /\ \A v \in Threads : pc'[v] \in {"down", "up"} => arg'[v] \in Sems
            BY <1>0, <2>0, <2>2, <3>1 DEF TypeOK, Alive, Places
        <3> QED BY <2>1, <2>2, <3>1, <3>2, ScheduleSound DEF TypeOK, Alive
    <2>4. CASE ~(count[MallocSem] > 0)
        <3> DEFINE c == [count EXCEPT ![MallocSem] = @ - 1]
                   q == [queue EXCEPT ![MallocSem] = Append(@, t)]
                   b == [blocked EXCEPT ![t] = MallocSem]
        <3>1. /\ Schedule(c, q, b, deadline, timedOut, r, prio, now)
              /\ pc' = [pc EXCEPT ![t] = "stranded"]
            BY <1>17, <2>4 DEF ExitThread, r
        <3>2. /\ pc' \in [Threads -> Places] /\ pc'[Idle] = "user"
              /\ \A v \in Threads : pc'[v] \in {"down", "up"} => arg'[v] \in Sems
            BY <1>0, <2>0, <2>2, <3>1 DEF TypeOK, Alive, Places
        <3>3. /\ c \in [Sems -> Int] /\ q \in [Sems -> Seq(Threads)]
              /\ b \in [Threads -> Sems \cup {NoSem}] /\ b[Idle] = NoSem
            BY <1>0, <2>0, SMTT(30) DEF TypeOK, Alive
        <3> HIDE DEF c, q, b
        <3> QED BY <2>1, <2>2, <3>1, <3>2, <3>3, ScheduleSound DEF TypeOK, Alive
    <2> QED BY <2>3, <2>4
<1>18. CASE RecvIrq
    BY <1>14, <1>18 DEF RecvIrq, IrqVars, TypeOK, Alive
<1>19. ASSUME NEW t \in Threads, BiosCall(t)
       PROVE  Sound'
    <2>1. /\ pc' = [pc EXCEPT ![t] = "bios"] /\ t # Idle
          /\ UNCHANGED <<hooks, waited, count, arg, tmo, holds, held>> /\ NoSchedule
        BY <1>19 DEF BiosCall, Running, IrqVars, SemVars
    <2>2. TypeOK'
        BY <2>1 DEF TypeOK, NoSchedule, Places
    <2>3. Alive'
        BY <1>0, <2>1 DEF TypeOK, Alive, NoSchedule, Members
    <2>4. HighestPriorityRuns'
        BY <2>1 DEF HighestPriorityRuns, Runnable, NoSchedule, Members
    <2> QED BY <2>2, <2>3, <2>4
<1>20. CASE BiosTick
    <2>1. Ticked \in 0 .. ClockMod - 1 /\ Older \in [Threads -> 0 .. ClockMod]
        BY ClockTypes
    <2> QED BY <1>20, <2>1 DEF BiosTick, TypeOK, Alive, HighestPriorityRuns, Runnable, SemVars, Members
<1>21. ASSUME NEW t \in Threads, BiosReturn(t)
       PROVE  Sound'
    <2>1. /\ pc' = [pc EXCEPT ![t] = "user"]
          /\ UNCHANGED <<hooks, waited, arg, tmo, holds>>
        BY <1>21 DEF BiosReturn, IrqVars
    <2>2. /\ pc' \in [Threads -> Places] /\ pc'[Idle] = "user"
          /\ \A v \in Threads : pc'[v] \in {"down", "up"} => arg'[v] \in Sems
        BY <1>0, <2>1 DEF TypeOK, Alive, Places
    <2>3. CASE NoSchedule /\ UNCHANGED <<count, held>>
        <3>1. TypeOK'
            BY <2>1, <2>2, <2>3 DEF TypeOK, NoSchedule
        <3>2. Alive'
            BY <2>2, <2>3 DEF Alive, NoSchedule, Members
        <3>3. HighestPriorityRuns'
            BY <2>3 DEF HighestPriorityRuns, Runnable, NoSchedule, Members
        <3> QED BY <3>1, <3>2, <3>3
    <2>4. CASE /\ UNCHANGED held
               /\ Schedule(count, queue, blocked, deadline, timedOut, ring, prio, now)
        BY <2>1, <2>2, <2>4, ScheduleSound DEF TypeOK, Alive
    <2>5. CASE ScheduleRecv
        BY <1>14, <2>1, <2>2, <2>5
    <2> QED BY <1>21, <2>3, <2>4, <2>5 DEF BiosReturn
<1> QED
    BY <1>1, <1>2, <1>3, <1>4, <1>5, <1>6, <1>7, <1>8, <1>9, <1>10, <1>12,
       <1>13, <1>15, <1>16, <1>17, <1>18, <1>19, <1>20, <1>21 DEF Next, InCall, Call

\* Every variable keeps its type, through every interleaving of interrupts,
\* semaphore calls, timeouts, kills and exits.
THEOREM TypeCorrect == Spec => []TypeOK
<1>1. Sound => TypeOK
    BY DEF Sound
<1> QED BY <1>1, SoundInit, SoundStep, PTL DEF Spec

\* No runnable thread is ever more urgent than the running one: every path of
\* core/thread that makes a thread runnable goes through __schedule.
THEOREM MostUrgentRuns == Spec => []HighestPriorityRuns
<1>1. Sound => HighestPriorityRuns
    BY DEF Sound
<1> QED BY <1>1, SoundInit, SoundStep, PTL DEF Spec

\* Wherever a thread runs its own code, and so wherever it can exit, every tick
\* has been processed: the walk of __thread_process_timeouts is never started
\* from __exit_thread, with curr off the list.
THEOREM WalkEnds == Spec => []TimeoutWalkEnds
<1> DEFINE Processed == hooks = "both" /\ pc[curr] # "bios" => last = now
<1>1. Init => Processed
    BY DEF Init
<1>2. Processed /\ [Next]_vars => Processed'
    <2> SUFFICES ASSUME Processed, [Next]_vars PROVE Processed'
        OBVIOUS
    <2>1. ASSUME NEW c, NEW q, NEW b, NEW d, NEW o, NEW r, NEW p, NEW n,
                 Schedule(c, q, b, d, o, r, p, n), UNCHANGED hooks
          PROVE  Processed'
        BY <2>1 DEF Schedule
    <2>2. ASSUME UNCHANGED <<now, last, hooks, curr>>,
                 pc'[curr] = "bios" \/ pc[curr] # "bios" \/ hooks = "none"
          PROVE  Processed'
        BY <2>2
    <2>3. ASSUME ScheduleRecv, UNCHANGED hooks PROVE Processed'
        BY <2>1, <2>3 DEF ScheduleRecv
    <2>4. ASSUME NEW t \in Threads, InCall(t) PROVE Processed'
        BY <2>1, <2>2, <2>3, <2>4 DEF InCall, SemDownBail, SemDownImmediate, SemDownBlock,
           SemDownReturn, SemUpNobody, SemUpWake, BiosReturn, NoSchedule, IrqVars
    <2>5. ASSUME NEW t \in Threads, Call(t) PROVE Processed'
        <3>1. ASSUME RemoveHook(t) PROVE Processed'
            BY <3>1 DEF RemoveHook
        <3> QED BY <2>1, <2>2, <2>5, <3>1 DEF Call, SemDown, SemUp, Yield, StartThread,
                   KillThread, BiosCall, Running, NoSchedule, IrqVars
    <2>6. ASSUME NEW t \in Threads, ExitThread(t) PROVE Processed'
        BY <2>1, <2>6 DEF ExitThread, IrqVars
    <2>7. CASE TimerIrq \/ OtherIrq \/ RecvIrq
        BY <2>1, <2>3, <2>7 DEF TimerIrq, OtherIrq, RecvIrq, IrqVars
    <2>8. CASE UnhookedTick \/ BiosTick
        BY <2>8 DEF UnhookedTick, BiosTick
    <2>9. CASE UNCHANGED vars
        BY <2>9 DEF vars
    <2> QED BY <2>4, <2>5, <2>6, <2>7, <2>8, <2>9 DEF Next
<1>3. Processed => TimeoutWalkEnds
    BY DEF TimeoutWalkEnds
<1> QED BY <1>1, <1>2, <1>3, PTL DEF Spec

=============================================================================
