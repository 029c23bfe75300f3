-------------------------- MODULE SemaphoreProofs --------------------------
(***************************************************************************)
(* Theorems about the semaphores of Threads: the waiting lists are         *)
(* consistent and no unit is made or lost.                                 *)
(***************************************************************************)
EXTENDS ThreadsProofs

\* The threads that the `blocked' pointers b put on s.
On(b, s) == {t \in Threads : b[t] = s}

\* A list without duplicates.
Distinct(q) == \A i, j \in DOMAIN q : q[i] = q[j] => i = j

\* QueueBlocked, with its lengths said without counting.
QueueOK == \A s \in Sems : Members(queue[s]) = On(blocked, s) /\ Distinct(queue[s])

\* A finite set with one element more, or one less.
LEMMA OneMore ==
    ASSUME NEW A \in SUBSET Threads, NEW t \in Threads, t \notin A
    PROVE  Cardinality(A) \in Nat /\ Cardinality(A \cup {t}) = Cardinality(A) + 1
<1>1. IsFiniteSet(A) /\ Cardinality(A) \in Nat
    BY ThreadsAssumption, FS_Subset, FS_CardinalityType
<1> QED BY <1>1, FS_AddElement

\* Linking at the end a thread that is not on the list.
LEMMA AppendList ==
    ASSUME NEW q \in Seq(Threads), Distinct(q), NEW t \in Threads, t \notin Members(q)
    PROVE  Members(Append(q, t)) = Members(q) \cup {t} /\ Distinct(Append(q, t))
<1> DEFINE w == Append(q, t)
<1>1. /\ Len(q) \in Nat /\ DOMAIN q = 1 .. Len(q) /\ DOMAIN w = 1 .. Len(q) + 1
      /\ \A i \in 1 .. Len(q) : w[i] = q[i]
      /\ w[Len(q) + 1] = t
    BY AppendProperties, LenProperties
<1> HIDE DEF w
<1>2. Members(w) = Members(q) \cup {t}
    BY <1>1 DEF Members
<1>3. \A i \in 1 .. Len(q) : q[i] # t
    BY <1>1 DEF Members
<1>4. Distinct(w)
    BY <1>1, <1>3 DEF Distinct
<1> QED BY <1>2, <1>4 DEF w

LEMMA SizeIsNat ==
    ASSUME NEW A \in SUBSET Threads
    PROVE  IsFiniteSet(A) /\ Cardinality(A) \in Nat
BY ThreadsAssumption, FS_Subset, FS_CardinalityType

\* __schedule moves units only from the sleepers that time out to sem->count.
LEMMA ScheduleUnits ==
    ASSUME TypeOK,
           NEW c \in [Sems -> Int], NEW q \in [Sems -> Seq(Threads)],
           NEW b \in [Threads -> Sems \cup {NoSem}],
           NEW d, NEW o, NEW r \in Seq(Threads), NEW p, NEW n,
           \A s \in Sems : Members(q[s]) = On(b, s) /\ Distinct(q[s]),
           Schedule(c, q, b, d, o, r, p, n)
    PROVE  /\ QueueOK'
           /\ \A s \in Sems : count'[s] + Cardinality(On(blocked', s))
                                = c[s] + Cardinality(On(b, s))
<1> DEFINE e == IF hooks = "both" /\ n # last THEN Expired(b, d, r, n) ELSE {}
<1>0. NoSem \notin Sems
    BY ThreadsAssumption
<1>1. /\ count' = Returned(c, b, e)
      /\ queue' = [s \in Sems |-> Without(q[s], e)]
      /\ blocked' = [t \in Threads |-> IF t \in e THEN NoSem ELSE b[t]]
    BY DEF Schedule
<1>2. e \in SUBSET Threads
    BY DEF Expired, Members
<1> HIDE DEF e
<1>3. \A s \in Sems : On(blocked', s) = On(b, s) \ e
    BY <1>0, <1>1, <1>2 DEF On
<1>4. ASSUME NEW s \in Sems
      PROVE  Members(queue'[s]) = On(blocked', s) /\ Distinct(queue'[s])
    <2>1. queue'[s] = Without(q[s], e) /\ q[s] \in Seq(Threads)
        BY <1>1
    <2>2. Members(queue'[s]) = Members(q[s]) \ e /\ Distinct(queue'[s])
        BY <2>1, WithoutProperties DEF Distinct
    <2> QED BY <1>3, <2>2
<1>5. QueueOK'
    BY <1>4 DEF QueueOK, On, Members, Distinct
<1>6. ASSUME NEW s \in Sems
      PROVE  count'[s] + Cardinality(On(blocked', s)) = c[s] + Cardinality(On(b, s))
    <2> DEFINE G == {t \in e : b[t] = s}
    <2>1. On(b, s) \in SUBSET Threads /\ G = On(b, s) \cap e
        BY <1>2 DEF On
    <2>2. IsFiniteSet(On(b, s)) /\ Cardinality(On(b, s)) \in Nat
        BY <2>1, SizeIsNat
    <2>3. Cardinality(On(b, s) \ e) = Cardinality(On(b, s)) - Cardinality(On(b, s) \cap e)
        BY <2>2, FS_Difference
    <2>4. Cardinality(On(b, s) \cap e) \in Nat
        BY <2>2, FS_Intersection, FS_CardinalityType
    <2>5. count'[s] = c[s] + Cardinality(G)
        BY <1>1 DEF Returned
    <2>6. count'[s] = c[s] + Cardinality(On(b, s) \cap e) /\ c[s] \in Int
        BY <2>1, <2>5
    <2>7. Cardinality(On(blocked', s)) = Cardinality(On(b, s)) - Cardinality(On(b, s) \cap e)
        BY <1>3, <2>3
    <2> QED BY <2>2, <2>4, <2>6, <2>7
<1> QED BY <1>5, <1>6

-----------------------------------------------------------------------------
(***************************************************************************)
(* Conservation                                                            *)
(***************************************************************************)

Conserved == Sound /\ QueueOK /\ UnitsConserved

LEMMA ConservedInit == Init => Conserved
<1> SUFFICES ASSUME Init PROVE Conserved
    OBVIOUS
<1>0. NoSem \notin Sems /\ InitCount \in [Sems -> Nat]
    BY ThreadsAssumption
<1>1. QueueOK
    <2> SUFFICES ASSUME NEW s \in Sems
                 PROVE  Members(queue[s]) = On(blocked, s) /\ Distinct(queue[s])
        BY DEF QueueOK
    <2>1. queue[s] = << >> /\ DOMAIN queue[s] = {}
        BY DEF Init
    <2>2. On(blocked, s) = {}
        BY <1>0 DEF Init, On
    <2> QED BY <2>1, <2>2 DEF Members, Distinct
<1>2. UnitsConserved
    <2> SUFFICES ASSUME NEW s \in Sems
                 PROVE  count[s] + Cardinality(Waiters(s)) + Cardinality(Pending(s)) + held[s]
                          = InitCount[s]
        BY DEF UnitsConserved
    <2>1. Waiters(s) = {} /\ Pending(s) = {}
        BY <1>0 DEF Init, Waiters, Pending
    <2>2. count[s] = InitCount[s] /\ held[s] = 0 /\ InitCount[s] \in Nat
        BY <1>0 DEF Init
    <2> QED BY <2>1, <2>2, FS_EmptySet
<1> QED BY <1>1, <1>2, SoundInit DEF Conserved

\* The left side of UnitsConserved.
Total(s) == count[s] + Cardinality(Waiters(s)) + Cardinality(Pending(s)) + held[s]

\* What every step below starts from.
LEMMA UnitsNow ==
    ASSUME Conserved, NEW s \in Sems
    PROVE  /\ Total(s) = InitCount[s] /\ InitCount[s] \in Nat
           /\ Cardinality(Waiters(s)) \in Nat /\ Cardinality(Pending(s)) \in Nat
           /\ count[s] \in Int /\ held[s] \in Int
           /\ pc \in [Threads -> Places] /\ arg \in [Threads -> Sems \cup {NoSem}]
           /\ count \in [Sems -> Int] /\ held \in [Sems -> Int]
           /\ blocked \in [Threads -> Sems \cup {NoSem}] /\ NoSem \notin Sems
<1>1. Waiters(s) \in SUBSET Threads /\ Pending(s) \in SUBSET Threads
    BY DEF Waiters, Pending
<1>2. Cardinality(Waiters(s)) \in Nat /\ Cardinality(Pending(s)) \in Nat
    BY <1>1, SizeIsNat
<1>3. InitCount[s] \in Nat /\ NoSem \notin Sems
    BY ThreadsAssumption
<1>4. Total(s) = InitCount[s]
    BY DEF Conserved, UnitsConserved, Total
<1> QED BY <1>2, <1>3, <1>4 DEF Conserved, Sound, TypeOK

LEMMA UnitsDown ==
    ASSUME Conserved, NEW t \in Threads, NEW z \in Sems, NEW timeout \in Timeouts,
           SemDown(t, z, timeout), NEW s \in Sems
    PROVE  Total(s)' = InitCount[s]
<1> USE UnitsNow
<1>0. pc[t] = "user"
    BY DEF SemDown, Running
<1>1. Waiters(s)' = Waiters(s)
    BY DEF Waiters, SemDown, NoSchedule
<1>2. (s = z => count'[s] = count[s] - 1) /\ (s # z => count'[s] = count[s])
    BY DEF SemDown
<1>3. CASE count[z] - 1 < 0
    <2>1. /\ pc' = [pc EXCEPT ![t] = "down"] /\ arg' = [arg EXCEPT ![t] = z]
          /\ UNCHANGED held
        BY <1>3 DEF SemDown
    <2>2. CASE s = z
        <3>1. Pending(s)' = Pending(s) \cup {t} /\ t \notin Pending(s)
            BY <1>0, <2>1, <2>2 DEF Pending
        <3>2. Cardinality(Pending(s)') = Cardinality(Pending(s)) + 1
            BY <3>1, OneMore DEF Pending
        <3> QED BY <1>1, <1>2, <2>1, <2>2, <3>2 DEF Total
    <2>3. CASE s # z
        <3>1. Pending(s)' = Pending(s)
            BY <1>0, <2>1, <2>3 DEF Pending
        <3> QED BY <1>1, <1>2, <2>1, <2>3, <3>1 DEF Total
    <2> QED BY <2>2, <2>3
<1>4. CASE ~(count[z] - 1 < 0)
    <2>1. UNCHANGED <<pc, arg>> /\ held' = [held EXCEPT ![z] = @ + 1]
        BY <1>4 DEF SemDown, Acquire
    <2>2. /\ Pending(s)' = Pending(s)
          /\ (s = z => held'[s] = held[s] + 1) /\ (s # z => held'[s] = held[s])
        BY <2>1 DEF Pending
    <2> QED BY <1>1, <1>2, <2>2 DEF Total
<1> QED BY <1>3, <1>4

\* t, which is between its decl and its irq_save, leaves that window.
LEMMA PendingLeaves ==
    ASSUME Conserved, NEW t \in Threads, pc[t] = "down", NEW w \in Places \ {"down"},
           pc' = [pc EXCEPT ![t] = w],
           \A u \in Threads \ {t} : arg'[u] = arg[u],
           NEW s \in Sems
    PROVE  /\ s = arg[t] => Cardinality(Pending(s)') = Cardinality(Pending(s)) - 1
           /\ s # arg[t] => Pending(s)' = Pending(s)
<1> USE UnitsNow
<1>1. CASE s = arg[t]
    <2>1. Pending(s) = Pending(s)' \cup {t} /\ t \notin Pending(s)'
        BY <1>1 DEF Pending
    <2>2. Pending(s)' \in SUBSET Threads
        BY DEF Pending
    <2>3. Cardinality(Pending(s)') \in Nat /\ Cardinality(Pending(s)) = Cardinality(Pending(s)') + 1
        BY <2>1, <2>2, OneMore
    <2> QED BY <1>1, <2>3
<1>2. CASE s # arg[t]
    BY <1>2 DEF Pending
<1> QED BY <1>1, <1>2

LEMMA UnitsBail ==
    ASSUME Conserved, NEW t \in Threads, SemDownBail(t), NEW s \in Sems
    PROVE  Total(s)' = InitCount[s]
<1> USE UnitsNow
<1>0. arg[t] \in Sems /\ pc[t] = "down" /\ "user" \in Places \ {"down"}
    BY DEF Conserved, Sound, Alive, SemDownBail, Places
<1>1. /\ Waiters(s)' = Waiters(s) /\ count'[s] = count[s]
      /\ pc' = [pc EXCEPT ![t] = "user"] /\ \A u \in Threads \ {t} : arg'[u] = arg[u]
    BY DEF Waiters, SemDownBail, NoSchedule
<1>2. (s = arg[t] => held'[s] = held[s] + 1) /\ (s # arg[t] => held'[s] = held[s])
    BY <1>0 DEF SemDownBail, Acquire
<1>3. /\ s = arg[t] => Cardinality(Pending(s)') = Cardinality(Pending(s)) - 1
      /\ s # arg[t] => Pending(s)' = Pending(s)
    BY <1>0, <1>1, PendingLeaves
<1> QED BY <1>1, <1>2, <1>3 DEF Total

LEMMA UnitsImmediate ==
    ASSUME Conserved, NEW t \in Threads, SemDownImmediate(t), NEW s \in Sems
    PROVE  Total(s)' = InitCount[s]
<1> USE UnitsNow
<1>0. arg[t] \in Sems /\ pc[t] = "down" /\ "user" \in Places \ {"down"}
    BY DEF Conserved, Sound, Alive, SemDownImmediate, Places
<1>1. /\ Waiters(s)' = Waiters(s) /\ held'[s] = held[s]
      /\ pc' = [pc EXCEPT ![t] = "user"] /\ \A u \in Threads \ {t} : arg'[u] = arg[u]
    BY DEF Waiters, SemDownImmediate, NoSchedule
<1>2. (s = arg[t] => count'[s] = count[s] + 1) /\ (s # arg[t] => count'[s] = count[s])
    BY <1>0 DEF SemDownImmediate
<1>3. /\ s = arg[t] => Cardinality(Pending(s)') = Cardinality(Pending(s)) - 1
      /\ s # arg[t] => Pending(s)' = Pending(s)
    BY <1>0, <1>1, PendingLeaves
<1> QED BY <1>1, <1>2, <1>3 DEF Total

LEMMA UnitsUp ==
    ASSUME Conserved, NEW t \in Threads, NEW z \in Sems, SemUp(t, z), NEW s \in Sems
    PROVE  Total(s)' = InitCount[s]
<1> USE UnitsNow
<1>0. pc[t] = "user"
    BY DEF SemUp, Running
<1>1. Waiters(s)' = Waiters(s)
    BY DEF Waiters, SemUp, NoSchedule
<1>2. /\ s = z => count'[s] = count[s] + 1 /\ held'[s] = held[s] - 1
      /\ s # z => count'[s] = count[s] /\ held'[s] = held[s]
    BY DEF SemUp
<1>3. Pending(s)' = Pending(s)
    <2>1. \/ UNCHANGED <<pc, arg>>
          \/ pc' = [pc EXCEPT ![t] = "up"] /\ arg' = [arg EXCEPT ![t] = z]
        BY DEF SemUp
    <2> QED BY <1>0, <2>1 DEF Pending
<1> QED BY <1>1, <1>2, <1>3 DEF Total

\* __sem_down_slow links t, and __schedule may unlink others.
LEMMA UnitsBlock ==
    ASSUME Conserved, NEW t \in Threads, SemDownBlock(t)
    PROVE  QueueOK' /\ \A s \in Sems : Total(s)' = InitCount[s]
<1> DEFINE z == arg[t]
           q == [queue EXCEPT ![z] = Append(@, t)]
           b == [blocked EXCEPT ![t] = z]
           due == IF tmo[t] = 0 THEN 0 ELSE (now + tmo[t]) % ClockMod
<1>0. /\ z \in Sems /\ pc[t] = "down" /\ "asleep" \in Places \ {"down"}
      /\ blocked[t] = NoSem /\ NoSem \notin Sems /\ TypeOK
    BY ThreadsAssumption DEF Conserved, Sound, Alive, HighestPriorityRuns, SemDownBlock, Places
<1>1. /\ Schedule(count, q, b, [deadline EXCEPT ![t] = due], [timedOut EXCEPT ![t] = FALSE],
                  ring, prio, now)
      /\ pc' = [pc EXCEPT ![t] = "asleep"] /\ UNCHANGED <<arg, held>>
    BY DEF SemDownBlock, SemVars
<1>2. ASSUME NEW s \in Sems
      PROVE  /\ On(b, s) = IF s = z THEN On(blocked, s) \cup {t} ELSE On(blocked, s)
             /\ t \notin On(blocked, s)
    BY <1>0 DEF On, TypeOK
<1>3. q \in [Sems -> Seq(Threads)] /\ b \in [Threads -> Sems \cup {NoSem}]
    BY <1>0 DEF TypeOK
<1>4. ASSUME NEW s \in Sems
      PROVE  Members(q[s]) = On(b, s) /\ Distinct(q[s])
    <2>0. Members(queue[s]) = On(blocked, s) /\ Distinct(queue[s]) /\ queue[s] \in Seq(Threads)
        BY <1>0 DEF Conserved, QueueOK, TypeOK
    <2>1. CASE s # z
        BY <1>0, <1>2, <2>0, <2>1 DEF TypeOK
    <2>2. CASE s = z
        <3>1. q[s] = Append(queue[s], t)
            BY <1>0, <2>2 DEF TypeOK
        <3> HIDE DEF q, b, z
        <3> QED BY <1>2, <2>0, <2>2, <3>1, AppendList, ZenonT(60)
    <2> QED BY <2>1, <2>2
<1>5. /\ QueueOK'
      /\ \A s \in Sems : count'[s] + Cardinality(On(blocked', s)) = count[s] + Cardinality(On(b, s))
    <2>1. ring \in Seq(Threads) /\ count \in [Sems -> Int]
        BY <1>0 DEF TypeOK
    <2> HIDE DEF q, b, due
    <2> QED BY <1>0, <1>1, <1>3, <1>4, <2>1, ScheduleUnits, ZenonT(60)
<1>6. ASSUME NEW s \in Sems PROVE Total(s)' = InitCount[s]
    <2> USE UnitsNow
    <2>1. /\ s = z => Cardinality(Pending(s)') = Cardinality(Pending(s)) - 1
          /\ s # z => Pending(s)' = Pending(s)
        BY <1>0, <1>1, PendingLeaves
    <2>2. Waiters(s) = On(blocked, s) /\ Waiters(s)' = On(blocked', s) /\ On(blocked, s) \in SUBSET Threads
        BY DEF Waiters, On
    <2>3. /\ s = z => Cardinality(On(b, s)) = Cardinality(Waiters(s)) + 1
          /\ s # z => Cardinality(On(b, s)) = Cardinality(Waiters(s))
        BY <1>2, <2>2, OneMore
    <2>4. held'[s] = held[s] /\ count'[s] + Cardinality(Waiters(s)') = count[s] + Cardinality(On(b, s))
        BY <1>1, <1>5, <2>2
    <2>5. count'[s] \in Int /\ Cardinality(Waiters(s)') \in Nat
        <3>1. Sound'
            BY SoundStep DEF Conserved, Next, InCall
        <3>2. Waiters(s)' \in SUBSET Threads
            BY DEF Waiters
        <3> QED BY <3>1, <3>2, SizeIsNat DEF Sound, TypeOK
    <2> HIDE DEF z, b
    <2> QED BY <2>1, <2>3, <2>4, <2>5, SMTT(30) DEF Total
<1> QED BY <1>5, <1>6

\* What a step that only calls __schedule does to the units.
LEMMA UnitsSchedule ==
    ASSUME Conserved, TypeOK', NEW r \in Seq(Threads), NEW n,
           Schedule(count, queue, blocked, deadline, timedOut, r, prio, n),
           \A s \in Sems : Pending(s)' = Pending(s), UNCHANGED held
    PROVE  QueueOK' /\ \A s \in Sems : Total(s)' = InitCount[s]
<1>1. /\ TypeOK /\ count \in [Sems -> Int] /\ queue \in [Sems -> Seq(Threads)]
      /\ blocked \in [Threads -> Sems \cup {NoSem}]
      /\ \A s \in Sems : Members(queue[s]) = On(blocked, s) /\ Distinct(queue[s])
    BY DEF Conserved, Sound, TypeOK, QueueOK
<1>2. /\ QueueOK'
      /\ \A s \in Sems : count'[s] + Cardinality(On(blocked', s))
                           = count[s] + Cardinality(On(blocked, s))
    BY <1>1, ScheduleUnits
<1>3. ASSUME NEW s \in Sems PROVE Total(s)' = InitCount[s]
    <2> USE UnitsNow
    <2>1. /\ Waiters(s) = On(blocked, s) /\ Waiters(s)' = On(blocked', s)
          /\ Waiters(s)' \in SUBSET Threads
        BY DEF Waiters, On
    <2>2. count'[s] \in Int /\ Cardinality(Waiters(s)') \in Nat
        BY <2>1, SizeIsNat DEF TypeOK
    <2> QED BY <1>2, <2>1, <2>2 DEF Total
<1> QED BY <1>2, <1>3

\* __sem_up_slow pops the head, which is a sleeper on that semaphore.
LEMMA UnitsWake ==
    ASSUME Conserved, NEW t \in Threads, SemUpWake(t)
    PROVE  QueueOK' /\ \A s \in Sems : Total(s)' = InitCount[s]
<1> DEFINE z == arg[t]
           u == Head(queue[z])
           q == [queue EXCEPT ![z] = Tail(@)]
           b == [blocked EXCEPT ![u] = NoSem]
<1>0. /\ z \in Sems /\ pc[t] = "up" /\ NoSem \notin Sems /\ TypeOK
      /\ queue[z] \in Seq(Threads) /\ queue[z] # << >>
    BY ThreadsAssumption DEF Conserved, Sound, Alive, SemUpWake, TypeOK
<1>1. /\ Schedule(count, q, b, [deadline EXCEPT ![u] = 0], timedOut, ring, prio, now)
      /\ pc' = [pc EXCEPT ![t] = "user"] /\ arg' = [arg EXCEPT ![t] = NoSem]
      /\ held' = [held EXCEPT ![z] = @ + 1]
    BY DEF SemUpWake, Acquire
<1>2. /\ Len(queue[z]) \in Nat \ {0} /\ DOMAIN queue[z] = 1 .. Len(queue[z])
      /\ u = queue[z][1] /\ u \in Threads
      /\ Tail(queue[z]) \in Seq(Threads) /\ DOMAIN Tail(queue[z]) = 1 .. Len(queue[z]) - 1
      /\ \A i \in 1 .. Len(queue[z]) - 1 : Tail(queue[z])[i] = queue[z][i + 1]
    BY <1>0, HeadTailProperties, LenProperties, EmptySeq
<1> HIDE DEF u
<1>3. Members(queue[z]) = On(blocked, z) /\ Distinct(queue[z])
    BY <1>0 DEF Conserved, QueueOK
<1>4. u \in On(blocked, z) /\ blocked[u] = z
    BY <1>2, <1>3 DEF Members, On
<1>5. ASSUME NEW s \in Sems
      PROVE  On(b, s) = IF s = z THEN On(blocked, s) \ {u} ELSE On(blocked, s)
    BY <1>0, <1>2, <1>4 DEF On, TypeOK
<1>6. q \in [Sems -> Seq(Threads)] /\ b \in [Threads -> Sems \cup {NoSem}]
    BY <1>0, <1>2 DEF TypeOK
<1>7. ASSUME NEW s \in Sems
      PROVE  Members(q[s]) = On(b, s) /\ Distinct(q[s])
    <2>1. CASE s # z
        BY <1>0, <1>5, <2>1 DEF TypeOK, Conserved, QueueOK
    <2>2. CASE s = z
        <3> DEFINE w == Tail(queue[z])
        <3>1. q[s] = w
            BY <1>0, <2>2 DEF TypeOK
        <3>2. DOMAIN w = 1 .. Len(queue[z]) - 1 /\ \A i \in DOMAIN w : w[i] = queue[z][i + 1]
            BY <1>2
        <3> HIDE DEF w
        <3>3. Distinct(w)
            <4> SUFFICES ASSUME NEW i \in DOMAIN w, NEW j \in DOMAIN w, w[i] = w[j] PROVE i = j
                BY DEF Distinct
            <4>1. i + 1 \in DOMAIN queue[z] /\ j + 1 \in DOMAIN queue[z]
                BY <1>2, <3>2
            <4>2. i + 1 = j + 1
                BY <1>3, <3>2, <4>1 DEF Distinct
            <4> QED BY <3>2, <4>2, <1>2
        <3>4. Members(w) \subseteq Members(queue[z]) \ {u}
            <4> SUFFICES ASSUME NEW i \in DOMAIN w PROVE w[i] \in Members(queue[z]) /\ w[i] # u
                BY DEF Members
            <4>1. i + 1 \in DOMAIN queue[z] /\ 1 \in DOMAIN queue[z] /\ i + 1 # 1
                BY <1>2, <3>2
            <4>2. w[i] = queue[z][i + 1] /\ u = queue[z][1]
                BY <1>2, <3>2
            <4>3. queue[z][i + 1] # queue[z][1]
                BY <1>3, <4>1, Zenon DEF Distinct
            <4> QED BY <4>1, <4>2, <4>3, Zenon DEF Members
        <3>5. Members(queue[z]) \ {u} \subseteq Members(w)
            <4> SUFFICES ASSUME NEW i \in DOMAIN queue[z], queue[z][i] # u
                         PROVE  queue[z][i] \in Members(w)
                BY DEF Members
            <4>1. i - 1 \in DOMAIN w /\ (i - 1) + 1 = i
                BY <1>2, <3>2
            <4> QED BY <3>2, <4>1 DEF Members
        <3> QED BY <1>3, <1>5, <2>2, <3>1, <3>3, <3>4, <3>5
    <2> QED BY <2>1, <2>2
<1>8. /\ QueueOK'
      /\ \A s \in Sems : count'[s] + Cardinality(On(blocked', s)) = count[s] + Cardinality(On(b, s))
    <2>1. ring \in Seq(Threads) /\ count \in [Sems -> Int]
        BY <1>0 DEF TypeOK
    <2> HIDE DEF q, b
    <2> QED BY <1>0, <1>1, <1>6, <1>7, <2>1, ScheduleUnits
<1>9. ASSUME NEW s \in Sems PROVE Total(s)' = InitCount[s]
    <2> USE UnitsNow
    <2>1. Pending(s)' = Pending(s)
        BY <1>0, <1>1 DEF Pending
    <2>2. /\ Waiters(s) = On(blocked, s) /\ Waiters(s)' = On(blocked', s)
          /\ On(b, s) \in SUBSET Threads
        BY DEF Waiters, On
    <2>3. /\ s = z => Cardinality(Waiters(s)) = Cardinality(On(b, s)) + 1 /\ Cardinality(On(b, s)) \in Nat
          /\ s # z => Cardinality(On(b, s)) = Cardinality(Waiters(s))
        <3>1. s = z => u \notin On(b, s) /\ Waiters(s) = On(b, s) \cup {u}
            BY <1>4, <1>5, <2>2
        <3> HIDE DEF b
        <3> QED BY <1>2, <1>5, <2>2, <3>1, OneMore, ZenonT(60)
    <2>4. /\ s = z => held'[s] = held[s] + 1
          /\ s # z => held'[s] = held[s]
          /\ count'[s] + Cardinality(Waiters(s)') = count[s] + Cardinality(On(b, s))
        BY <1>0, <1>1, <1>8, <2>2
    <2>5. count'[s] \in Int /\ Cardinality(Waiters(s)') \in Nat
        <3>1. Sound'
            BY SoundStep DEF Conserved, Next, InCall
        <3>2. Waiters(s)' \in SUBSET Threads
            BY DEF Waiters
        <3> QED BY <3>1, <3>2, SizeIsNat DEF Sound, TypeOK
    <2> HIDE DEF z, b
    <2> QED BY <2>1, <2>3, <2>4, <2>5, SMTT(30) DEF Total
<1> QED BY <1>8, <1>9

\* The sem_up of pxe_poll_wakeups: the popped thread, if any, was a sleeper.
LEMMA UnitsRecv ==
    ASSUME Conserved, ScheduleRecv, TypeOK', \A s \in Sems : Pending(s)' = Pending(s)
    PROVE  QueueOK' /\ \A s \in Sems : Total(s)' = InitCount[s]
<1> DEFINE z == RecvSem
           w == IF count[z] + 1 <= 0 /\ queue[z] # << >> THEN {Head(queue[z])} ELSE {}
           c == [count EXCEPT ![z] = @ + 1]
           q == [queue EXCEPT ![z] = Without(@, w)]
           b == [v \in Threads |-> IF v \in w THEN NoSem ELSE blocked[v]]
           d == [v \in Threads |-> IF v \in w THEN 0 ELSE deadline[v]]
<1>0. /\ z \in Sems /\ NoSem \notin Sems /\ TypeOK /\ queue[z] \in Seq(Threads)
      /\ Members(queue[z]) = On(blocked, z) /\ Distinct(queue[z])
    BY ThreadsAssumption DEF Conserved, Sound, ScheduleRecv, TypeOK, QueueOK
<1>1. /\ Schedule(c, q, b, d, timedOut, ring, prio, now)
      /\ held' = [held EXCEPT ![z] = @ - 1 + Cardinality(w)]
    BY DEF ScheduleRecv
<1>2. w \in SUBSET On(blocked, z)
    <2>1. queue[z] # << >> => Head(queue[z]) = queue[z][1] /\ 1 \in DOMAIN queue[z]
        BY <1>0, EmptySeq, LenProperties, HeadTailProperties
    <2> QED BY <1>0, <2>1 DEF Members
<1> HIDE DEF w
<1>3. ASSUME NEW s \in Sems
      PROVE  On(b, s) = IF s = z THEN On(blocked, s) \ w ELSE On(blocked, s)
    BY <1>0, <1>2 DEF On, TypeOK
<1>4. /\ c \in [Sems -> Int] /\ q \in [Sems -> Seq(Threads)]
      /\ b \in [Threads -> Sems \cup {NoSem}]
    <2>1. Without(queue[z], w) \in Seq(Threads)
        BY <1>0, WithoutProperties
    <2>2. /\ count \in [Sems -> Int] /\ queue \in [Sems -> Seq(Threads)]
          /\ blocked \in [Threads -> Sems \cup {NoSem}]
        BY <1>0 DEF TypeOK
    <2> QED BY <1>0, <2>1, <2>2
<1>5. ASSUME NEW s \in Sems
      PROVE  Members(q[s]) = On(b, s) /\ Distinct(q[s])
    <2>1. CASE s # z
        BY <1>0, <1>3, <2>1 DEF TypeOK, Conserved, QueueOK
    <2>2. CASE s = z
        <3>1. q[s] = Without(queue[z], w)
            BY <1>0, <2>2 DEF TypeOK
        <3>2. Members(q[s]) = Members(queue[z]) \ w /\ Distinct(q[s])
            BY <1>0, <3>1, WithoutProperties DEF Distinct
        <3> QED BY <1>0, <1>3, <2>2, <3>2
    <2> QED BY <2>1, <2>2
<1>6. /\ QueueOK'
      /\ \A s \in Sems : count'[s] + Cardinality(On(blocked', s)) = c[s] + Cardinality(On(b, s))
    <2>1. ring \in Seq(Threads)
        BY <1>0 DEF TypeOK
    <2> HIDE DEF c, q, b, d
    <2> QED BY <1>0, <1>1, <1>4, <1>5, <2>1, ScheduleUnits
<1>7. ASSUME NEW s \in Sems PROVE Total(s)' = InitCount[s]
    <2>1. Pending(s)' = Pending(s)
        OBVIOUS
    <2>2. /\ Waiters(s) = On(blocked, s) /\ Waiters(s)' = On(blocked', s)
          /\ Waiters(s) \in SUBSET Threads /\ Waiters(s)' \in SUBSET Threads
        BY DEF Waiters, On
    <2>3. IsFiniteSet(Waiters(s)) /\ Cardinality(Waiters(s)') \in Nat
        BY <2>2, SizeIsNat
    <2>4. /\ s = z => Cardinality(On(b, s)) = Cardinality(Waiters(s)) - Cardinality(w)
          /\ s # z => Cardinality(On(b, s)) = Cardinality(Waiters(s))
        <3>1. s = z => On(b, s) = Waiters(s) \ w /\ Waiters(s) \cap w = w
            BY <1>2, <1>3, <2>2
        <3>2. Cardinality(Waiters(s) \ w) = Cardinality(Waiters(s)) - Cardinality(Waiters(s) \cap w)
            BY <2>3, FS_Difference
        <3> HIDE DEF b
        <3> QED BY <1>3, <2>2, <3>1, <3>2
    <2>5. Cardinality(w) \in Nat
        <3>1. w \in SUBSET Threads
            BY <1>2 DEF On
        <3> QED BY <3>1, SizeIsNat
    <2>6. /\ s = z => held'[s] = held[s] - 1 + Cardinality(w) /\ c[s] = count[s] + 1
          /\ s # z => held'[s] = held[s] /\ c[s] = count[s]
        BY <1>0, <1>1, UnitsNow
    <2>7. count'[s] + Cardinality(Waiters(s)') = c[s] + Cardinality(On(b, s))
        BY <1>6, <2>2
    <2>8. count'[s] \in Int
        BY DEF TypeOK
    <2>9. /\ count[s] + Cardinality(Waiters(s)) + Cardinality(Pending(s)) + held[s] = InitCount[s]
          /\ count[s] \in Int /\ held[s] \in Int /\ InitCount[s] \in Nat
          /\ Cardinality(Waiters(s)) \in Nat /\ Cardinality(Pending(s)) \in Nat
        BY UnitsNow DEF Total
    <2>10. Cardinality(Pending(s)') = Cardinality(Pending(s))
        BY <2>1
    <2> DEFINE W == Cardinality(Waiters(s)')
               P == Cardinality(Pending(s)')
               C == count'[s]
               H == held'[s]
               B == Cardinality(On(b, s))
               V == Cardinality(w)
               X == c[s]
               W0 == Cardinality(Waiters(s))
               P0 == Cardinality(Pending(s))
               C0 == count[s]
               H0 == held[s]
               K == InitCount[s]
    <2>11. /\ W \in Nat /\ V \in Nat /\ X \in Int /\ C \in Int /\ W0 \in Nat /\ P0 \in Nat
           /\ C0 \in Int /\ H0 \in Int /\ K \in Nat
        <3>1. X \in Int
            <4> HIDE DEF c
            <4> QED BY <1>4
        <3> QED BY <2>3, <2>5, <2>8, <2>9, <3>1, Zenon
    <2>12. C0 + W0 + P0 + H0 = K /\ C + W = X + B /\ P = P0
        BY <2>7, <2>9, <2>10
    <2> HIDE DEF z, b, c, w, W, P, C, H, B, V, X, W0, P0, C0, H0, K
    <2>13. C + W + P + H = K
        <3>1. CASE s = z
            <4>1. B = W0 - V /\ H = H0 - 1 + V /\ X = C0 + 1
                BY <2>4, <2>6, <3>1 DEF H, B, V, X, W0, C0, H0
            <4> QED BY <2>11, <2>12, <4>1
        <3>2. CASE s # z
            <4>1. B = W0 /\ H = H0 /\ X = C0
                BY <2>4, <2>6, <3>2 DEF H, B, V, X, W0, C0, H0
            <4> QED BY <2>11, <2>12, <4>1
        <3> QED BY <3>1, <3>2
    <2> QED BY <2>13 DEF Total, W, P, C, H, K
<1> QED BY <1>6, <1>7

\* kill_thread gives a sleeper's unit back; the unit of a thread caught in its
\* window stays taken.
LEMMA UnitsKill ==
    ASSUME Conserved, NEW t \in Threads, NEW u \in Threads, KillThread(t, u)
    PROVE  QueueOK' /\ \A s \in Sems : Total(s)' = InitCount[s]
<1> DEFINE c == Returned(count, blocked, {u})
           q == [s \in Sems |-> Without(queue[s], {u})]
           b == [blocked EXCEPT ![u] = NoSem]
           d == [deadline EXCEPT ![u] = 0]
           o == [timedOut EXCEPT ![u] = timedOut[u] \/ blocked[u] # NoSem]
           p == [prio EXCEPT ![u] = 0]
<1>0. NoSem \notin Sems /\ TypeOK
    BY ThreadsAssumption DEF Conserved, Sound
<1>1. /\ Schedule(c, q, b, d, o, ring, p, now)
      /\ pc' = [pc EXCEPT ![u] = "exit"] /\ arg' = [arg EXCEPT ![u] = NoSem]
      /\ held' = [s \in Sems |-> held[s] + IF pc[u] = "down" /\ arg[u] = s THEN 1 ELSE 0]
    BY DEF KillThread
<1>2. \A s \in Sems : On(b, s) = On(blocked, s) \ {u}
    BY <1>0 DEF On, TypeOK
<1>3. ASSUME NEW s \in Sems
      PROVE  /\ c[s] \in Int /\ Cardinality(On(b, s)) \in Nat
             /\ c[s] + Cardinality(On(b, s)) = count[s] + Cardinality(On(blocked, s))
    <2>1. On(blocked, s) \in SUBSET Threads /\ On(b, s) \in SUBSET Threads
        BY DEF On
    <2>2. /\ IsFiniteSet(On(blocked, s)) /\ Cardinality(On(blocked, s)) \in Nat
          /\ Cardinality(On(b, s)) \in Nat
        BY <2>1, SizeIsNat
    <2> DEFINE G == {v \in {u} : blocked[v] = s}
    <2>3. c[s] = count[s] + Cardinality(G) /\ count[s] \in Int
        BY <1>0 DEF Returned, TypeOK
    <2>4. CASE blocked[u] = s
        <3>1. G = {u} /\ u \in On(blocked, s)
            BY <2>4 DEF On
        <3>2. Cardinality({u}) = 1
            BY FS_Singleton
        <3>3. Cardinality(On(b, s)) = Cardinality(On(blocked, s)) - 1
            BY <1>2, <2>2, <3>1, FS_RemoveElement
        <3>4. Cardinality(G) = 1
            BY <3>1, <3>2
        <3> DEFINE C == c[s]  C0 == count[s]  W == Cardinality(On(b, s))
                   W0 == Cardinality(On(blocked, s))  g == Cardinality(G)
        <3>5. W \in Nat /\ W0 \in Nat /\ C = C0 + g /\ C0 \in Int /\ g = 1 /\ W = W0 - 1
            BY <2>2, <2>3, <3>3, <3>4, Zenon
        <3> HIDE DEF C, C0, W, W0, g
        <3>6. C \in Int /\ W \in Nat /\ C + W = C0 + W0
            BY <3>5
        <3> QED BY <3>6, Zenon DEF C, C0, W, W0
    <2>5. CASE blocked[u] # s
        <3>1. G = {} /\ On(b, s) = On(blocked, s)
            BY <1>2, <2>5 DEF On
        <3>2. Cardinality(G) = 0
            BY <3>1, FS_EmptySet
        <3> DEFINE C == c[s]  C0 == count[s]  W == Cardinality(On(b, s))
                   W0 == Cardinality(On(blocked, s))  g == Cardinality(G)
        <3>3. W0 \in Nat /\ C = C0 + g /\ C0 \in Int /\ g = 0 /\ W = W0
            BY <2>2, <2>3, <3>1, <3>2, Zenon
        <3> HIDE DEF C, C0, W, W0, g
        <3>4. C \in Int /\ W \in Nat /\ C + W = C0 + W0
            BY <3>3
        <3> QED BY <3>4, Zenon DEF C, C0, W, W0
    <2> QED BY <2>4, <2>5
<1>4. /\ c \in [Sems -> Int] /\ q \in [Sems -> Seq(Threads)]
      /\ b \in [Threads -> Sems \cup {NoSem}]
    <2>1. c \in [Sems -> Int]
        BY <1>3 DEF Returned
    <2>2. q \in [Sems -> Seq(Threads)]
        BY <1>0, WithoutProperties DEF TypeOK
    <2> QED BY <1>0, <2>1, <2>2 DEF TypeOK
<1>5. ASSUME NEW s \in Sems
      PROVE  Members(q[s]) = On(b, s) /\ Distinct(q[s])
    <2>1. queue[s] \in Seq(Threads) /\ q[s] = Without(queue[s], {u})
        BY <1>0 DEF TypeOK
    <2>2. Members(queue[s]) = On(blocked, s) /\ Distinct(queue[s])
        BY DEF Conserved, QueueOK
    <2>3. Members(q[s]) = Members(queue[s]) \ {u} /\ Distinct(q[s])
        <3> DEFINE e == {u}
        <3> HIDE DEF q, e
        <3>1. Members(Without(queue[s], e)) = Members(queue[s]) \ e /\ Distinct(Without(queue[s], e))
            BY <2>1, <2>2, WithoutProperties DEF Distinct
        <3> QED BY <2>1, <3>1 DEF e
    <2> QED BY <1>2, <2>2, <2>3
<1> HIDE DEF c, q, b, d, o, p
<1>6. /\ QueueOK'
      /\ \A s \in Sems : count'[s] + Cardinality(On(blocked', s)) = c[s] + Cardinality(On(b, s))
    <2>1. ring \in Seq(Threads)
        BY <1>0 DEF TypeOK
    <2> QED BY <1>0, <1>1, <1>4, <1>5, <2>1, ScheduleUnits
<1>7. ASSUME NEW s \in Sems PROVE Total(s)' = InitCount[s]
    <2>1. /\ Waiters(s) = On(blocked, s) /\ Waiters(s)' = On(blocked', s)
          /\ Waiters(s)' \in SUBSET Threads
        BY DEF Waiters, On
    <2>2. count'[s] \in Int /\ Cardinality(Waiters(s)') \in Nat
        <3>1. Sound'
            BY SoundStep DEF Conserved, Next, Call
        <3> QED BY <2>1, <3>1, SizeIsNat DEF Sound, TypeOK
    <2>3. count'[s] + Cardinality(Waiters(s)') = count[s] + Cardinality(Waiters(s))
        BY <1>3, <1>6, <2>1
    <2>4. CASE pc[u] = "down"
        <3>1. "exit" \in Places \ {"down"} /\ \A v \in Threads \ {u} : arg'[v] = arg[v]
            BY <1>1 DEF Places
        <3>2. /\ s = arg[u] => Cardinality(Pending(s)') = Cardinality(Pending(s)) - 1
              /\ s # arg[u] => Pending(s)' = Pending(s)
            BY <1>1, <2>4, <3>1, PendingLeaves
        <3>3. (s = arg[u] => held'[s] = held[s] + 1) /\ (s # arg[u] => held'[s] = held[s])
            <4>1. /\ s = arg[u] => held'[s] = held[s] + 1
                  /\ s # arg[u] => held'[s] = held[s] + 0
                BY <1>1, <2>4
            <4>2. held[s] \in Int
                BY UnitsNow
            <4>3. held[s] + 0 = held[s]
                BY <4>2
            <4> QED BY <4>1, <4>3, Zenon
        <3>4. /\ count[s] + Cardinality(Waiters(s)) + Cardinality(Pending(s)) + held[s] = InitCount[s]
              /\ count[s] \in Int /\ held[s] \in Int /\ InitCount[s] \in Nat
              /\ Cardinality(Waiters(s)) \in Nat /\ Cardinality(Pending(s)) \in Nat
            BY UnitsNow DEF Total
        <3> DEFINE W == Cardinality(Waiters(s)')
                   P == Cardinality(Pending(s)')
                   C == count'[s]
                   H == held'[s]
                   W0 == Cardinality(Waiters(s))
                   P0 == Cardinality(Pending(s))
                   C0 == count[s]
                   H0 == held[s]
                   K == InitCount[s]
        <3>5. /\ W \in Nat /\ C \in Int /\ W0 \in Nat /\ P0 \in Nat
              /\ C0 \in Int /\ H0 \in Int /\ K \in Nat
            BY <2>2, <3>4, Zenon
        <3>6. /\ C0 + W0 + P0 + H0 = K /\ C + W = C0 + W0
              /\ (P = P0 - 1 /\ H = H0 + 1) \/ (P = P0 /\ H = H0)
            BY <2>3, <3>2, <3>3, <3>4, Zenon
        <3> HIDE DEF W, P, C, H, W0, P0, C0, H0, K
        <3>7. C + W + P + H = K
            BY <3>5, <3>6
        <3> QED BY <3>7 DEF Total, W, P, C, H, K
    <2>5. CASE pc[u] # "down"
        <3>1. Pending(s)' = Pending(s)
            BY <1>1, <2>5 DEF Pending
        <3>2. held'[s] = held[s]
            <4>1. held'[s] = held[s] + 0
                BY <1>1, <2>5
            <4>2. held[s] \in Int
                BY UnitsNow
            <4> QED BY <4>1, <4>2
        <3>3. /\ count[s] + Cardinality(Waiters(s)) + Cardinality(Pending(s)) + held[s] = InitCount[s]
              /\ count'[s] + Cardinality(Waiters(s)') = count[s] + Cardinality(Waiters(s))
              /\ Cardinality(Pending(s)') = Cardinality(Pending(s)) /\ held'[s] = held[s]
            BY <2>3, <3>1, <3>2, UnitsNow, Zenon DEF Total
        <3> QED BY <3>3, Zenon DEF Total
    <2> QED BY <2>4, <2>5
<1> QED BY <1>6, <1>7

\* __exit_thread: t may fall asleep on __malloc_semaphore, off the list.
LEMMA UnitsExit ==
    ASSUME Conserved, NEW t \in Threads, ExitThread(t)
    PROVE  QueueOK' /\ \A s \in Sems : Total(s)' = InitCount[s]
<1> DEFINE r == SubSeq(ring, 1, Len(ring) - 1)
<1>0. /\ NoSem \notin Sems /\ MallocSem \in Sems /\ TypeOK /\ TypeOK'
      /\ blocked[t] = NoSem /\ pc[t] \in {"exit", "user"} /\ UNCHANGED <<arg, held>>
    <2>1. Sound'
        BY SoundStep DEF Conserved, Next
    <2> QED BY <2>1, ThreadsAssumption
            DEF Conserved, Sound, HighestPriorityRuns, ExitThread, Running, SemVars
<1>1. r \in Seq(Threads)
    <2>1. ring \in Seq(Threads) /\ Len(ring) \in Nat /\ Len(ring) - 1 \in Int
        BY <1>0, SMTT(30) DEF TypeOK
    <2>2. \A i \in 1 .. Len(ring) - 1 : ring[i] \in Threads
        BY <2>1
    <2> QED BY <2>1, <2>2, SubSeqProperties
<1>2. pc' = [pc EXCEPT ![t] = "dead"] \/ pc' = [pc EXCEPT ![t] = "stranded"]
    BY DEF ExitThread
<1>3. \A s \in Sems : Pending(s)' = Pending(s)
    BY <1>0, <1>2, UnitsNow DEF Pending
<1>4. CASE count[MallocSem] > 0
    <2>1. Schedule(count, queue, blocked, deadline, timedOut, r, prio, now)
        BY <1>4 DEF ExitThread
    <2> HIDE DEF r
    <2> QED BY <1>0, <1>1, <1>3, <2>1, UnitsSchedule
<1>5. CASE ~(count[MallocSem] > 0)
    <2> DEFINE z == MallocSem
               c == [count EXCEPT ![z] = @ - 1]
               q == [queue EXCEPT ![z] = Append(@, t)]
               b == [blocked EXCEPT ![t] = z]
    <2>1. Schedule(c, q, b, deadline, timedOut, r, prio, now)
        BY <1>5 DEF ExitThread
    <2> HIDE DEF r
    <2>2. ASSUME NEW s \in Sems
          PROVE  /\ On(b, s) = IF s = z THEN On(blocked, s) \cup {t} ELSE On(blocked, s)
                 /\ t \notin On(blocked, s)
        <3>1. blocked \in [Threads -> Sems \cup {NoSem}]
            BY <1>0 DEF TypeOK
        <3> QED BY <1>0, <3>1 DEF On
    <2>3. /\ c \in [Sems -> Int] /\ q \in [Sems -> Seq(Threads)]
          /\ b \in [Threads -> Sems \cup {NoSem}]
        <3>1. /\ count \in [Sems -> Int] /\ queue \in [Sems -> Seq(Threads)]
              /\ blocked \in [Threads -> Sems \cup {NoSem}]
            BY <1>0 DEF TypeOK
        <3> QED BY <1>0, <3>1
    <2>4. ASSUME NEW s \in Sems
          PROVE  Members(q[s]) = On(b, s) /\ Distinct(q[s])
        <3>0. Members(queue[s]) = On(blocked, s) /\ Distinct(queue[s]) /\ queue[s] \in Seq(Threads)
            BY <1>0 DEF Conserved, QueueOK, TypeOK
        <3>1. CASE s # z
            BY <1>0, <2>2, <3>0, <3>1 DEF TypeOK
        <3>2. CASE s = z
            <4>1. q[s] = Append(queue[s], t)
                BY <1>0, <3>2 DEF TypeOK
            <4> HIDE DEF q, b
            <4> QED BY <2>2, <3>0, <3>2, <4>1, AppendList, ZenonT(60)
        <3> QED BY <3>1, <3>2
    <2>5. /\ QueueOK'
          /\ \A s \in Sems : count'[s] + Cardinality(On(blocked', s)) = c[s] + Cardinality(On(b, s))
        <3> HIDE DEF c, q, b
        <3> QED BY <1>0, <1>1, <2>1, <2>3, <2>4, ScheduleUnits, ZenonT(60)
    <2>6. ASSUME NEW s \in Sems PROVE Total(s)' = InitCount[s]
        <3>1. /\ Waiters(s) = On(blocked, s) /\ Waiters(s)' = On(blocked', s)
              /\ On(blocked, s) \in SUBSET Threads /\ Waiters(s)' \in SUBSET Threads
            BY DEF Waiters, On
        <3>2. /\ s = z => Cardinality(On(b, s)) = Cardinality(Waiters(s)) + 1 /\ c[s] = count[s] - 1
              /\ s # z => Cardinality(On(b, s)) = Cardinality(Waiters(s)) /\ c[s] = count[s]
            BY <1>0, <2>2, <3>1, OneMore, UnitsNow
        <3>3. /\ held'[s] = held[s]
              /\ count'[s] + Cardinality(Waiters(s)') = c[s] + Cardinality(On(b, s))
            BY <1>0, <2>5, <3>1
        <3>4. count'[s] \in Int /\ Cardinality(Waiters(s)') \in Nat
            BY <1>0, <3>1, SizeIsNat DEF TypeOK
        <3>5. /\ count[s] + Cardinality(Waiters(s)) + Cardinality(Pending(s)) + held[s] = InitCount[s]
              /\ count[s] \in Int /\ held[s] \in Int /\ InitCount[s] \in Nat
              /\ Cardinality(Waiters(s)) \in Nat /\ Cardinality(Pending(s)) \in Nat
            BY UnitsNow DEF Total
        <3> DEFINE W == Cardinality(Waiters(s)')
                   P == Cardinality(Pending(s)')
                   C == count'[s]
                   H == held'[s]
                   B == Cardinality(On(b, s))
                   X == c[s]
                   W0 == Cardinality(Waiters(s))
                   P0 == Cardinality(Pending(s))
                   C0 == count[s]
                   H0 == held[s]
                   K == InitCount[s]
        <3>6. /\ W \in Nat /\ C \in Int /\ W0 \in Nat /\ P0 \in Nat
              /\ C0 \in Int /\ H0 \in Int /\ K \in Nat
            BY <3>4, <3>5, Zenon
        <3> HIDE DEF z, b, c
        <3>7. P = P0
            BY <1>3
        <3>8. /\ C0 + W0 + P0 + H0 = K /\ C + W = X + B /\ H = H0
              /\ (B = W0 + 1 /\ X = C0 - 1) \/ (B = W0 /\ X = C0)
            BY <3>2, <3>3, <3>5, Zenon
        <3> HIDE DEF W, P, C, H, B, X, W0, P0, C0, H0, K
        <3>9. C + W + P + H = K
            BY <3>6, <3>7, <3>8
        <3> QED BY <3>9 DEF Total, W, P, C, H, K
    <2> QED BY <2>5, <2>6
<1> QED BY <1>4, <1>5

LEMMA ConservedStep == Conserved /\ [Next]_vars => Conserved'
<1> SUFFICES ASSUME Conserved, [Next]_vars PROVE Conserved'
    OBVIOUS
<1>0. Sound' /\ TypeOK' /\ TypeOK
    BY SoundStep DEF Conserved, Sound
<1> SUFFICES QueueOK' /\ \A s \in Sems : Total(s)' = InitCount[s]
    BY <1>0 DEF Conserved, UnitsConserved, Total, Waiters, Pending
<1>1. ASSUME UNCHANGED <<queue, blocked>> PROVE QueueOK'
    BY <1>1 DEF Conserved, QueueOK, On, Distinct, Members
<1>2. ASSUME UNCHANGED <<blocked, count, held>>, NEW s \in Sems, Pending(s)' = Pending(s)
      PROVE  Total(s)' = InitCount[s]
    <2>1. Waiters(s)' = Waiters(s)
        BY <1>2 DEF Waiters
    <2> QED BY <1>2, <2>1, UnitsNow DEF Total
<1>3. ASSUME NEW t \in Threads, NEW s \in Sems, NEW timeout \in Timeouts, SemDown(t, s, timeout)
      PROVE  QueueOK' /\ \A z \in Sems : Total(z)' = InitCount[z]
    BY <1>1, <1>3, UnitsDown DEF SemDown, NoSchedule
<1>4. ASSUME NEW t \in Threads, SemDownBail(t)
      PROVE  QueueOK' /\ \A z \in Sems : Total(z)' = InitCount[z]
    BY <1>1, <1>4, UnitsBail DEF SemDownBail, NoSchedule
<1>5. ASSUME NEW t \in Threads, SemDownImmediate(t)
      PROVE  QueueOK' /\ \A z \in Sems : Total(z)' = InitCount[z]
    BY <1>1, <1>5, UnitsImmediate DEF SemDownImmediate, NoSchedule
<1>6. ASSUME NEW t \in Threads, NEW s \in Sems, SemUp(t, s)
      PROVE  QueueOK' /\ \A z \in Sems : Total(z)' = InitCount[z]
    BY <1>1, <1>6, UnitsUp DEF SemUp, NoSchedule
<1>7. ASSUME NEW t \in Threads, SemUpNobody(t) \/ SemDownReturn(t)
      PROVE  QueueOK' /\ \A z \in Sems : Total(z)' = InitCount[z]
    <2>1. /\ UNCHANGED <<queue, blocked, count, held>> /\ pc[t] \in {"up", "asleep"}
          /\ pc' = [pc EXCEPT ![t] = "user"] /\ arg' = [arg EXCEPT ![t] = NoSem]
        BY <1>7 DEF SemUpNobody, SemDownReturn, NoSchedule
    <2>2. ASSUME NEW s \in Sems PROVE Pending(s)' = Pending(s)
        BY <2>1, UnitsNow DEF Pending
    <2> QED BY <1>1, <1>2, <2>1, <2>2
<1>8. ASSUME UNCHANGED <<queue, blocked, count, held, pc, arg>>
      PROVE  QueueOK' /\ \A z \in Sems : Total(z)' = InitCount[z]
    <2>1. \A s \in Sems : Pending(s)' = Pending(s)
        BY <1>8 DEF Pending
    <2> QED BY <1>1, <1>2, <1>8, <2>1
<1>9. CASE UnhookedTick
    BY <1>8, <1>9 DEF UnhookedTick, SemVars
<1>10. ASSUME NEW t \in Threads, RemoveHook(t)
       PROVE  QueueOK' /\ \A z \in Sems : Total(z)' = InitCount[z]
    BY <1>8, <1>10 DEF RemoveHook, NoSchedule, SemVars
<1>11. CASE UNCHANGED vars
    BY <1>8, <1>11 DEF vars
<1>12. ASSUME NEW r \in Seq(Threads), NEW n,
              Schedule(count, queue, blocked, deadline, timedOut, r, prio, n),
              UNCHANGED <<pc, arg, held>>
       PROVE  QueueOK' /\ \A z \in Sems : Total(z)' = InitCount[z]
    <2>1. \A s \in Sems : Pending(s)' = Pending(s)
        BY <1>12 DEF Pending
    <2> QED BY <1>0, <1>12, <2>1, UnitsSchedule
<1>13. CASE TimerIrq
    BY <1>0, <1>12, <1>13 DEF TimerIrq, SemVars, TypeOK
<1>14. CASE OtherIrq
    BY <1>0, <1>12, <1>14 DEF OtherIrq, SemVars, TypeOK
<1>15. ASSUME NEW t \in Threads, Yield(t)
       PROVE  QueueOK' /\ \A z \in Sems : Total(z)' = InitCount[z]
    BY <1>0, <1>12, <1>15 DEF Yield, SemVars, TypeOK
<1>16. ASSUME NEW t \in Threads, NEW u \in Threads, StartThread(t, u)
       PROVE  QueueOK' /\ \A z \in Sems : Total(z)' = InitCount[z]
    <2>1. <<u>> \o ring \in Seq(Threads)
        BY <1>0, SMTT(30) DEF TypeOK
    <2>2. /\ Schedule(count, queue, blocked, deadline, timedOut, <<u>> \o ring, prio, now)
          /\ pc' = [pc EXCEPT ![u] = "user"] /\ pc[u] = "unborn" /\ UNCHANGED <<arg, held>>
        BY <1>16 DEF StartThread, SemVars
    <2>3. \A s \in Sems : Pending(s)' = Pending(s)
        BY <2>2, UnitsNow DEF Pending
    <2> QED BY <1>0, <2>1, <2>2, <2>3, UnitsSchedule
<1>17. CASE RecvIrq
    <2>1. \A s \in Sems : Pending(s)' = Pending(s)
        BY <1>17 DEF RecvIrq, Pending
    <2> QED BY <1>0, <1>17, <2>1, UnitsRecv DEF RecvIrq
<1>18. CASE BiosTick
    BY <1>8, <1>18 DEF BiosTick, SemVars
<1>19. ASSUME NEW t \in Threads, BiosCall(t) \/ BiosReturn(t)
       PROVE  QueueOK' /\ \A z \in Sems : Total(z)' = InitCount[z]
    <2>1. /\ pc' = [pc EXCEPT ![t] = "bios"] \/ pc' = [pc EXCEPT ![t] = "user"]
          /\ pc[t] \in {"user", "bios"} /\ UNCHANGED arg
        BY <1>19 DEF BiosCall, BiosReturn, Running, SemVars
    <2>2. \A s \in Sems : Pending(s)' = Pending(s)
        BY <2>1, UnitsNow DEF Pending
    <2>3. CASE NoSchedule /\ UNCHANGED <<count, held>>
        BY <1>1, <1>2, <2>2, <2>3 DEF NoSchedule
    <2>4. CASE /\ UNCHANGED held
               /\ Schedule(count, queue, blocked, deadline, timedOut, ring, prio, now)
        <3>1. ring \in Seq(Threads)
            BY <1>0 DEF TypeOK
        <3> QED BY <1>0, <2>2, <2>4, <3>1, UnitsSchedule
    <2>5. CASE ScheduleRecv
        BY <1>0, <2>2, <2>5, UnitsRecv
    <2> QED BY <1>19, <2>3, <2>4, <2>5 DEF BiosCall, BiosReturn, SemVars
<1> QED
    BY <1>3, <1>4, <1>5, <1>6, <1>7, <1>9, <1>10, <1>11, <1>13, <1>14, <1>15, <1>16,
       <1>17, <1>18, <1>19, UnitsBlock, UnitsWake, UnitsKill, UnitsExit
    DEF Next, InCall, Call

\* No unit of any semaphore is made or lost, whatever the interleaving of
\* sem_down, sem_up, timeouts, interrupts, kills and exits.
THEOREM NoUnitLost == Spec => []UnitsConserved
<1>1. Conserved => UnitsConserved
    BY DEF Conserved
<1> QED BY <1>1, ConservedInit, ConservedStep, PTL DEF Spec

\* The waiting lists and the `blocked' pointers of the threads always agree.
THEOREM ListsAgree == Spec => []QueueBlocked
<1>1. ASSUME Conserved PROVE QueueBlocked
    <2> SUFFICES ASSUME NEW s \in Sems
                 PROVE  /\ Members(queue[s]) = Waiters(s)
                        /\ Len(queue[s]) = Cardinality(Waiters(s))
        BY DEF QueueBlocked
    <2>1. /\ queue[s] \in Seq(Threads) /\ Members(queue[s]) = Waiters(s)
          /\ Distinct(queue[s])
        BY <1>1 DEF Conserved, Sound, TypeOK, QueueOK, On, Waiters
    <2> DEFINE q == queue[s]
               n == Len(q)
    <2>0. n \in Nat
        BY <2>1, LenProperties
    <2>2. n \in Nat /\ DOMAIN q = 1 .. n
        BY <2>1, LenProperties
    <2>3. q \in Bijection(1 .. n, Members(q))
        <3> HIDE DEF q, n
        <3>1. q \in [1 .. n -> Members(q)]
            BY <2>1, <2>2 DEF Members, q
        <3>2. \A i, j \in 1 .. n : q[i] = q[j] => i = j
            BY <2>1, <2>2 DEF Distinct, q
        <3>3. \A x \in Members(q) : \E i \in 1 .. n : q[i] = x
            BY <2>2, Zenon DEF Members
        <3> QED BY <3>1, <3>2, <3>3, Zenon DEF Bijection, Injection, Surjection, IsInjective
    <2>4. IsFiniteSet(1 .. n) /\ Cardinality(1 .. n) = n
        <3> HIDE DEF n, q
        <3>1. 1 \in Int /\ n \in Int /\ n - 1 + 1 = n /\ (1 > n => n = 0)
            BY <2>0
        <3>2. IsFiniteSet(1 .. n) /\ Cardinality(1 .. n) = IF 1 > n THEN 0 ELSE n - 1 + 1
            BY <3>1, FS_Interval, Zenon
        <3> QED BY <3>1, <3>2
    <2> HIDE DEF n
    <2>5. Cardinality(Members(q)) = Cardinality(1 .. n)
        BY <2>3, <2>4, FS_Bijection DEF ExistsBijection
    <2> QED BY <2>1, <2>4, <2>5 DEF n
<1> QED BY <1>1, ConservedInit, ConservedStep, PTL DEF Spec

=============================================================================
