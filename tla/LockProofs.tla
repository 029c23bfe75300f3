----------------------------- MODULE LockProofs -----------------------------
(***************************************************************************)
(* The theorems of Locks: a lock has no more holders than units, and no    *)
(* wake-up is lost, as long as no interrupt has let others at the          *)
(* semaphore in the middle of a call.                                      *)
(***************************************************************************)
EXTENDS SemaphoreProofs, Locks

\* The provers a step tries if it names none, in this order, with their limits
\* in seconds.
USE SMTT(20), ZenonT(20), Z3T(30), SMTT(40)

\* A thread that is between its decl or incl and its irq_save runs, or its call
\* has been cut.
Windows ==
    \A t \in Threads : pc[t] \in {"down", "up"} => t = curr \/ <<pc[t], arg[t]>> \in cut

\* A unit that curr has returned and not yet passed to a sleeper.
Up(s) == IF pc[curr] = "up" /\ arg[curr] = s THEN 1 ELSE 0

\* No call on s has been cut; no sem_up of s has.
Uncut(s) == <<"down", s>> \notin cut /\ <<"up", s>> \notin cut
UpUncut(s) == <<"up", s>> \notin cut

\* While a thread sleeps all units are out or on their way to a sleeper.
Awake(s) == Uncut(s) /\ Waiters(s) # {} => held[s] + Up(s) >= InitCount[s]

\* Every holder of a lock has one of the units out.
HeldBy(s) == Cardinality(Holders(s)) <= held[s]

\* MutualExclusion, with the unit that curr is about to pass on.  It does not
\* follow from the units out: a thread killed after its decl leaves one out.
OneEach(s) == UpUncut(s) => Cardinality(Holders(s)) + Up(s) <= InitCount[s]

Locked ==
    /\ Conserved /\ Windows
    /\ \A s \in Sems : Awake(s)
    /\ \A s \in Mutexes : HeldBy(s) /\ OneEach(s)

\* What a step must establish beyond Conserved.
Kept ==
    /\ Windows' /\ \A s \in Sems : Awake(s)'
    /\ \A s \in Mutexes : HeldBy(s)' /\ OneEach(s)'

\* The units of s; in an uncut semaphore only curr is between decl and irq_save.
LEMMA LockedNow ==
    ASSUME Locked, NEW s \in Sems
    PROVE  /\ curr \in Threads /\ Mutexes \subseteq Sems
           /\ count[s] \in Int /\ held[s] \in Int /\ InitCount[s] \in Nat
           /\ Cardinality(Waiters(s)) \in Nat /\ Cardinality(Pending(s)) \in Nat
           /\ Waiters(s) = {} <=> Cardinality(Waiters(s)) = 0
           /\ count[s] + Cardinality(Waiters(s)) + Cardinality(Pending(s)) + held[s] = InitCount[s]
           /\ pc[curr] = "down" /\ arg[curr] = s => Cardinality(Pending(s)) >= 1
           /\ Uncut(s) /\ pc[curr] = "down" => Cardinality(Pending(s)) <= 1
           /\ Uncut(s) /\ ~(pc[curr] = "down" /\ arg[curr] = s) => Cardinality(Pending(s)) = 0
<1>1. Conserved /\ curr \in Threads /\ Mutexes \subseteq Sems
    BY ThreadsAssumption DEF Locked, Conserved, Sound, TypeOK
<1>2. Waiters(s) \in SUBSET Threads /\ Pending(s) \in SUBSET Threads
    BY DEF Waiters, Pending
<1>3. /\ Waiters(s) = {} <=> Cardinality(Waiters(s)) = 0
      /\ Pending(s) = {} <=> Cardinality(Pending(s)) = 0
      /\ Cardinality(Pending(s)) \in Nat
    BY <1>2, SizeIsNat, FS_EmptySet
<1>4. /\ count[s] + Cardinality(Waiters(s)) + Cardinality(Pending(s)) + held[s] = InitCount[s]
      /\ count[s] \in Int /\ held[s] \in Int /\ InitCount[s] \in Nat
      /\ Cardinality(Waiters(s)) \in Nat
    BY <1>1, UnitsNow, ThreadsAssumption DEF Total
<1>5. pc[curr] = "down" /\ arg[curr] = s => Cardinality(Pending(s)) >= 1
    <2> SUFFICES ASSUME pc[curr] = "down", arg[curr] = s PROVE Cardinality(Pending(s)) >= 1
        OBVIOUS
    <2>1. Pending(s) # {}
        BY <1>1 DEF Pending
    <2> QED BY <1>3, <2>1
<1>6. Uncut(s) => Pending(s) \subseteq {curr}
    BY DEF Uncut, Pending, Locked, Windows
<1>7. Uncut(s) /\ ~(pc[curr] = "down" /\ arg[curr] = s) => Cardinality(Pending(s)) = 0
    <2>1. Uncut(s) /\ ~(pc[curr] = "down" /\ arg[curr] = s) => Pending(s) = {}
        BY <1>6 DEF Pending
    <2> QED BY <1>3, <2>1
<1>8. Uncut(s) => Cardinality(Pending(s)) <= 1
    <2> SUFFICES ASSUME Uncut(s) PROVE Cardinality(Pending(s)) <= 1
        OBVIOUS
    <2>1. Pending(s) = {} \/ Pending(s) = {curr}
        BY <1>6
    <2>2. Cardinality({curr}) = 1
        BY FS_Singleton
    <2>3. CASE Pending(s) = {}
        BY <1>3, <2>3
    <2>4. CASE Pending(s) = {curr}
        BY <2>2, <2>4
    <2> QED BY <2>1, <2>3, <2>4
<1> QED BY <1>1, <1>3, <1>4, <1>5, <1>7, <1>8

\* A step after which no thread waits that did not wait before.
LEMMA FewerSleepers ==
    ASSUME NEW c, NEW q, NEW b, NEW d, NEW o, NEW r, NEW p, NEW n, NEW s \in Sems,
           Schedule(c, q, b, d, o, r, p, n)
    PROVE  Waiters(s)' \subseteq On(b, s)
<1> DEFINE e == IF hooks = "both" /\ n # last THEN Expired(b, d, r, n) ELSE {}
<1>1. blocked' = [t \in Threads |-> IF t \in e THEN NoSem ELSE b[t]]
    BY DEF Schedule
<1> HIDE DEF e
<1> QED BY <1>1, ThreadsAssumption DEF Waiters, On

LEMMA HoldersSize ==
    ASSUME NEW s PROVE Cardinality(Holders(s)) \in Nat /\ Cardinality(Holders(s)') \in Nat
<1>1. Holders(s) \in SUBSET Threads /\ Holders(s)' \in SUBSET Threads
    BY DEF Holders
<1> QED BY <1>1, SizeIsNat

LEMMA LockTypes ==
    ASSUME Locked
    PROVE  /\ curr \in Threads /\ Mutexes \subseteq Sems
           /\ pc \in [Threads -> Places] /\ held \in [Sems -> Int] /\ count \in [Sems -> Int]
           /\ holds \in [Threads -> SUBSET Sems] /\ arg \in [Threads -> Sems \cup {NoSem}]
           /\ blocked \in [Threads -> Sems \cup {NoSem}] /\ queue \in [Sems -> Seq(Threads)]
           /\ InitCount \in [Sems -> Nat] /\ NoSem \notin Sems
           /\ \A t \in Threads : pc[t] \in {"down", "up"} => arg[t] \in Sems
BY ThreadsAssumption DEF Locked, Conserved, Sound, TypeOK, Alive

\* A unit of z passes to t.
LEMMA AcquireHeld ==
    ASSUME Locked, NEW t \in Threads, NEW z \in Sems, Acquire(t, z), NEW s \in Mutexes
    PROVE  /\ HeldBy(s)'
           /\ s # z => Holders(s)' = Holders(s) /\ held'[s] = held[s]
           /\ s = z => /\ held'[s] = held[s] + 1
                       /\ Cardinality(Holders(s)') <= Cardinality(Holders(s)) + 1
<1>1. /\ held \in [Sems -> Int] /\ holds \in [Threads -> SUBSET Sems] /\ s \in Sems
      /\ Cardinality(Holders(s)) <= held[s] /\ Cardinality(Holders(s)) \in Nat
    BY LockTypes, HoldersSize DEF Locked, HeldBy
<1>2. CASE s # z
    <2>1. held'[s] = held[s] /\ Holders(s)' = Holders(s)
        BY <1>1, <1>2 DEF Acquire, Holders
    <2> QED BY <1>1, <1>2, <2>1 DEF HeldBy
<1>3. CASE s = z
    <2>1. held'[s] = held[s] + 1 /\ held[s] \in Int /\ Holders(s)' = Holders(s) \cup {t}
        BY <1>1, <1>3 DEF Acquire, Holders
    <2>2. Cardinality(Holders(s)') <= Cardinality(Holders(s)) + 1
        <3>1. Holders(s) \in SUBSET Threads
            BY DEF Holders
        <3>2. CASE t \in Holders(s)
            <4>1. Holders(s)' = Holders(s)
                BY <2>1, <3>2
            <4>2. Cardinality(Holders(s)') = Cardinality(Holders(s))
                BY <4>1
            <4> QED BY <1>1, <4>2
        <3>3. CASE t \notin Holders(s)
            <4>1. Cardinality(Holders(s) \cup {t}) = Cardinality(Holders(s)) + 1
                BY <3>1, <3>3, OneMore
            <4>2. Cardinality(Holders(s)') = Cardinality(Holders(s)) + 1
                BY <2>1, <4>1
            <4> QED BY <1>1, <4>2
        <3> QED BY <3>2, <3>3
    <2>3. HeldBy(s)'
        <3>1. Cardinality(Holders(s)') \in Nat
            BY HoldersSize
        <3> QED BY <1>1, <2>1, <2>2, <3>1 DEF HeldBy
    <2> QED BY <1>3, <2>1, <2>2, <2>3
<1> QED BY <1>2, <1>3

LEMMA LockedInit == LockInit => Locked
<1> SUFFICES ASSUME LockInit PROVE Locked
    OBVIOUS
<1>0. Init
    BY DEF LockInit
<1>1. Windows
    BY <1>0 DEF Init, Windows
<1>2. ASSUME NEW s \in Sems PROVE Awake(s)
    <2>1. Waiters(s) = {}
        BY <1>0, ThreadsAssumption DEF Init, Waiters
    <2> QED BY <2>1 DEF Awake
<1>3. ASSUME NEW s \in Mutexes PROVE HeldBy(s) /\ OneEach(s)
    <2>1. Holders(s) = {} /\ held[s] = 0 /\ Up(s) = 0 /\ InitCount[s] \in Nat
        BY <1>0, ThreadsAssumption DEF Init, Holders, Up
    <2>2. Cardinality(Holders(s)) = 0
        BY <2>1, FS_EmptySet
    <2> QED BY <2>1, <2>2 DEF HeldBy, OneEach
<1> QED BY <1>0, <1>1, <1>2, <1>3, ConservedInit DEF Locked

\* A step that returns no unit of s, and after which no more threads wait.
LEMMA KeepAwake ==
    ASSUME Locked, NEW s \in Sems, cut \subseteq cut', held'[s] \in Int, held'[s] >= held[s],
           Uncut(s)' => Up(s)' = Up(s), Waiters(s)' \subseteq Waiters(s)
    PROVE  Awake(s)'
<1> SUFFICES ASSUME Uncut(s)', Waiters(s)' # {} PROVE held'[s] + Up(s)' >= InitCount[s]
    BY DEF Awake
<1>1. Uncut(s) /\ Waiters(s) # {}
    BY DEF Uncut
<1>2. held[s] + Up(s) >= InitCount[s]
    BY <1>1 DEF Locked, Awake
<1>3. held[s] \in Int /\ Up(s) \in {0, 1} /\ InitCount[s] \in Nat
    BY LockTypes DEF Up
<1> QED BY <1>2, <1>3

\* A step that leaves every lock with its holders and takes no unit away.
LEMMA KeepHeld ==
    ASSUME Locked, UNCHANGED holds, cut \subseteq cut', NEW s \in Mutexes,
           held'[s] \in Int, held'[s] >= held[s],
           UpUncut(s)' => Up(s)' = Up(s) \/ Up(s)' = 0
    PROVE  HeldBy(s)' /\ OneEach(s)'
<1>1. Holders(s)' = Holders(s)
    BY DEF Holders
<1>2. Cardinality(Holders(s)) <= held[s] /\ held[s] \in Int
    BY LockTypes DEF Locked, HeldBy
<1>3. Cardinality(Holders(s)') = Cardinality(Holders(s))
    BY <1>1
<1>4. HeldBy(s)'
    BY <1>2, <1>3, HoldersSize DEF HeldBy
<1>5. OneEach(s)'
    <2> SUFFICES ASSUME UpUncut(s)' PROVE Cardinality(Holders(s)') + Up(s)' <= InitCount[s]
        BY DEF OneEach
    <2>1. UpUncut(s)
        BY DEF UpUncut
    <2>2. Cardinality(Holders(s)) + Up(s) <= InitCount[s]
        BY <2>1 DEF Locked, OneEach
    <2>3. Up(s) \in {0, 1} /\ InitCount[s] \in Nat /\ Cardinality(Holders(s)) \in Nat
        BY LockTypes, HoldersSize DEF Up
    <2> QED BY <1>3, <2>2, <2>3
<1> QED BY <1>4, <1>5

\* A thread takes a unit that the count shows to be free.
LEMMA TakesUnit ==
    ASSUME Locked, NEW t \in Threads, NEW z \in Sems, Acquire(t, z), Windows', cut' = cut,
           count[z] >= 1 \/ (count[z] >= 0 /\ pc[curr] = "down" /\ arg[curr] = z),
           \A s \in Sems : Up(s) = 0 /\ Up(s)' = 0 /\ Waiters(s)' = Waiters(s),
           \A s \in Sems : held'[s] = IF s = z THEN held[s] + 1 ELSE held[s]
    PROVE  Kept
<1>1. ASSUME NEW s \in Sems PROVE Awake(s)'
    <2> SUFFICES ASSUME Uncut(s)', Waiters(s)' # {} PROVE held'[s] + Up(s)' >= InitCount[s]
        BY DEF Awake
    <2>1. held[s] + 0 >= InitCount[s]
        <3>1. Uncut(s) /\ Waiters(s) # {} /\ Up(s) = 0
            BY DEF Uncut
        <3> QED BY <3>1 DEF Locked, Awake
    <2>2. held[s] \in Int /\ InitCount[s] \in Nat /\ Up(s)' = 0
        BY LockedNow
    <2> QED BY <2>1, <2>2
<1>2. held[z] + 1 <= InitCount[z]
    <2>1. /\ count[z] \in Int /\ held[z] \in Int /\ InitCount[z] \in Nat
          /\ Cardinality(Waiters(z)) \in Nat /\ Cardinality(Pending(z)) \in Nat
          /\ count[z] + Cardinality(Waiters(z)) + Cardinality(Pending(z)) + held[z] = InitCount[z]
          /\ count[z] >= 1 \/ (count[z] >= 0 /\ Cardinality(Pending(z)) >= 1)
        BY LockedNow
    <2> QED BY <2>1
<1>3. ASSUME NEW s \in Mutexes PROVE HeldBy(s)' /\ OneEach(s)'
    <2>1. /\ s \in Sems /\ HeldBy(s) /\ OneEach(s) /\ Up(s) = 0 /\ Up(s)' = 0
          /\ held[s] \in Int /\ InitCount[s] \in Nat
        BY LockTypes DEF Locked
    <2>2. Cardinality(Holders(s)) \in Nat /\ Cardinality(Holders(s)') \in Nat
        BY HoldersSize
    <2>3. CASE s # z
        <3>1. Holders(s)' = Holders(s)
            BY <2>3, AcquireHeld
        <3>2. Cardinality(Holders(s)') = Cardinality(Holders(s)) /\ UpUncut(s)' = UpUncut(s)
            BY <3>1 DEF UpUncut
        <3> QED BY <2>1, <3>2, AcquireHeld DEF OneEach
    <2>4. CASE s = z
        <3>1. Cardinality(Holders(s)') <= Cardinality(Holders(s)) + 1
            BY <2>4, AcquireHeld
        <3>2. Cardinality(Holders(s)') + 0 <= InitCount[s]
            BY <1>2, <2>1, <2>2, <2>4, <3>1 DEF HeldBy
        <3> QED BY <2>1, <3>2, AcquireHeld DEF OneEach
    <2> QED BY <2>3, <2>4
<1> QED BY <1>1, <1>3 DEF Kept

\* The fast path of sem_down takes a unit that no sleeper is waiting for.
LEMMA LockedDown ==
    ASSUME Locked, NEW t \in Threads, NEW z \in Sems, NEW timeout \in Timeouts,
           SemDown(t, z, timeout), cut' = cut
    PROVE  Kept
<1>1. /\ curr = t /\ pc[t] = "user" /\ curr' = curr /\ UNCHANGED blocked
      /\ pc \in [Threads -> Places] /\ held \in [Sems -> Int]
      /\ arg \in [Threads -> Sems \cup {NoSem}]
    BY LockTypes DEF SemDown, Running, NoSchedule
<1>2. CASE count[z] - 1 < 0
    <2>1. /\ pc' = [pc EXCEPT ![t] = "down"] /\ arg' = [arg EXCEPT ![t] = z]
          /\ UNCHANGED <<holds, held>>
        BY <1>2 DEF SemDown
    <2>2. Windows'
        BY <1>1, <2>1 DEF Windows, Locked
    <2>3. \A s \in Sems : Up(s) = 0 /\ Up(s)' = 0 /\ Waiters(s)' = Waiters(s) /\ held'[s] = held[s]
        BY <1>1, <2>1 DEF Up, Waiters
    <2>4. \A s \in Sems : Awake(s)'
        BY <1>1, <2>3, KeepAwake
    <2>5. ASSUME NEW s \in Mutexes PROVE HeldBy(s)' /\ OneEach(s)'
        BY <1>1, <2>1, <2>3, LockTypes, KeepHeld
    <2> QED BY <2>2, <2>4, <2>5 DEF Kept
<1>3. CASE ~(count[z] - 1 < 0)
    <2>1. Acquire(t, z) /\ UNCHANGED <<pc, arg>>
        BY <1>3 DEF SemDown
    <2>2. Windows'
        BY <1>1, <2>1 DEF Windows, Locked
    <2>3. \A s \in Sems : Up(s) = 0 /\ Up(s)' = 0 /\ Waiters(s)' = Waiters(s)
        BY <1>1, <2>1 DEF Up, Waiters
    <2>4. \A s \in Sems : held'[s] = IF s = z THEN held[s] + 1 ELSE held[s]
        BY <1>1, <2>1 DEF Acquire
    <2>5. count[z] \in Int /\ count[z] >= 1
        BY <1>3, LockTypes
    <2> QED BY <1>1, <2>1, <2>2, <2>3, <2>4, <2>5, TakesUnit
<1> QED BY <1>2, <1>3

\* The slow path that finds the semaphore raised takes a unit nobody waits for.
LEMMA LockedBail ==
    ASSUME Locked, NEW t \in Threads, SemDownBail(t), cut' = cut
    PROVE  Kept
<1>1. /\ curr = t /\ pc[t] = "down" /\ UNCHANGED <<curr, blocked>>
      /\ pc' = [pc EXCEPT ![t] = "user"] /\ arg' = [arg EXCEPT ![t] = NoSem]
      /\ count[arg[t]] >= 0 /\ Acquire(t, arg[t])
      /\ pc \in [Threads -> Places] /\ held \in [Sems -> Int] /\ arg[t] \in Sems
      /\ arg \in [Threads -> Sems \cup {NoSem}]
    BY LockTypes DEF SemDownBail, NoSchedule
<1>2. Windows'
    BY <1>1 DEF Windows, Locked
<1>3. \A s \in Sems : Up(s) = 0 /\ Up(s)' = 0 /\ Waiters(s)' = Waiters(s)
    BY <1>1 DEF Up, Waiters
<1>4. \A s \in Sems : held'[s] = IF s = arg[t] THEN held[s] + 1 ELSE held[s]
    BY <1>1 DEF Acquire
<1> QED BY <1>1, <1>2, <1>3, <1>4, TakesUnit

\* The steps that only end a call: nobody waits for the unit just returned.
LEMMA LockedEnd ==
    ASSUME Locked, NEW t \in Threads, cut' = cut,
           SemDownImmediate(t) \/ SemDownReturn(t) \/ SemUpNobody(t)
    PROVE  Kept
<1>1. /\ curr = t /\ UNCHANGED <<curr, blocked, held, holds>>
      /\ pc' = [pc EXCEPT ![t] = "user"] /\ arg' = [arg EXCEPT ![t] = NoSem]
      /\ pc[t] \in {"down", "asleep", "up"}
      /\ pc[t] = "up" => queue[arg[t]] = << >> /\ arg[t] \in Sems
      /\ pc \in [Threads -> Places] /\ held \in [Sems -> Int]
      /\ arg \in [Threads -> Sems \cup {NoSem}]
    BY LockTypes DEF SemDownImmediate, SemDownReturn, SemUpNobody, NoSchedule
<1>2. Windows'
    BY <1>1 DEF Windows, Locked
<1>3. \A s \in Sems : Up(s)' = 0 /\ Waiters(s)' = Waiters(s) /\ held'[s] = held[s]
    BY <1>1 DEF Up, Waiters
<1>4. ASSUME NEW s \in Sems PROVE Awake(s)'
    <2>1. CASE pc[t] = "up" /\ arg[t] = s
        <3>1. Waiters(s) = {}
            BY <1>1, <2>1 DEF Locked, Conserved, QueueOK, Members, On, Waiters
        <3> QED BY <1>3, <3>1 DEF Awake
    <2>2. CASE ~(pc[t] = "up" /\ arg[t] = s)
        <3>1. Up(s) = 0
            BY <1>1, <2>2 DEF Up
        <3> QED BY <1>1, <1>3, <3>1, KeepAwake
    <2> QED BY <2>1, <2>2
<1>5. ASSUME NEW s \in Mutexes PROVE HeldBy(s)' /\ OneEach(s)'
    BY <1>1, <1>3, LockTypes, KeepHeld
<1> QED BY <1>2, <1>4, <1>5 DEF Kept

\* A thread that is given the processor in the middle of a sem_up of s had lost it
\* there: that call has been cut.
LEMMA Resumed ==
    ASSUME Locked, NEW s \in Sems, curr' \in Threads, cut \subseteq cut', UpUncut(s)',
           pc'[curr'] = "up" => curr' # curr /\ pc[curr'] = "up" /\ arg'[curr'] = arg[curr']
    PROVE  Up(s)' = 0
BY DEF Up, UpUncut, Locked, Windows

\* A thread goes to sleep only when every unit is out.
LEMMA LockedBlock ==
    ASSUME Locked, NEW t \in Threads, SemDownBlock(t), cut' = cut, curr' \in Threads
    PROVE  Kept
<1> DEFINE b == [blocked EXCEPT ![t] = arg[t]]
<1>1. /\ curr = t /\ pc[t] = "down" /\ UNCHANGED <<arg, held, holds>>
      /\ pc' = [pc EXCEPT ![t] = "asleep"] /\ count[arg[t]] < 0 /\ arg[t] \in Sems
      /\ pc \in [Threads -> Places] /\ held \in [Sems -> Int]
      /\ blocked \in [Threads -> Sems \cup {NoSem}]
    BY LockTypes DEF SemDownBlock, SemVars
<1>2. Windows'
    BY <1>1 DEF Windows, Locked
<1>3. \A s \in Sems : Waiters(s)' \subseteq On(b, s)
    BY FewerSleepers DEF SemDownBlock
<1>4. \A s \in Sems : Up(s) = 0 /\ held'[s] = held[s] /\ (UpUncut(s)' => Up(s)' = 0)
    <2>1. pc'[curr'] = "up" => curr' # curr /\ pc[curr'] = "up" /\ arg'[curr'] = arg[curr']
        BY <1>1
    <2>2. \A s \in Sems : UpUncut(s)' => Up(s)' = 0
        BY <2>1, Resumed
    <2> QED BY <1>1, <2>2 DEF Up
<1>5. ASSUME NEW s \in Sems PROVE Awake(s)'
    <2>0. Uncut(s)' => UpUncut(s)' /\ Uncut(s)
        BY DEF Uncut, UpUncut
    <2>1. CASE s # arg[t]
        <3>1. Waiters(s)' \subseteq Waiters(s)
            BY <1>1, <1>3, <2>1 DEF On, Waiters
        <3> QED BY <1>1, <1>4, <2>0, <3>1, KeepAwake
    <2>2. CASE s = arg[t]
        <3> SUFFICES ASSUME Uncut(s)' PROVE held'[s] + Up(s)' >= InitCount[s]
            BY DEF Awake
        <3>1. /\ count[s] < 0 /\ count[s] \in Int /\ held[s] \in Int /\ InitCount[s] \in Nat
              /\ Cardinality(Waiters(s)) \in Nat
              /\ Waiters(s) = {} <=> Cardinality(Waiters(s)) = 0
            BY <1>1, <2>2, LockedNow
        <3>2. /\ count[s] + Cardinality(Waiters(s)) + Cardinality(Pending(s)) + held[s] = InitCount[s]
              /\ Cardinality(Pending(s)) \in Nat /\ Cardinality(Pending(s)) <= 1
            BY <1>1, <2>0, LockedNow
        <3>3. Waiters(s) # {} => held[s] + 0 >= InitCount[s]
            BY <1>4, <2>0 DEF Locked, Awake
        <3>4. held[s] >= InitCount[s]
            BY <3>1, <3>2, <3>3
        <3> QED BY <1>4, <2>0, <3>1, <3>4
    <2> QED BY <2>1, <2>2
<1>6. ASSUME NEW s \in Mutexes PROVE HeldBy(s)' /\ OneEach(s)'
    <2>1. s \in Sems /\ held'[s] = held[s] /\ held[s] \in Int
        BY <1>1, LockTypes
    <2>2. UpUncut(s)' => Up(s)' = 0
        BY <1>4, <2>1
    <2> QED BY <1>1, <2>1, <2>2, KeepHeld
<1> QED BY <1>2, <1>5, <1>6 DEF Kept

\* The holder returns its unit; it enters the slow path if anyone sleeps.
LEMMA LockedUp ==
    ASSUME Locked, NEW t \in Threads, NEW z \in Sems, SemUp(t, z), cut' = cut
    PROVE  Kept
<1>1. /\ curr = t /\ pc[t] = "user" /\ UNCHANGED <<curr, blocked>>
      /\ held' = [held EXCEPT ![z] = @ - 1] /\ holds' = [holds EXCEPT ![t] = @ \ {z}]
      /\ z \in Mutexes => z \in holds[t]
      /\ count[z] + 1 <= 0 => pc' = [pc EXCEPT ![t] = "up"] /\ arg' = [arg EXCEPT ![t] = z]
      /\ ~(count[z] + 1 <= 0) => UNCHANGED <<pc, arg>>
      /\ pc \in [Threads -> Places] /\ held \in [Sems -> Int]
      /\ holds \in [Threads -> SUBSET Sems] /\ arg \in [Threads -> Sems \cup {NoSem}]
    BY LockTypes DEF SemUp, Running, NoSchedule
<1>2. Windows'
    BY <1>1 DEF Windows, Locked
<1>3. \A s \in Sems : Up(s) = 0 /\ Waiters(s)' = Waiters(s) /\ (s # z => Up(s)' = 0)
    BY <1>1 DEF Up, Waiters
<1>4. Up(z)' \in {0, 1} /\ (count[z] + 1 <= 0 => Up(z)' = 1)
    BY <1>1 DEF Up
<1>5. ASSUME NEW s \in Sems PROVE Awake(s)'
    <2>1. CASE s # z
        BY <1>1, <1>3, <2>1, KeepAwake
    <2>2. CASE s = z
        <3> SUFFICES ASSUME Uncut(s)', Waiters(s)' # {} PROVE held'[s] + Up(s)' >= InitCount[s]
            BY DEF Awake
        <3>1. Uncut(s) /\ Waiters(s) # {} /\ Up(s) = 0 /\ held'[s] = held[s] - 1
            BY <1>1, <1>3, <2>2 DEF Uncut
        <3>2. held[s] + 0 >= InitCount[s]
            BY <3>1 DEF Locked, Awake
        <3>3. /\ count[s] + Cardinality(Waiters(s)) + Cardinality(Pending(s)) + held[s] = InitCount[s]
              /\ count[s] \in Int /\ held[s] \in Int /\ InitCount[s] \in Nat
              /\ Cardinality(Waiters(s)) \in Nat /\ Cardinality(Waiters(s)) # 0
              /\ Cardinality(Pending(s)) = 0
            BY <1>1, <3>1, LockedNow
        <3>4. count[s] + 1 <= 0
            BY <3>2, <3>3
        <3> QED BY <1>4, <2>2, <3>1, <3>2, <3>3, <3>4
    <2> QED BY <2>1, <2>2
<1>6. ASSUME NEW s \in Mutexes PROVE HeldBy(s)' /\ OneEach(s)'
    <2>1. /\ s \in Sems /\ held[s] \in Int /\ Cardinality(Holders(s)) <= held[s]
          /\ InitCount[s] \in Nat /\ Up(s) = 0
          /\ UpUncut(s)' => Cardinality(Holders(s)) + 0 <= InitCount[s]
        BY <1>1, <1>3, LockTypes DEF Locked, HeldBy, OneEach, UpUncut
    <2>2. CASE s # z
        <3>1. Holders(s)' = Holders(s) /\ held'[s] = held[s] /\ Up(s)' = 0
            BY <1>1, <1>3, <2>1, <2>2 DEF Holders
        <3>2. Cardinality(Holders(s)') = Cardinality(Holders(s))
            BY <3>1
        <3> QED BY <2>1, <3>1, <3>2 DEF HeldBy, OneEach
    <2>3. CASE s = z
        <3>1. Holders(s)' = Holders(s) \ {t} /\ t \in Holders(s) /\ held'[s] = held[s] - 1
            BY <1>1, <2>1, <2>3 DEF Holders
        <3>2. Holders(s)' \in SUBSET Threads /\ t \notin Holders(s)' /\ Holders(s)' \cup {t} = Holders(s)
            BY <3>1 DEF Holders
        <3>3. Cardinality(Holders(s)) = Cardinality(Holders(s)') + 1 /\ Cardinality(Holders(s)') \in Nat
            BY <3>2, OneMore
        <3>4. held'[s] = held[s] - 1 /\ Up(s)' \in {0, 1}
            BY <1>4, <2>3, <3>1
        <3> QED BY <2>1, <3>3, <3>4 DEF HeldBy, OneEach
    <2> QED BY <2>2, <2>3
<1> QED BY <1>2, <1>5, <1>6 DEF Kept

\* The slow path of sem_up hands the unit over to the oldest sleeper.
LEMMA LockedWake ==
    ASSUME Locked, NEW t \in Threads, SemUpWake(t), cut' = cut, curr' \in Threads
    PROVE  Kept
<1> DEFINE z == arg[t]
           u == Head(queue[z])
           b == [blocked EXCEPT ![u] = NoSem]
<1>1. /\ curr = t /\ pc[t] = "up" /\ pc' = [pc EXCEPT ![t] = "user"]
      /\ arg' = [arg EXCEPT ![t] = NoSem] /\ arg \in [Threads -> Sems \cup {NoSem}]
      /\ z \in Sems /\ queue[z] # << >> /\ Acquire(u, z)
      /\ pc \in [Threads -> Places] /\ held \in [Sems -> Int]
      /\ blocked \in [Threads -> Sems \cup {NoSem}] /\ queue[z] \in Seq(Threads)
    BY LockTypes DEF SemUpWake
<1>2. u \in Threads
    BY <1>1, HeadTailProperties
<1>3. \A s \in Sems : Waiters(s)' \subseteq On(b, s)
    BY FewerSleepers DEF SemUpWake
<1> HIDE DEF u
<1>4. Windows'
    BY <1>1 DEF Windows, Locked
<1>5. \A s \in Sems : UpUncut(s)' => Up(s)' = 0
    <2>1. pc'[curr'] = "up" => curr' # curr /\ pc[curr'] = "up" /\ arg'[curr'] = arg[curr']
        BY <1>1
    <2> QED BY <2>1, Resumed
<1>6. \A s \in Sems : /\ held'[s] = IF s = z THEN held[s] + 1 ELSE held[s]
                      /\ Up(s) = IF s = z THEN 1 ELSE 0
    BY <1>1 DEF Up, Acquire
<1>7. ASSUME NEW s \in Sems PROVE Awake(s)'
    <2>0. Uncut(s)' => UpUncut(s)' /\ Uncut(s)
        BY DEF Uncut, UpUncut
    <2>1. Waiters(s)' \subseteq Waiters(s)
        BY <1>1, <1>2, <1>3, LockTypes DEF On, Waiters
    <2>2. CASE s # z
        BY <1>1, <1>5, <1>6, <2>0, <2>1, <2>2, KeepAwake
    <2>3. CASE s = z
        <3> SUFFICES ASSUME Uncut(s)', Waiters(s)' # {} PROVE held'[s] + Up(s)' >= InitCount[s]
            BY DEF Awake
        <3>1. Uncut(s) /\ Waiters(s) # {} /\ Up(s)' = 0 /\ Up(s) = 1 /\ held'[s] = held[s] + 1
            BY <1>5, <1>6, <2>0, <2>1, <2>3
        <3>2. held[s] + 1 >= InitCount[s]
            BY <3>1 DEF Locked, Awake
        <3>3. held[s] \in Int /\ InitCount[s] \in Nat
            BY LockTypes
        <3> QED BY <3>1, <3>2, <3>3
    <2> QED BY <2>2, <2>3
<1>8. ASSUME NEW s \in Mutexes PROVE HeldBy(s)' /\ OneEach(s)'
    <2>1. /\ s \in Sems /\ InitCount[s] \in Nat /\ (UpUncut(s)' => Up(s)' = 0)
          /\ UpUncut(s)' => Cardinality(Holders(s)) + Up(s) <= InitCount[s]
        BY <1>5, LockTypes DEF Locked, OneEach, UpUncut
    <2>2. Cardinality(Holders(s)) \in Nat /\ Cardinality(Holders(s)') \in Nat
        BY HoldersSize
    <2>3. Up(s) = IF s = z THEN 1 ELSE 0
        BY <1>6, <2>1
    <2>4. CASE s # z
        <3>1. Holders(s)' = Holders(s)
            BY <1>1, <1>2, <2>4, AcquireHeld
        <3>2. Cardinality(Holders(s)') = Cardinality(Holders(s))
            BY <3>1
        <3> QED BY <1>1, <1>2, <2>1, <2>2, <2>3, <2>4, <3>2, AcquireHeld DEF OneEach
    <2>5. CASE s = z
        <3>1. HeldBy(s)' /\ Cardinality(Holders(s)') <= Cardinality(Holders(s)) + 1
            BY <1>1, <1>2, <2>5, AcquireHeld
        <3> QED BY <2>1, <2>2, <2>3, <2>5, <3>1 DEF OneEach
    <2> QED BY <2>4, <2>5
<1> QED BY <1>4, <1>7, <1>8 DEF Kept

\* A step that schedules: a thread is left, or taken up, in the middle of a call
\* only if that call has been cut.
Switch ==
    /\ curr' \in Threads /\ cut \subseteq cut'
    /\ \A u \in Threads : pc'[u] \in {"down", "up"} => pc'[u] = pc[u] /\ arg'[u] = arg[u]
    /\ pc[curr] \in {"down", "up"} =>
          /\ pc'[curr] = pc[curr] /\ arg'[curr] = arg[curr]
          /\ curr' = curr \/ <<pc[curr], arg[curr]>> \in cut'

LEMMA SwitchWindows ==
    ASSUME Locked, Switch
    PROVE  Windows' /\ \A s \in Sems : UpUncut(s)' => Up(s)' = Up(s)
<1>1. Windows'
    <2> SUFFICES ASSUME NEW t \in Threads, pc'[t] \in {"down", "up"}
                 PROVE  t = curr' \/ <<pc'[t], arg'[t]>> \in cut'
        BY DEF Windows
    <2>1. pc'[t] = pc[t] /\ arg'[t] = arg[t]
        BY DEF Switch
    <2>2. t = curr \/ <<pc[t], arg[t]>> \in cut
        BY <2>1 DEF Locked, Windows
    <2> QED BY <2>1, <2>2 DEF Switch
<1>2. ASSUME NEW s \in Sems, UpUncut(s)' PROVE Up(s)' = Up(s)
    <2>1. CASE curr' = curr
        <3>1. curr \in Threads
            BY <2>1 DEF Switch
        <3> QED BY <2>1, <3>1 DEF Up, Switch
    <2>2. CASE curr' # curr
        <3>1. ~(pc[curr] = "up" /\ arg[curr] = s)
            BY <1>2, <2>2 DEF Switch, UpUncut
        <3>2. pc'[curr'] = "up" => pc[curr'] = "up" /\ arg'[curr'] = arg[curr']
            BY DEF Switch
        <3>3. Up(s)' = 0
            BY <1>2, <2>2, <3>2, Resumed DEF Switch
        <3> QED BY <3>1, <3>3 DEF Up
    <2> QED BY <2>1, <2>2
<1> QED BY <1>1, <1>2

\* Such a step, when it returns no unit and lets no thread fall asleep.
LEMMA LockedSchedule ==
    ASSUME Locked, Switch, NEW b, NEW c, NEW q, NEW d, NEW o, NEW r, NEW p, NEW n,
           Schedule(c, q, b, d, o, r, p, n),
           \A s \in Sems : On(b, s) \subseteq Waiters(s), UNCHANGED holds,
           \A s \in Sems : held'[s] \in Int /\ held'[s] >= held[s]
    PROVE  Kept
<1>1. Windows' /\ cut \subseteq cut' /\ \A s \in Sems : UpUncut(s)' => Up(s)' = Up(s)
    BY SwitchWindows DEF Switch
<1>2. ASSUME NEW s \in Sems PROVE Awake(s)'
    <2>1. Waiters(s)' \subseteq Waiters(s)
        BY FewerSleepers
    <2>2. Uncut(s)' => Up(s)' = Up(s)
        BY <1>1 DEF Uncut, UpUncut
    <2> QED BY <1>1, <2>1, <2>2, KeepAwake
<1>3. ASSUME NEW s \in Mutexes PROVE HeldBy(s)' /\ OneEach(s)'
    <2>1. s \in Sems
        BY LockTypes
    <2> QED BY <1>1, <2>1, KeepHeld
<1> QED BY <1>1, <1>2, <1>3 DEF Kept

\* pxe_poll_wakeups raises pxe_receive_thread_sem; a sleeper gets the unit.
LEMMA LockedRecv ==
    ASSUME Locked, Switch, ScheduleRecv, UNCHANGED holds,
           pc[curr] \in {"down", "up"} =>
               held'[arg[curr]] = held[arg[curr]] \/ <<pc[curr], arg[curr]>> \in cut'
    PROVE  Kept
<1> DEFINE z == RecvSem
           w == IF count[z] + 1 <= 0 /\ queue[z] # << >> THEN {Head(queue[z])} ELSE {}
           b == [t \in Threads |-> IF t \in w THEN NoSem ELSE blocked[t]]
<1>1. /\ z \in Sems \ Mutexes
      /\ held' = [held EXCEPT ![z] = @ - 1 + Cardinality(w)]
      /\ held \in [Sems -> Int] /\ queue[z] \in Seq(Threads)
    BY ThreadsAssumption, LockTypes DEF ScheduleRecv
<1>2. \A s \in Sems : Waiters(s)' \subseteq On(b, s)
    BY FewerSleepers DEF ScheduleRecv
<1>3. Cardinality(w) = IF count[z] + 1 <= 0 /\ queue[z] # << >> THEN 1 ELSE 0
    BY FS_Singleton, FS_EmptySet
<1>4. queue[z] = << >> => Waiters(z) = {}
    BY <1>1 DEF Locked, Conserved, QueueOK, Members, On, Waiters
<1> HIDE DEF w
<1>5. Windows' /\ cut \subseteq cut' /\ \A s \in Sems : UpUncut(s)' => Up(s)' = Up(s)
    BY SwitchWindows DEF Switch
<1>6. ASSUME NEW s \in Sems PROVE Waiters(s)' \subseteq Waiters(s)
    BY <1>2, ThreadsAssumption DEF On, Waiters
<1>7. ASSUME NEW s \in Sems, held'[s] = held[s] PROVE Awake(s)'
    <2>1. Uncut(s)' => Up(s)' = Up(s)
        BY <1>5 DEF Uncut, UpUncut
    <2> QED BY <1>1, <1>5, <1>6, <1>7, <2>1, KeepAwake
<1>8. Awake(z)'
    <2> SUFFICES ASSUME Uncut(z)', Waiters(z)' # {} PROVE held'[z] + Up(z)' >= InitCount[z]
        BY DEF Awake
    <2>1. Uncut(z) /\ Waiters(z) # {} /\ Up(z)' = Up(z) /\ UpUncut(z)'
        BY <1>1, <1>5, <1>6 DEF Uncut, UpUncut
    <2>2. held[z] + Up(z) >= InitCount[z]
        BY <1>1, <2>1 DEF Locked, Awake
    <2>3. CASE pc[curr] \in {"down", "up"} /\ arg[curr] = z
        <3>1. held'[z] = held[z]
            BY <2>3 DEF Uncut
        <3> QED BY <2>1, <2>2, <3>1
    <2>4. CASE ~(pc[curr] \in {"down", "up"} /\ arg[curr] = z)
        <3>1. Up(z) = 0
            BY <2>4 DEF Up
        <3>2. /\ count[z] + Cardinality(Waiters(z)) + Cardinality(Pending(z)) + held[z] = InitCount[z]
              /\ count[z] \in Int /\ held[z] \in Int /\ InitCount[z] \in Nat
              /\ Cardinality(Waiters(z)) \in Nat /\ Cardinality(Waiters(z)) # 0
              /\ Cardinality(Pending(z)) = 0
            BY <1>1, <2>1, <2>4, LockedNow
        <3>3. count[z] + 1 <= 0
            BY <2>2, <3>1, <3>2
        <3>4. held'[z] = held[z] - 1 + 1
            BY <1>1, <1>3, <1>4, <2>1, <3>3
        <3> QED BY <2>1, <2>2, <3>1, <3>2, <3>4
    <2> QED BY <2>3, <2>4
<1>9. ASSUME NEW s \in Sems PROVE Awake(s)'
    BY <1>1, <1>7, <1>8
<1>10. ASSUME NEW s \in Mutexes PROVE HeldBy(s)' /\ OneEach(s)'
    <2>1. s \in Sems /\ held'[s] = held[s] /\ held[s] \in Int
        BY <1>1, LockTypes
    <2> QED BY <1>5, <2>1, KeepHeld
<1> QED BY <1>5, <1>9, <1>10 DEF Kept

LEMMA LockedKill ==
    ASSUME Locked, NEW t \in Threads, NEW u \in Threads, KillThread(t, u),
           cut' = cut, curr' \in Threads
    PROVE  Kept
<1>1. /\ curr = t /\ pc[t] = "user" /\ u # t /\ UNCHANGED holds
      /\ pc' = [pc EXCEPT ![u] = "exit"] /\ arg' = [arg EXCEPT ![u] = NoSem]
      /\ pc \in [Threads -> Places] /\ held \in [Sems -> Int]
      /\ arg \in [Threads -> Sems \cup {NoSem}]
      /\ blocked \in [Threads -> Sems \cup {NoSem}]
    BY LockTypes DEF KillThread, Running
<1>2. ASSUME NEW s \in Sems PROVE held'[s] \in Int /\ held'[s] >= held[s]
    <2>1. held'[s] = held[s] + IF pc[u] = "down" /\ arg[u] = s THEN 1 ELSE 0
        BY DEF KillThread
    <2> QED BY <1>1, <2>1
<1>3. \A s \in Sems : On([blocked EXCEPT ![u] = NoSem], s) \subseteq Waiters(s)
    BY <1>1, ThreadsAssumption DEF On, Waiters
<1>4. Switch
    BY <1>1 DEF Switch
<1> QED BY <1>1, <1>2, <1>3, <1>4, LockedSchedule DEF KillThread

\* A thread that exits strands itself on __malloc_semaphore only if that is taken.
LEMMA LockedExit ==
    ASSUME Locked, NEW t \in Threads, ExitThread(t), cut' = cut, curr' \in Threads
    PROVE  Kept
<1> DEFINE z == MallocSem
<1>1. /\ curr = t /\ pc[t] \in {"user", "exit"} /\ UNCHANGED <<arg, held, holds>> /\ z \in Sems
      /\ pc \in [Threads -> Places] /\ held \in [Sems -> Int] /\ count[z] \in Int
      /\ blocked \in [Threads -> Sems \cup {NoSem}]
      /\ pc' = [pc EXCEPT ![t] = "dead"] \/ pc' = [pc EXCEPT ![t] = "stranded"]
    BY ThreadsAssumption, LockTypes DEF ExitThread, Running, SemVars
<1>2. Switch
    BY <1>1 DEF Switch
<1>3. \A s \in Sems : held'[s] = held[s] /\ held'[s] \in Int /\ held'[s] >= held[s]
    BY <1>1
<1>4. CASE count[z] > 0
    <2>1. \A s \in Sems : On(blocked, s) \subseteq Waiters(s)
        BY DEF On, Waiters
    <2> QED BY <1>1, <1>2, <1>3, <1>4, <2>1, LockedSchedule DEF ExitThread
<1>5. CASE ~(count[z] > 0)
    <2>1. \A s \in Sems : Waiters(s)' \subseteq On([blocked EXCEPT ![t] = z], s)
        BY <1>5, FewerSleepers DEF ExitThread
    <2>2. Windows' /\ \A s \in Sems : UpUncut(s)' => Up(s)' = Up(s)
        BY <1>2, SwitchWindows
    <2>3. ASSUME NEW s \in Sems PROVE Awake(s)'
        <3>0. Uncut(s)' => Up(s)' = Up(s) /\ Uncut(s)
            BY <2>2 DEF Uncut, UpUncut
        <3>1. CASE s # z
            <4>1. Waiters(s)' \subseteq Waiters(s)
                BY <1>1, <2>1, <3>1 DEF On, Waiters
            <4> QED BY <1>3, <3>0, <4>1, KeepAwake
        <3>2. CASE s = z
            <4> SUFFICES ASSUME Uncut(s)' PROVE held'[s] + Up(s)' >= InitCount[s]
                BY DEF Awake
            <4>1. Up(s)' = 0 /\ Up(s) = 0 /\ Uncut(s)
                BY <1>1, <3>0 DEF Up
            <4>2. Waiters(s) # {} => held[s] + 0 >= InitCount[s]
                BY <4>1 DEF Locked, Awake
            <4> DEFINE H == held[s]  W == Cardinality(Waiters(s))  C == count[s]  I == InitCount[s]
            <4>3. H \in Int /\ W \in Nat /\ C \in Int /\ I \in Nat /\ C <= 0 /\ C + W + 0 + H = I
                <5>1. /\ C + W + Cardinality(Pending(s)) + H = I /\ Cardinality(Pending(s)) = 0
                      /\ H \in Int /\ W \in Nat /\ C \in Int /\ I \in Nat
                    BY <1>1, <4>1, LockedNow
                <5> QED BY <1>1, <1>5, <3>2, <5>1
            <4>4. W # 0 => H + 0 >= I
                BY <4>2, LockedNow
            <4> HIDE DEF H, W, C, I
            <4>5. H >= I
                BY <4>3, <4>4
            <4> QED BY <1>3, <4>1, <4>3, <4>5 DEF H, I
        <3> QED BY <3>1, <3>2
    <2>4. ASSUME NEW s \in Mutexes PROVE HeldBy(s)' /\ OneEach(s)'
        <3>1. s \in Sems
            BY LockTypes
        <3> QED BY <1>1, <1>3, <2>2, <3>1, KeepHeld
    <2> QED BY <2>2, <2>3, <2>4 DEF Kept
<1> QED BY <1>4, <1>5

\* An interrupt: the call it finds in progress goes on later, and is cut if
\* another thread runs or the semaphore is raised.
LEMMA IrqSwitch ==
    ASSUME Locked, curr' \in Threads, UNCHANGED <<pc, arg>>,
           cut' = cut \cup IF Cut THEN {<<pc[curr], arg[curr]>>} ELSE {}
    PROVE  /\ Switch
           /\ pc[curr] \in {"down", "up"} =>
                 held'[arg[curr]] = held[arg[curr]] \/ <<pc[curr], arg[curr]>> \in cut'
BY DEF Switch, Cut

\* A step of curr from its own code, or one that ends its call, cuts nothing.
LEMMA NothingCut ==
    ASSUME cut' = cut \cup IF Cut THEN {<<pc[curr], arg[curr]>>} ELSE {},
           pc[curr] \notin {"down", "up"} \/ pc'[curr] # pc[curr]
    PROVE  cut' = cut
BY DEF Cut

LEMMA LockedStep ==
    ASSUME Locked, [LockNext]_lockVars
    PROVE  Locked'
<1>1. [Next]_vars
    BY DEF LockNext, lockVars
<1>2. Conserved' /\ curr' \in Threads
    BY <1>1, ConservedStep DEF Locked, Conserved, Sound, TypeOK
<1> SUFFICES Kept
    BY <1>2 DEF Locked, Kept
<1>3. \A s \in Sems : On(blocked, s) \subseteq Waiters(s)
    BY DEF On, Waiters
<1>4. ASSUME UNCHANGED <<curr, blocked, pc, arg, held, holds, cut>> PROVE Kept
    BY <1>4 DEF Kept, Locked, Windows, Awake, HeldBy, OneEach, Uncut, UpUncut, Waiters, Up, Holders
<1>5. CASE UNCHANGED lockVars
    BY <1>4, <1>5 DEF lockVars, vars
<1> SUFFICES ASSUME Next, cut' = cut \cup IF Cut THEN {<<pc[curr], arg[curr]>>} ELSE {}
             PROVE  Kept
    BY <1>5 DEF LockNext
<1>6. curr \in Threads /\ pc \in [Threads -> Places] /\ held \in [Sems -> Int]
    BY LockTypes
<1>7. ASSUME NEW t \in Threads, RemoveHook(t) PROVE Kept
    <2>1. cut' = cut
        BY <1>7, NothingCut DEF RemoveHook, Running
    <2> QED BY <1>4, <1>7, <2>1 DEF RemoveHook, NoSchedule, SemVars
<1>8. ASSUME UNCHANGED <<curr, blocked, pc, arg, held, holds>> PROVE Kept
    <2>1. cut' = cut
        BY <1>8 DEF Cut
    <2> QED BY <1>4, <1>8, <2>1
<1>9. CASE UnhookedTick
    BY <1>8, <1>9 DEF UnhookedTick, SemVars
<1>10. CASE BiosTick
    BY <1>8, <1>10 DEF BiosTick, SemVars
<1>11. CASE TimerIrq
    <2>1. UNCHANGED <<pc, arg, holds, held>>
        BY <1>11 DEF TimerIrq, SemVars
    <2>2. Switch
        BY <1>2, <2>1, IrqSwitch
    <2>3. \A s \in Sems : held'[s] \in Int /\ held'[s] >= held[s]
        BY <1>6, <2>1
    <2> QED BY <1>3, <1>11, <2>1, <2>2, <2>3, LockedSchedule DEF TimerIrq
<1>12. CASE OtherIrq
    <2>1. UNCHANGED <<pc, arg, holds, held>>
        BY <1>12 DEF OtherIrq, SemVars
    <2>2. Switch
        BY <1>2, <2>1, IrqSwitch
    <2>3. \A s \in Sems : held'[s] \in Int /\ held'[s] >= held[s]
        BY <1>6, <2>1
    <2> QED BY <1>3, <1>12, <2>1, <2>2, <2>3, LockedSchedule DEF OtherIrq
<1>13. CASE RecvIrq
    <2>1. UNCHANGED <<pc, arg, holds>> /\ ScheduleRecv
        BY <1>13 DEF RecvIrq
    <2> QED BY <1>2, <2>1, IrqSwitch, LockedRecv
<1>14. ASSUME NEW t \in Threads, Yield(t) PROVE Kept
    <2>1. curr = t /\ pc[t] = "user" /\ UNCHANGED <<pc, arg, holds, held>>
        BY <1>14 DEF Yield, SemVars
    <2>2. Switch
        BY <1>2, <2>1, IrqSwitch
    <2>3. \A s \in Sems : held'[s] \in Int /\ held'[s] >= held[s]
        BY <1>6, <2>1
    <2> QED BY <1>3, <1>14, <2>1, <2>2, <2>3, LockedSchedule DEF Yield
<1>15. ASSUME NEW t \in Threads, NEW u \in Threads, StartThread(t, u) PROVE Kept
    <2>1. /\ pc' = [pc EXCEPT ![u] = "user"] /\ pc[curr] = "user"
          /\ UNCHANGED <<arg, holds, held>>
        BY <1>15 DEF StartThread, Running, SemVars
    <2>2. Switch
        BY <1>2, <1>6, <2>1, NothingCut DEF Switch
    <2>3. \A s \in Sems : held'[s] \in Int /\ held'[s] >= held[s]
        BY <1>6, <2>1
    <2> QED BY <1>3, <1>15, <2>1, <2>2, <2>3, LockedSchedule DEF StartThread
<1>16. ASSUME NEW t \in Threads, BiosCall(t) \/ BiosReturn(t) PROVE Kept
    <2>1. /\ pc' = [pc EXCEPT ![t] = "bios"] \/ pc' = [pc EXCEPT ![t] = "user"]
          /\ curr = t /\ pc[t] \in {"user", "bios"} /\ UNCHANGED <<arg, holds>>
        BY <1>16 DEF BiosCall, BiosReturn, Running, SemVars
    <2>2. cut' = cut
        BY <2>1, NothingCut
    <2>3. Switch
        BY <1>2, <1>6, <2>1, <2>2 DEF Switch
    <2>4. CASE NoSchedule /\ UNCHANGED held
        <3>1. Windows' /\ \A s \in Sems : UpUncut(s)' => Up(s)' = Up(s)
            BY <2>3, SwitchWindows
        <3>2. \A s \in Sems : Waiters(s)' = Waiters(s) /\ held'[s] \in Int /\ held'[s] >= held[s]
            BY <1>6, <2>4 DEF NoSchedule, Waiters
        <3>3. ASSUME NEW s \in Sems PROVE Awake(s)'
            <4>1. Uncut(s)' => Up(s)' = Up(s)
                BY <3>1 DEF Uncut, UpUncut
            <4> QED BY <2>2, <3>2, <4>1, KeepAwake
        <3>4. ASSUME NEW s \in Mutexes PROVE HeldBy(s)' /\ OneEach(s)'
            <4>1. s \in Sems
                BY LockTypes
            <4> QED BY <2>1, <2>2, <3>1, <3>2, <4>1, KeepHeld
        <3> QED BY <3>1, <3>3, <3>4 DEF Kept
    <2>5. CASE /\ UNCHANGED held
               /\ Schedule(count, queue, blocked, deadline, timedOut, ring, prio, now)
        <3>1. \A s \in Sems : held'[s] \in Int /\ held'[s] >= held[s]
            BY <1>6, <2>5
        <3> QED BY <1>3, <2>1, <2>3, <2>5, <3>1, LockedSchedule
    <2>6. CASE ScheduleRecv
        BY <2>1, <2>3, <2>6, LockedRecv
    <2> QED BY <1>16, <2>4, <2>5, <2>6 DEF BiosCall, BiosReturn, SemVars
<1>17. ASSUME NEW t \in Threads, NEW s \in Sems, NEW timeout \in Timeouts, SemDown(t, s, timeout)
       PROVE  Kept
    BY <1>17, NothingCut, LockedDown DEF SemDown, Running
<1>18. ASSUME NEW t \in Threads, NEW s \in Sems, SemUp(t, s) PROVE Kept
    BY <1>18, NothingCut, LockedUp DEF SemUp, Running
<1>19. ASSUME NEW t \in Threads, InCall(t) PROVE Kept
    <2>1. CASE BiosReturn(t)
        BY <1>16, <2>1
    <2>2. CASE ~BiosReturn(t)
        <3>1. /\ curr = t /\ pc[t] \in {"down", "asleep", "up"}
              /\ pc' = [pc EXCEPT ![t] = "user"]
                    \/ (pc[t] = "down" /\ pc' = [pc EXCEPT ![t] = "asleep"])
            BY <1>19, <2>2 DEF InCall, SemDownBail, SemDownImmediate, SemDownBlock, SemDownReturn,
                               SemUpNobody, SemUpWake
        <3>2. cut' = cut
            BY <1>6, <3>1, NothingCut
        <3> QED BY <1>2, <1>19, <2>2, <3>2, LockedBail, LockedEnd, LockedBlock, LockedWake DEF InCall
    <2> QED BY <2>1, <2>2
<1>20. ASSUME NEW t \in Threads, NEW u \in Threads, KillThread(t, u) PROVE Kept
    BY <1>2, <1>20, NothingCut, LockedKill DEF KillThread, Running
<1>21. ASSUME NEW t \in Threads, ExitThread(t) PROVE Kept
    <2>1. curr = t /\ pc[t] \notin {"down", "up"}
        BY <1>21 DEF ExitThread, Running
    <2> QED BY <1>2, <1>21, <2>1, NothingCut, LockedExit
<1> HIDE DEF Kept
<1>22. ASSUME NEW t \in Threads, Call(t) PROVE Kept
    BY <1>7, <1>14, <1>15, <1>16, <1>17, <1>18, <1>20, <1>22 DEF Call
<1> QED BY <1>9, <1>10, <1>11, <1>12, <1>13, <1>19, <1>21, <1>22 DEF Next

LEMMA LockedAlways == LockSpec => []Locked
<1>1. Locked /\ [LockNext]_lockVars => Locked'
    BY LockedStep
<1> QED BY <1>1, LockedInit, PTL DEF LockSpec

\* A semaphore initialised with n units and used as a lock (malloc.c, mbox.c) never
\* has more than n holders, as long as no interrupt has let others at it between the
\* incl and the slow path of a sem_up of it.
THEOREM LocksExclude == LockSpec => []MutualExclusion
<1>1. ASSUME Locked PROVE MutualExclusion
    <2> SUFFICES ASSUME NEW s \in Mutexes, <<"up", s>> \notin cut
                 PROVE  Cardinality(Holders(s)) <= InitCount[s]
        BY DEF MutualExclusion
    <2>1. Cardinality(Holders(s)) + Up(s) <= InitCount[s]
        BY <1>1 DEF Locked, OneEach, UpUncut
    <2>2. Up(s) \in {0, 1} /\ InitCount[s] \in Nat /\ Cardinality(Holders(s)) \in Nat
        BY <1>1, LockTypes, HoldersSize DEF Up
    <2> QED BY <2>1, <2>2
<1> QED BY <1>1, LockedAlways, PTL

\* No thread is left asleep on a semaphore that has a unit free, as long as no
\* interrupt has let others at it in the middle of a sem_down or sem_up of it.
THEOREM WakeupsArrive == LockSpec => []NoLostWakeupUncut
<1>1. ASSUME Locked PROVE NoLostWakeupUncut
    <2> SUFFICES ASSUME NEW s \in Sems, {<<"down", s>>, <<"up", s>>} \cap cut = {},
                        Raising(s) = {}, Waiters(s) # {}
                 PROVE  held[s] >= InitCount[s]
        BY DEF NoLostWakeupUncut
    <2>1. Up(s) = 0 /\ Uncut(s)
        BY <1>1, LockTypes DEF Up, Raising, Uncut
    <2>2. held[s] + Up(s) >= InitCount[s] /\ held[s] \in Int /\ InitCount[s] \in Nat
        BY <1>1, <2>1, LockTypes DEF Locked, Awake
    <2> QED BY <2>1, <2>2
<1> QED BY <1>1, LockedAlways, PTL

=============================================================================
