------------------------------ MODULE Threads ------------------------------
(***************************************************************************)
(* The preemptive thread core of PXELINUX (core/thread): the priority      *)
(* scheduler, counting semaphores with timeouts, and the starting, killing *)
(* and exiting of threads, driven by hardware interrupts.                  *)
(*                                                                         *)
(* There is one processor.  `curr' runs; each of its steps is a stretch of *)
(* code an interrupt cannot split: one decl/incl instruction, or a section *)
(* between irq_save and irq_restore.  An interrupt is taken between two    *)
(* such steps; with the hooks pxe_init_isr installs it ends in __schedule, *)
(* so a thread can be preempted between any two of its steps.              *)
(*                                                                         *)
(* What the threads compute is abstracted to the semaphore calls they      *)
(* make: any thread may make any legal call.                               *)
(***************************************************************************)
EXTENDS Integers, Sequences, FiniteSets

CONSTANTS
    Threads,     \* every thread that may ever run
    Root, Idle,  \* the boot thread and the idle thread
    Prio,        \* starting priority of a thread, a rank; lower runs first
    Sems,        \* the semaphores
    NoSem,       \* thread->blocked == NULL
    InitCount,   \* the count each semaphore is initialised with
    Mutexes,     \* semaphores used as locks: only the holder does sem_up
    RecvSem,     \* pxe_receive_thread_sem, or NoSem where it plays no part
    MallocSem,   \* __malloc_semaphore, taken by free() in __exit_thread
    Timeouts,    \* timeouts in use: -1 immediate, 0 forever, else in ms
    TickMs,      \* what one timer tick adds to ms_timer
    ClockMod,    \* ms_timer wraps here (2^32 in the code)
    BiosMs,      \* bound: clock time one BIOS call lets pass unprocessed
    MaxCount,    \* bound: no sem_up on an event semaphore beyond this count
    Mortal       \* threads that may exit or be killed

ASSUME ThreadsAssumption ==
    /\ IsFiniteSet(Threads) /\ Root \in Threads /\ Idle \in Threads
    /\ Root # Idle
    /\ Prio \in [Threads -> Nat \ {0}] /\ Prio[Root] <= Prio[Idle]
    /\ NoSem \notin Sems
    /\ InitCount \in [Sems -> Nat]
    /\ Mutexes \subseteq Sems /\ MallocSem \in Sems
    /\ RecvSem \in (Sems \ Mutexes) \cup {NoSem}
    /\ Timeouts \subseteq Nat \cup {-1}
    /\ TickMs \in Nat \ {0} /\ ClockMod \in Nat \ {0} /\ MaxCount \in Nat
    /\ BiosMs \in Nat
    /\ Mortal \subseteq Threads \ {Root, Idle}

VARIABLES
    ring,      \* the thread list, from the thread after curr round to curr
    curr,      \* current()
    prio,      \* thread->prio; 0 stands for INT_MIN
    blocked,   \* thread->blocked->semaphore, or NoSem
    deadline,  \* block.timeout: a value of ms_timer, 0 for none
    timedOut,  \* block.timed_out
    count,     \* sem->count
    queue,     \* sem->list, oldest waiter first
    now,       \* ms_timer
    last,      \* ms_timer when timeouts were last processed (last_jiffies)
    hooks,     \* installed: "both", only core_pm_hook ("pm"), or "none"
    pc,        \* where each thread is
    arg,       \* semaphore of the call in progress
    tmo,       \* timeout of the call in progress
    waited,    \* ghost: how long a thread with a deadline has slept, in ms
    holds,     \* ghost: the mutexes each thread has acquired
    held       \* ghost: units of each semaphore acquired less units returned

vars == <<ring, curr, prio, blocked, deadline, timedOut, count, queue, now,
          last, hooks, pc, arg, tmo, waited, holds, held>>

Members(q) == {q[i] : i \in DOMAIN q}

Places == {"unborn", "user", "down", "asleep", "up", "bios", "exit", "stranded", "dead"}

TypeOK ==
    /\ ring \in Seq(Threads) /\ curr \in Threads
    /\ prio \in [Threads -> Nat]
    /\ blocked \in [Threads -> Sems \cup {NoSem}]
    /\ deadline \in [Threads -> 0 .. ClockMod - 1]
    /\ timedOut \in [Threads -> BOOLEAN]
    /\ count \in [Sems -> Int]
    /\ queue \in [Sems -> Seq(Threads)]
    /\ now \in 0 .. ClockMod - 1 /\ last \in 0 .. ClockMod - 1
    /\ hooks \in {"both", "pm", "none"}
    /\ pc \in [Threads -> Places]
    /\ arg \in [Threads -> Sems \cup {NoSem}]
    /\ tmo \in [Threads -> Timeouts \cup {0}]
    /\ waited \in [Threads -> 0 .. ClockMod]
    /\ holds \in [Threads -> SUBSET Sems]
    /\ held \in [Sems -> Int]

\* pxe_init_isr has started idle behind root and installed the hooks; it does
\* so before pxe_fs_init starts any thread that waits on a semaphore.
Init ==
    /\ ring = <<Idle, Root>> /\ curr = Root
    /\ prio = Prio
    /\ blocked = [t \in Threads |-> NoSem]
    /\ deadline = [t \in Threads |-> 0]
    /\ timedOut = [t \in Threads |-> FALSE]
    /\ count = InitCount
    /\ queue = [s \in Sems |-> << >>]
    /\ now = 0 /\ last = 0 /\ hooks = "both"
    /\ pc = [t \in Threads |-> IF t \in {Root, Idle} THEN "user" ELSE "unborn"]
    /\ arg = [t \in Threads |-> NoSem]
    /\ tmo = [t \in Threads |-> 0]
    /\ waited = [t \in Threads |-> 0]
    /\ holds = [t \in Threads |-> {}]
    /\ held = [s \in Sems |-> 0]

-----------------------------------------------------------------------------
(* The scheduler *)

\* Slip: the waiter is woken but stays linked.
WithoutUnlinking(q, e) == q

\* q without the members of e, in the same order.
Without(q, e) ==
    LET keep == {i \in DOMAIN q : q[i] \notin e}
        nth(k) == CHOOSE i \in keep : Cardinality({j \in keep : j <= i}) = k
    IN  [k \in 1 .. Cardinality(keep) |-> q[nth(k)]]

\* Slip: the first runnable thread, whatever its priority.
BestFirst(r, b, p) ==
    CHOOSE i \in DOMAIN r :
        b[r[i]] = NoSem /\ \A j \in DOMAIN r : b[r[j]] = NoSem => i <= j

\* Slip: the walk starts at curr, not at the thread after it.
BestFromCurr(r, b, p) ==
    LET after(i) == i % Len(r)
    IN  CHOOSE i \in DOMAIN r :
            /\ b[r[i]] = NoSem
            /\ \A j \in DOMAIN r : b[r[j]] = NoSem =>
                  \/ p[r[i]] < p[r[j]]
                  \/ p[r[i]] = p[r[j]] /\ after(i) <= after(j)

\* The entry of r that __schedule picks: the first in the walk among the
\* runnable threads of the best priority.
Best(r, b, p) ==
    CHOOSE i \in DOMAIN r :
        /\ b[r[i]] = NoSem
        /\ \A j \in DOMAIN r : b[r[j]] = NoSem =>
              \/ p[r[i]] < p[r[j]]
              \/ p[r[i]] = p[r[j]] /\ i <= j

\* Slip: the deadline compared as an unsigned number.
PastUnsigned(d, n) == d <= n

\* The signed 32-bit comparison (mstimediff_t)(timeout - now) <= 0.
Past(d, n) == (d - n) % ClockMod = 0 \/ 2 * ((d - n) % ClockMod) >= ClockMod

\* Slip: only the thread after curr is examined.
ExpiredNext(b, d, r, n) ==
    {t \in {r[1]} \ {curr} : b[t] # NoSem /\ d[t] # 0 /\ Past(d[t], n)}

\* The threads __thread_process_timeouts wakes, called by curr at time n.
Expired(b, d, r, n) ==
    {t \in Members(r) \ {curr} : b[t] # NoSem /\ d[t] # 0 /\ Past(d[t], n)}

\* Slip: the waiters leave but their units are not given back.
ReturnedNothing(c, b, e) == c

\* sem->count++ for each waiter in e that gives up (a timeout or a kill).
Returned(c, b, e) == [s \in Sems |-> c[s] + Cardinality({t \in e : b[t] = s})]

\* __schedule, with semaphores (c, q), blocked threads (b, d, o), list r,
\* priorities p and clock n.  The hook, pxe_poll_wakeups, comes first.
Schedule(c, q, b, d, o, r, p, n) ==
    LET e == IF hooks = "both" /\ n # last THEN Expired(b, d, r, n) ELSE {}
        i == Best(r, blocked', p)
    IN  /\ count' = Returned(c, b, e)
        /\ queue' = [s \in Sems |-> Without(q[s], e)]
        /\ blocked' = [t \in Threads |-> IF t \in e THEN NoSem ELSE b[t]]
        /\ deadline' = [t \in Threads |-> IF t \in e THEN 0 ELSE d[t]]
        /\ timedOut' = [t \in Threads |-> t \in e \/ o[t]]
        /\ last' = IF hooks = "both" THEN n ELSE last
        /\ ring' = SubSeq(r, i + 1, Len(r)) \o SubSeq(r, 1, i)
        /\ curr' = r[i]
        /\ prio' = p
        /\ now' = n

\* A step of t that neither blocks, wakes nor schedules anything.
NoSchedule ==
    UNCHANGED <<ring, curr, prio, blocked, deadline, timedOut, queue, now, last>>

SemVars == <<arg, tmo, holds, held>>
IrqVars == <<hooks, waited>>

\* t runs its own code: it may start any call, and interrupts are enabled.
Running(t) == curr = t /\ pc[t] = "user" /\ t # Idle

\* A unit of s passes to t.
Acquire(t, s) ==
    /\ held' = [held EXCEPT ![s] = @ + 1]
    /\ holds' = IF s \in Mutexes THEN [holds EXCEPT ![t] = @ \cup {s}] ELSE holds

-----------------------------------------------------------------------------
(* Semaphores *)

\* Slip: jns to the slow path one unit late.
SemDownLate(t, s, timeout) ==
    /\ Running(t)
    /\ s \in Mutexes => s \notin holds[t]
    /\ s = RecvSem => timeout = 0
    /\ count' = [count EXCEPT ![s] = @ - 1]
    /\ IF count[s] < 0
       THEN /\ pc' = [pc EXCEPT ![t] = "down"]
            /\ arg' = [arg EXCEPT ![t] = s]
            /\ tmo' = [tmo EXCEPT ![t] = timeout]
            /\ UNCHANGED <<holds, held>>
       ELSE /\ Acquire(t, s)
            /\ UNCHANGED <<pc, arg, tmo>>
    /\ NoSchedule /\ UNCHANGED IrqVars

\* sem_down: decl, then js to the slow path.  pxe_receive_thread waits for ever.
SemDown(t, s, timeout) ==
    /\ Running(t)
    /\ s \in Mutexes => s \notin holds[t]
    /\ s = RecvSem => timeout = 0
    /\ count' = [count EXCEPT ![s] = @ - 1]
    /\ IF count[s] - 1 < 0
       THEN /\ pc' = [pc EXCEPT ![t] = "down"]
            /\ arg' = [arg EXCEPT ![t] = s]
            /\ tmo' = [tmo EXCEPT ![t] = timeout]
            /\ UNCHANGED <<holds, held>>
       ELSE /\ Acquire(t, s)
            /\ UNCHANGED <<pc, arg, tmo>>
    /\ NoSchedule /\ UNCHANGED IrqVars

\* __sem_down_slow when the semaphore has been raised since the decl.
SemDownBail(t) ==
    /\ curr = t /\ pc[t] = "down" /\ count[arg[t]] >= 0
    /\ Acquire(t, arg[t])
    /\ pc' = [pc EXCEPT ![t] = "user"]
    /\ arg' = [arg EXCEPT ![t] = NoSem]
    /\ tmo' = [tmo EXCEPT ![t] = 0]
    /\ NoSchedule /\ UNCHANGED <<IrqVars, count>>

\* __sem_down_slow with timeout -1: undo the decl and fail.
SemDownImmediate(t) ==
    /\ curr = t /\ pc[t] = "down" /\ count[arg[t]] < 0 /\ tmo[t] = -1
    /\ count' = [count EXCEPT ![arg[t]] = @ + 1]
    /\ pc' = [pc EXCEPT ![t] = "user"]
    /\ arg' = [arg EXCEPT ![t] = NoSem]
    /\ tmo' = [tmo EXCEPT ![t] = 0]
    /\ NoSchedule /\ UNCHANGED <<IrqVars, holds, held>>

\* __sem_down_slow going to sleep at the end of the semaphore's list.
SemDownBlock(t) ==
    /\ curr = t /\ pc[t] = "down" /\ count[arg[t]] < 0 /\ tmo[t] # -1
    /\ pc' = [pc EXCEPT ![t] = "asleep"]
    /\ LET due == IF tmo[t] = 0 THEN 0 ELSE (now + tmo[t]) % ClockMod
       IN  Schedule(count,
                    [queue EXCEPT ![arg[t]] = Append(@, t)],
                    [blocked EXCEPT ![t] = arg[t]],
                    [deadline EXCEPT ![t] = due],
                    [timedOut EXCEPT ![t] = FALSE],
                    ring, prio, now)
    /\ waited' = [waited EXCEPT ![t] = 0]
    /\ UNCHANGED <<hooks, SemVars>>

\* __sem_down_slow after __schedule() has switched back: sem_down returns.
SemDownReturn(t) ==
    /\ curr = t /\ pc[t] = "asleep"
    /\ pc' = [pc EXCEPT ![t] = "user"]
    /\ arg' = [arg EXCEPT ![t] = NoSem]
    /\ tmo' = [tmo EXCEPT ![t] = 0]
    /\ timedOut' = [timedOut EXCEPT ![t] = FALSE]
    /\ waited' = [waited EXCEPT ![t] = 0]
    /\ UNCHANGED <<ring, curr, prio, blocked, deadline, count, queue, now, last,
                   hooks, holds, held>>

\* Slip: jl in place of jle.
SemUpLess(t, s) ==
    /\ Running(t)
    /\ IF s \in Mutexes THEN s \in holds[t] ELSE count[s] < MaxCount
    /\ count' = [count EXCEPT ![s] = @ + 1]
    /\ held' = [held EXCEPT ![s] = @ - 1]
    /\ holds' = [holds EXCEPT ![t] = @ \ {s}]
    /\ IF count[s] + 1 < 0
       THEN /\ pc' = [pc EXCEPT ![t] = "up"]
            /\ arg' = [arg EXCEPT ![t] = s]
       ELSE UNCHANGED <<pc, arg>>
    /\ NoSchedule /\ UNCHANGED <<IrqVars, tmo>>

\* sem_up: incl, then jle to the slow path.
SemUp(t, s) ==
    /\ Running(t)
    /\ IF s \in Mutexes THEN s \in holds[t] ELSE count[s] < MaxCount
    /\ count' = [count EXCEPT ![s] = @ + 1]
    /\ held' = [held EXCEPT ![s] = @ - 1]
    /\ holds' = [holds EXCEPT ![t] = @ \ {s}]
    /\ IF count[s] + 1 <= 0
       THEN /\ pc' = [pc EXCEPT ![t] = "up"]
            /\ arg' = [arg EXCEPT ![t] = s]
       ELSE UNCHANGED <<pc, arg>>
    /\ NoSchedule /\ UNCHANGED <<IrqVars, tmo>>

\* __sem_up_slow with nobody on the list.
SemUpNobody(t) ==
    /\ curr = t /\ pc[t] = "up" /\ queue[arg[t]] = << >>
    /\ pc' = [pc EXCEPT ![t] = "user"]
    /\ arg' = [arg EXCEPT ![t] = NoSem]
    /\ NoSchedule /\ UNCHANGED <<IrqVars, count, tmo, holds, held>>

\* __sem_up_slow waking the oldest waiter.
SemUpWake(t) ==
    /\ curr = t /\ pc[t] = "up" /\ queue[arg[t]] # << >>
    /\ pc' = [pc EXCEPT ![t] = "user"]
    /\ arg' = [arg EXCEPT ![t] = NoSem]
    /\ LET s == arg[t]
           u == Head(queue[s])
       IN  /\ Acquire(u, s)
           /\ Schedule(count,
                       [queue EXCEPT ![s] = Tail(@)],
                       [blocked EXCEPT ![u] = NoSem],
                       [deadline EXCEPT ![u] = 0],
                       timedOut, ring, prio, now)
    /\ UNCHANGED <<IrqVars, tmo>>

-----------------------------------------------------------------------------
(* Interrupts and the clock *)

\* Interrupts are enabled unless curr is between irq_save and irq_restore.
IrqsOn == pc[curr] \in {"user", "down", "up"}

Ticked == (now + TickMs) % ClockMod

\* `waited' one tick later (bound: ClockMod).
Older ==
    [t \in Threads |->
        IF deadline[t] = 0 \/ waited[t] + TickMs > ClockMod THEN waited[t]
        ELSE waited[t] + TickMs]

\* Slip: the interrupt returns without calling core_pm_hook.
TimerIrqUnhooked ==
    /\ hooks # "none" /\ IrqsOn
    /\ now' = Ticked /\ waited' = Older
    /\ UNCHANGED <<ring, curr, prio, blocked, deadline, timedOut, count, queue,
                   last, hooks, pc, SemVars>>

\* A timer tick: pm_irq with core_pm_hook = __schedule.
TimerIrq ==
    /\ hooks # "none" /\ IrqsOn
    /\ Schedule(count, queue, blocked, deadline, timedOut, ring, prio, Ticked)
    /\ waited' = Older
    /\ UNCHANGED <<hooks, pc, SemVars>>

\* A device interrupt that is not the network card's.
OtherIrq ==
    /\ hooks # "none" /\ IrqsOn
    /\ Schedule(count, queue, blocked, deadline, timedOut, ring, prio, now)
    /\ UNCHANGED <<IrqVars, pc, SemVars>>

\* __schedule when pxe_irq_pending is set: pxe_poll_wakeups also does
\* sem_up(&pxe_receive_thread_sem), whose own __schedule returns at once.
ScheduleRecv ==
    /\ hooks = "both" /\ RecvSem \in Sems /\ count[RecvSem] < MaxCount
    /\ LET s == RecvSem
           w == IF count[s] + 1 <= 0 /\ queue[s] # << >> THEN {Head(queue[s])} ELSE {}
       IN  /\ held' = [held EXCEPT ![s] = @ - 1 + Cardinality(w)]
           /\ Schedule([count EXCEPT ![s] = @ + 1],
                       [queue EXCEPT ![s] = Without(@, w)],
                       [t \in Threads |-> IF t \in w THEN NoSem ELSE blocked[t]],
                       [t \in Threads |-> IF t \in w THEN 0 ELSE deadline[t]],
                       timedOut, ring, prio, now)

\* The network card's interrupt: pxe_isr has set pxe_irq_pending.
RecvIrq ==
    /\ IrqsOn /\ ScheduleRecv
    /\ UNCHANGED <<IrqVars, pc, arg, tmo, holds>>

\* pm_irq with core_pm_hook = core_pm_null_hook: only the clock moves.
UnhookedTick ==
    /\ hooks = "none" /\ IrqsOn
    /\ now' = Ticked /\ waited' = Older
    /\ UNCHANGED <<ring, curr, prio, blocked, deadline, timedOut, count, queue,
                   last, hooks, pc, SemVars>>

\* reset_pxe clears sched_hook_func, then core_pm_hook.
RemoveHook(t) ==
    /\ Running(t) /\ t = Root /\ hooks # "none"
    /\ hooks' = IF hooks = "both" THEN "pm" ELSE "none"
    /\ NoSchedule /\ UNCHANGED <<count, pc, waited, SemVars>>

-----------------------------------------------------------------------------
(* Calls of real-mode code *)

\* core_syscall: t leaves protected mode.  No interrupt reaches __schedule
\* until it is back.
BiosCall(t) ==
    /\ Running(t)
    /\ pc' = [pc EXCEPT ![t] = "bios"]
    /\ NoSchedule /\ UNCHANGED <<IrqVars, count, SemVars>>

\* A timer tick taken in real mode.
BiosTick ==
    /\ pc[curr] = "bios"
    /\ hooks = "both" => (now - last) % ClockMod < BiosMs
    /\ now' = Ticked /\ waited' = Older
    /\ UNCHANGED <<ring, curr, prio, blocked, deadline, timedOut, count, queue,
                   last, hooks, pc, SemVars>>

\* Back in protected mode: core_pm_hook is called before the caller goes on.
BiosReturn(t) ==
    /\ curr = t /\ pc[t] = "bios"
    /\ pc' = [pc EXCEPT ![t] = "user"]
    /\ \/ hooks = "none" /\ NoSchedule /\ UNCHANGED <<count, held>>
       \/ /\ hooks # "none" /\ UNCHANGED held
          /\ Schedule(count, queue, blocked, deadline, timedOut, ring, prio, now)
       \/ ScheduleRecv
    /\ UNCHANGED <<IrqVars, arg, tmo, holds>>

-----------------------------------------------------------------------------
(* Threads *)

\* thread_yield, and the body of the idle thread's loop.
Yield(t) ==
    /\ curr = t /\ pc[t] = "user"
    /\ Schedule(count, queue, blocked, deadline, timedOut, ring, prio, now)
    /\ UNCHANGED <<IrqVars, pc, SemVars>>

\* start_thread once its stacks are allocated: u enters the list after t.
StartThread(t, u) ==
    /\ Running(t) /\ pc[u] = "unborn"
    /\ pc' = [pc EXCEPT ![u] = "user"]
    /\ Schedule(count, queue, blocked, deadline, timedOut, <<u>> \o ring, prio, now)
    /\ UNCHANGED <<IrqVars, SemVars>>

\* kill_thread of another thread.  What u holds, or is about to wait for
\* after its decl, stays taken.
KillThread(t, u) ==
    /\ Running(t) /\ u \in Mortal \ {t}
    /\ pc[u] \in {"user", "down", "asleep", "up"}
    /\ pc' = [pc EXCEPT ![u] = "exit"]
    /\ arg' = [arg EXCEPT ![u] = NoSem]
    /\ tmo' = [tmo EXCEPT ![u] = 0]
    /\ held' = [s \in Sems |-> held[s] + IF pc[u] = "down" /\ arg[u] = s THEN 1 ELSE 0]
    /\ Schedule(Returned(count, blocked, {u}),
                [s \in Sems |-> Without(queue[s], {u})],
                [blocked EXCEPT ![u] = NoSem],
                [deadline EXCEPT ![u] = 0],
                [timedOut EXCEPT ![u] = timedOut[u] \/ blocked[u] # NoSem],
                ring, [prio EXCEPT ![u] = 0], now)
    /\ UNCHANGED <<IrqVars, holds>>

\* __exit_thread: t leaves the list, then frees its stacks, which takes
\* __malloc_semaphore.  If that is not available t sleeps on it off the list
\* and is never scheduled again.
ExitThread(t) ==
    /\ curr = t
    /\ pc[t] = "exit" \/ (Running(t) /\ t \in Mortal /\ holds[t] = {})
    /\ LET r == SubSeq(ring, 1, Len(ring) - 1)
       IN  IF count[MallocSem] > 0
           THEN /\ pc' = [pc EXCEPT ![t] = "dead"]
                /\ Schedule(count, queue, blocked, deadline, timedOut, r, prio, now)
           ELSE /\ pc' = [pc EXCEPT ![t] = "stranded"]
                /\ Schedule([count EXCEPT ![MallocSem] = @ - 1],
                            [queue EXCEPT ![MallocSem] = Append(@, t)],
                            [blocked EXCEPT ![t] = MallocSem],
                            deadline, timedOut, r, prio, now)
    /\ UNCHANGED <<IrqVars, SemVars>>

\* The steps of t inside a semaphore or a BIOS call.
InCall(t) ==
    \/ SemDownBail(t) \/ SemDownImmediate(t) \/ SemDownBlock(t)
    \/ SemDownReturn(t) \/ SemUpNobody(t) \/ SemUpWake(t) \/ BiosReturn(t)

\* The calls t may make.
Call(t) ==
    \/ \E s \in Sems, timeout \in Timeouts : SemDown(t, s, timeout)
    \/ \E s \in Sems : SemUp(t, s)
    \/ Yield(t) \/ BiosCall(t)
    \/ \E u \in Threads : StartThread(t, u) \/ KillThread(t, u)
    \/ RemoveHook(t)

Next ==
    \/ \E t \in Threads : InCall(t) \/ Call(t) \/ ExitThread(t)
    \/ TimerIrq \/ OtherIrq \/ RecvIrq \/ UnhookedTick \/ BiosTick

Spec == Init /\ [][Next]_vars

(***************************************************************************)
(* The timer keeps interrupting (a tick that arrives with interrupts off   *)
(* stays pending in the PIC until they are on again), and curr finishes    *)
(* the call it is in; BIOS calls return.  Nothing makes a thread start     *)
(* another call.                                                           *)
(***************************************************************************)
Fairness ==
    /\ SF_vars(TimerIrq \/ BiosTick)
    /\ \A t \in Threads : WF_vars(InCall(t)) /\ WF_vars(curr = t /\ pc[t] = "exit" /\ ExitThread(t))
-----------------------------------------------------------------------------
(* Properties *)

Runnable(t) == t \in Members(ring) /\ blocked[t] = NoSem

Pending(s)  == {t \in Threads : pc[t] = "down" /\ arg[t] = s}
Raising(s)  == {t \in Threads : pc[t] = "up" /\ arg[t] = s}
Waiters(s)  == {t \in Threads : blocked[t] = s}
Holders(s)  == {t \in Threads : s \in holds[t]}

\* A thread is on a semaphore's list exactly when its `blocked' points there,
\* and only once, whichever of sem_up, a timeout and kill_thread took it off.
QueueBlocked ==
    \A s \in Sems :
        /\ Members(queue[s]) = Waiters(s)
        /\ Len(queue[s]) = Cardinality(Waiters(s))

\* No unit of a semaphore is made or lost: sem->count, the sleepers, the
\* threads between their decl and their irq_save, and the units handed out
\* always add up to the initial count, through bail-outs, timeouts and kills.
UnitsConserved ==
    \A s \in Sems :
        count[s] + Cardinality(Waiters(s)) + Cardinality(Pending(s)) + held[s]
            = InitCount[s]

\* __schedule is called wherever a thread becomes runnable: no runnable thread
\* is ever more urgent than the one that runs.
HighestPriorityRuns ==
    /\ blocked[curr] = NoSem
    /\ \A t \in Threads : Runnable(t) => prio[curr] <= prio[t]

\* __thread_process_timeouts walks the list until it is back at curr, so it
\* must not run in __exit_thread, where curr has left the list.  The __schedule
\* there starts the walk if a tick is unprocessed, and a thread may exit wherever
\* it runs code of its own: there, every tick has been processed already.
TimeoutWalkEnds == hooks = "both" /\ pc[curr] # "bios" => last = now

\* A timed sem_down neither gives up early nor sleeps past its timeout while
\* the hooks are installed, across the wrap of ms_timer (a deadline of 0 is none),
\* except for the rest of a BIOS call the running thread is in.
TimeoutOnTime ==
    \A t \in Threads : pc[t] = "asleep" /\ tmo[t] > 0 =>
        IF timedOut[t] THEN waited[t] >= tmo[t]
        ELSE blocked[t] # NoSem /\ hooks = "both" /\ deadline[t] # 0 /\ pc[curr] # "bios"
                => waited[t] < tmo[t]

\* When no thread is inside sem_down or sem_up, a thread sleeps on a semaphore
\* only if all its units are out: no sem_up went by unseen.
NoLostWakeup ==
    \A s \in Sems :
        Pending(s) = {} /\ Raising(s) = {} /\ Waiters(s) # {}
            => held[s] >= InitCount[s]

\* A timed sem_down ends (sys_arch_sem_wait: "the thread should only be blocked
\* for the specified time"), but for a deadline that falls on the wrap of
\* ms_timer, which __sem_down_slow stores as 0, "no timeout".
TimeoutFiresUnlessZero ==
    \A t \in Threads :
        (blocked[t] # NoSem /\ deadline[t] # 0 /\ hooks = "both")
            ~> (blocked[t] = NoSem \/ hooks # "both")

\* Threads of equal priority take turns: one that stays runnable at the best
\* priority runs again and again while the timer interrupts.
RoundRobin ==
    \A t \in Threads :
        <>[](hooks = "both" /\ Runnable(t) /\ prio[t] <= prio[curr]) => []<>(curr = t)
=============================================================================
