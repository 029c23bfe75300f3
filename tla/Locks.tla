------------------------------- MODULE Locks -------------------------------
(***************************************************************************)
(* What the semaphores of Threads are worth as locks.  Nothing in          *)
(* core/thread keeps an interrupt away from the instructions between the   *)
(* decl of sem_down, or the incl of sem_up, and the irq_save of its slow   *)
(* path (sem_asm.S, semaphore.c), and their callers run with interrupts    *)
(* on.  Two promises of a semaphore do not survive that.  This module adds *)
(* to Threads, whose steps it leaves as they are, a history variable that  *)
(* records where it has happened, and says what is left of each promise.   *)
(***************************************************************************)
EXTENDS Threads

VARIABLE
    cut     \* ghost: <<"down", s>> or <<"up", s>> for each semaphore s that
            \* others have reached inside a sem_down or sem_up of it

lockVars == <<vars, cut>>

\* curr was between its decl or incl and its irq_save and is there still: the
\* step is an interrupt.  It cuts the call if it gave the processor to another
\* thread, or itself raised the semaphore.
Cut ==
    /\ pc[curr] \in {"down", "up"} /\ pc'[curr] = pc[curr]
    /\ curr' # curr \/ held'[arg[curr]] # held[arg[curr]]

LockInit == Init /\ cut = {}
LockNext == Next /\ cut' = cut \cup IF Cut THEN {<<pc[curr], arg[curr]>>} ELSE {}

LockSpec == LockInit /\ [][LockNext]_lockVars
LockFairSpec == LockSpec /\ Fairness

-----------------------------------------------------------------------------
\* A semaphore used as a lock ("Head mutex") never has more holders than units,
\* through bail-outs, timeouts, kills and the hand-over to a sleeper, until an
\* interrupt has cut a sem_up of it: then the slow path may hand to a sleeper a
\* unit that another thread has taken.  Cut sem_downs do no harm.
MutualExclusion ==
    \A s \in Mutexes : <<"up", s>> \notin cut => Cardinality(Holders(s)) <= InitCount[s]

\* A thread sleeps on a semaphore only if all its units are out or a sem_up is
\* about to wake it, until an interrupt has cut a sem_down or a sem_up of it.
\* NoLostWakeup, without that condition, fails.
NoLostWakeupUncut ==
    \A s \in Sems :
        {<<"down", s>>, <<"up", s>>} \cap cut = {} /\ Raising(s) = {} /\ Waiters(s) # {}
            => held[s] >= InitCount[s]
=============================================================================
