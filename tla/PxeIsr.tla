------------------------------- MODULE PxeIsr -------------------------------
(***************************************************************************)
(* How received packets get from the network card to the receive thread    *)
(* (core/fs/pxe/isr.c, core/pxeisr.inc, undi_transmit of undiif.c): by the *)
(* card's interrupt, or, when that is missing, stuck or not wanted, by the *)
(* polling thread.  The UNDI driver and the interrupt controller are what  *)
(* these files make of them: once an ISR START call has answered "ours",   *)
(* the card is silent until the processing it asks for is done.            *)
(***************************************************************************)
EXTENDS Integers

CONSTANTS
    MaxPackets,     \* packets the card can hold
    Jiffies,        \* clock values told apart; the clock wraps
    PXEIRQ_MAX,     \* spurious interrupts in a tick
    Word,           \* values of the count of them, a machine word
    Watch           \* ticks install_irq_vector watches for

VARIABLES
    wire,           \* packets in the card
    silent,         \* the card has answered "ours" and waits to be processed
    line,           \* how the card is connected: number, flag, works, shared
    vector,         \* the interrupt's handler, "old" or "pxe"
    inService,      \* the interrupt has not been acknowledged
    jiffies, last, deadman,                 \* __jiffies, pxeirq_last, pxeirq_deadman
    pxe_need_poll, pxe_irq_pending, pxe_irq_count,
    recvSem, recv,  \* pxe_receive_thread_sem, and where the receive thread is
    pollSem, poll,  \* pxe_poll_thread_sem, and where the polling thread is
    main,           \* where the main thread is
    elapsed, ok,    \* of install_irq_vector
    first_xmit

card == <<wire, silent, line>>
irq == <<vector, inService, last, deadman>>
flags == <<pxe_need_poll, pxe_irq_pending, pxe_irq_count>>
receiver == <<recvSem, recv>>
poller == <<pollSem, poll>>
install == <<elapsed, ok>>
vars == <<card, irq, jiffies, flags, receiver, poller, main, install, first_xmit>>

OrOne(f) == IF f = 0 THEN 1 ELSE f

\* pxe_init_isr has run: the hook is set and the receive thread started.
Init ==
    /\ wire = 0 /\ silent = FALSE
    /\ line \in [number : BOOLEAN, flag : BOOLEAN, works : BOOLEAN, shared : BOOLEAN]
    /\ vector = "old" /\ inService = FALSE
    /\ jiffies = 0 /\ last = 0 /\ deadman = 0
    /\ pxe_need_poll = 0 /\ pxe_irq_pending = FALSE /\ pxe_irq_count = 0
    /\ recvSem = 0 /\ recv = "down" /\ pollSem = 0 /\ poll = "none"
    /\ main = "init" /\ elapsed = 0 /\ ok = "unset" /\ first_xmit = FALSE

-----------------------------------------------------------------------------
(* The card and the clock *)

Arrive ==
    /\ wire < MaxPackets /\ wire' = wire + 1
    /\ UNCHANGED <<silent, line, irq, jiffies, flags, receiver, poller, main, install, first_xmit>>

\* An interrupt ends the hlt of install_irq_vector.
Awake == main' = IF main = "hlt" THEN "watch" ELSE main

timer_irq ==
    /\ jiffies' = (jiffies + 1) % Jiffies
    /\ elapsed' = IF elapsed < Watch THEN elapsed + 1 ELSE elapsed
    /\ Awake
    /\ UNCHANGED <<card, irq, flags, receiver, poller, ok, first_xmit>>

Asserts == wire > 0 /\ ~silent

\* The UNDI ISR START call; ours says how it is answered.
StartCall(ours) == ours = Asserts /\ silent' = (silent \/ ours) /\ UNCHANGED <<wire, line>>

-----------------------------------------------------------------------------
(* pxe_isr *)

\* Ours is acknowledged here.  pxeirq_last gets the clock with its low byte
\* overwritten, which is any value.
Ours ==
    /\ StartCall(TRUE)
    /\ pxe_irq_pending' = TRUE /\ pxe_irq_count' = 1
    /\ last' \in 0 .. Jiffies - 1 /\ deadman' = PXEIRQ_MAX
    /\ UNCHANGED <<pxe_need_poll, inService>>

\* Not ours goes on to the old handler, until there are too many in one tick:
\* then polling is asked for, and the interrupt is left unacknowledged.
NotUs ==
    /\ StartCall(FALSE) /\ UNCHANGED <<pxe_irq_pending, pxe_irq_count>>
    /\ IF last # jiffies
       THEN last' = jiffies /\ deadman' = PXEIRQ_MAX /\ UNCHANGED <<pxe_need_poll, inService>>
       ELSE /\ deadman' = (deadman - 1) % Word /\ UNCHANGED last
            /\ IF deadman' = 0
               THEN pxe_need_poll' = OrOne(pxe_need_poll) /\ inService' = TRUE
               ELSE UNCHANGED <<pxe_need_poll, inService>>

pxe_isr ==
    /\ vector = "pxe" /\ ~inService
    /\ (line.works /\ Asserts) \/ line.shared
    /\ Ours \/ NotUs
    /\ Awake
    /\ UNCHANGED <<vector, jiffies, receiver, poller, install, first_xmit>>

-----------------------------------------------------------------------------
(* Semaphores with one taker: sem_down's fast path, its slow path, sem_up *)

Down(count, count2, at2, to) ==
    /\ count2 = count - 1
    /\ at2 = IF count2 < 0 THEN "slow" ELSE to

Slow(count, at2, to) == at2 = IF count >= 0 THEN to ELSE "blocked"

Up(at, to) == IF at = "blocked" THEN to ELSE at

-----------------------------------------------------------------------------
(* The scheduler's hook, run on every return from real mode *)

Hooked == main \notin {"reset", "closed", "gone"}

\* Slip: the pending interrupt is not taken back.
WakeupsAgain ==
    /\ Hooked /\ (pxe_need_poll = 1 \/ pxe_irq_pending)
    /\ IF pxe_need_poll = 1
       THEN pxe_need_poll' = 3 /\ pollSem' = pollSem + 1 /\ poll' = Up(poll, "loop")
       ELSE UNCHANGED <<pxe_need_poll, poller>>
    /\ IF pxe_irq_pending
       THEN recvSem' = recvSem + 1 /\ recv' = Up(recv, "process")
       ELSE UNCHANGED receiver
    /\ UNCHANGED <<card, irq, jiffies, pxe_irq_pending, pxe_irq_count, main, install, first_xmit>>

\* Slip: polling is marked active and nobody told.
WakeupsUntold ==
    /\ Hooked /\ (pxe_need_poll = 1 \/ pxe_irq_pending)
    /\ pxe_need_poll' = IF pxe_need_poll = 1 THEN 3 ELSE pxe_need_poll
    /\ pxe_irq_pending' = FALSE
    /\ IF pxe_irq_pending
       THEN recvSem' = recvSem + 1 /\ recv' = Up(recv, "process")
       ELSE UNCHANGED receiver
    /\ UNCHANGED <<card, irq, jiffies, pxe_irq_count, poller, main, install, first_xmit>>

pxe_poll_wakeups ==
    /\ Hooked /\ (pxe_need_poll = 1 \/ pxe_irq_pending)
    /\ IF pxe_need_poll = 1
       THEN pxe_need_poll' = 3 /\ pollSem' = pollSem + 1 /\ poll' = Up(poll, "loop")
       ELSE UNCHANGED <<pxe_need_poll, poller>>
    /\ pxe_irq_pending' = FALSE
    /\ IF pxe_irq_pending
       THEN recvSem' = recvSem + 1 /\ recv' = Up(recv, "process")
       ELSE UNCHANGED receiver
    /\ UNCHANGED <<card, irq, jiffies, pxe_irq_count, main, install, first_xmit>>

-----------------------------------------------------------------------------
(* pxe_receive_thread *)

ReceiveDown ==
    /\ \/ recv = "down" /\ Down(recvSem, recvSem', recv', "process")
       \/ recv = "slow" /\ Slow(recvSem, recv', "process") /\ UNCHANGED recvSem
    /\ UNCHANGED <<card, irq, jiffies, flags, poller, main, install, first_xmit>>

\* pxe_process_irq: an answer of the card is a packet, the end of a
\* transmission, or that it is done; it may be done before it is empty.
GetNext ==
    /\ recv = "process" /\ wire > 0 /\ wire' = wire - 1
    /\ UNCHANGED <<silent, line, irq, jiffies, flags, receiver, poller, main, install, first_xmit>>

Done ==
    /\ recv = "process" /\ recv' = "down" /\ silent' = FALSE
    /\ UNCHANGED <<wire, line, irq, jiffies, flags, recvSem, poller, main, install, first_xmit>>

-----------------------------------------------------------------------------
(* pxe_poll_thread *)

PollDown ==
    /\ \/ poll = "down" /\ Down(pollSem, pollSem', poll', "loop")
       \/ poll = "slow" /\ Slow(pollSem, poll', "loop") /\ UNCHANGED pollSem
    /\ UNCHANGED <<card, irq, jiffies, flags, receiver, main, install, first_xmit>>

\* The call returns through the scheduler, so others run before its answer is
\* looked at.
pxe_isr_poll ==
    /\ poll = "loop" /\ recvSem < 0
    /\ \E ours \in BOOLEAN : StartCall(ours) /\ poll' = IF ours THEN "ours" ELSE "loop"
    /\ UNCHANGED <<irq, jiffies, flags, receiver, pollSem, main, install, first_xmit>>

PollUp ==
    /\ poll = "ours" /\ poll' = "loop"
    /\ recvSem' = recvSem + 1 /\ recv' = Up(recv, "process")
    /\ UNCHANGED <<card, irq, jiffies, flags, pollSem, main, install, first_xmit>>

-----------------------------------------------------------------------------
(* The main thread: pxe_start_isr, undi_transmit, reset_pxe *)

install_irq_vector ==
    /\ main = "init"
    /\ IF line.number /\ pxe_need_poll = 0
       THEN vector' = "pxe" /\ main' = "watch" /\ elapsed' = 0 /\ UNCHANGED ok
       ELSE main' = "poll" /\ ok' = "no" /\ UNCHANGED <<vector, elapsed>>
    /\ UNCHANGED <<card, inService, jiffies, last, deadman, flags, receiver, poller, first_xmit>>

\* ok is only assigned when the clock has not run out at the first look.
WatchForStuck ==
    /\ main = "watch"
    /\ IF elapsed < Watch
       THEN /\ ok' = IF pxe_need_poll = 0 THEN "yes" ELSE "no"
            /\ main' = IF ok' = "yes" THEN "hlt" ELSE "poll"
       ELSE /\ ok' \in IF ok = "unset" THEN {"yes", "no"} ELSE {ok}
            /\ main' = "poll"
    /\ vector' = IF main' = "poll" /\ ok' = "no" THEN "old" ELSE vector
    /\ UNCHANGED <<card, inService, jiffies, last, deadman, flags, receiver, poller, elapsed,
                   first_xmit>>

start_poll_thread ==
    /\ main = "poll" /\ main' = "up" /\ poll' = "down"
    /\ pxe_need_poll' = IF ok = "no" \/ ~line.flag THEN OrOne(pxe_need_poll) ELSE pxe_need_poll
    /\ UNCHANGED <<card, irq, jiffies, pxe_irq_pending, pxe_irq_count, receiver, pollSem,
                   install, first_xmit>>

\* The first transmission starts the wait for an interrupt; a later one, after
\* three seconds without any, asks for polling.
undi_transmit ==
    /\ main = "up" /\ pxe_irq_count = 0
    /\ first_xmit' = TRUE
    /\ IF first_xmit
       THEN pxe_need_poll' = OrOne(pxe_need_poll) /\ pxe_irq_count' = 1
       ELSE UNCHANGED <<pxe_need_poll, pxe_irq_count>>
    /\ UNCHANGED <<card, irq, jiffies, pxe_irq_pending, receiver, poller, main, install>>

\* reset_pxe: kill_thread gives back the unit of a thread asleep.
reset_pxe ==
    /\ \/ /\ main = "up" /\ main' = "reset"
          /\ recvSem' = IF recv = "blocked" THEN recvSem + 1 ELSE recvSem
          /\ recv' = "dead" /\ UNCHANGED <<vector, poll>>
       \/ /\ main = "reset" /\ main' = "closed"
          /\ vector' = "old" /\ UNCHANGED <<receiver, poll>>
       \/ /\ main = "closed" /\ main' = "gone"
          /\ poll' = "dead" /\ UNCHANGED <<vector, receiver>>
    /\ UNCHANGED <<card, inService, jiffies, last, deadman, flags, pollSem, install, first_xmit>>

-----------------------------------------------------------------------------
Threads == ReceiveDown \/ Done \/ PollDown \/ pxe_isr_poll \/ PollUp
           \/ install_irq_vector \/ WatchForStuck \/ start_poll_thread

Next == Arrive \/ timer_irq \/ pxe_isr \/ pxe_poll_wakeups \/ Threads \/ GetNext
        \/ undi_transmit \/ reset_pxe

\* The clock ticks, an interrupt the card keeps asserted is taken, every return
\* from real mode runs the hook, the threads are scheduled, and a client that
\* gets no answer sends again.
Spec ==
    /\ Init /\ [][Next]_vars
    /\ WF_vars(timer_irq) /\ WF_vars(line.works /\ Asserts /\ pxe_isr) /\ WF_vars(pxe_poll_wakeups)
    /\ WF_vars(ReceiveDown) /\ WF_vars(Done) /\ WF_vars(PollDown)
    /\ WF_vars(pxe_isr_poll) /\ WF_vars(PollUp) /\ WF_vars(undi_transmit)
    /\ WF_vars(install_irq_vector) /\ WF_vars(WatchForStuck) /\ WF_vars(start_poll_thread)

-----------------------------------------------------------------------------
(* Properties *)

Count(b) == IF b THEN 1 ELSE 0

\* Rounds of processing on their way: noted by the interrupt, answered to the
\* polling thread, raised on the semaphore and not yet taken, or under way.
Rounds ==
    Count(pxe_irq_pending) + Count(poll = "ours") + Count(recv = "process")
    + recvSem + Count(recv \in {"slow", "blocked"})

\* Every "ours" of the card, whether the interrupt or the polling thread got
\* it, makes the receive thread process it exactly once: none is lost between
\* the flag, the hook and the semaphore, and none is processed twice.
OursOnce == Hooked => Rounds = Count(silent)

\* A packet in the card is eventually looked for, whichever way the card's
\* interrupt is connected and whatever install_irq_vector made of it.  Left
\* out is a card whose interrupt never comes while another device's does: one
\* of those that finds a packet is enough for undi_transmit not to ask for
\* polling any more.
NothingStuck ==
    wire > 0 /\ (line.works \/ ~line.shared) ~> recv = "process" \/ ~Hooked
=============================================================================
