---------------------------- MODULE PxeIsrProofs ----------------------------
(***************************************************************************)
(* Every answer "ours" of the card is processed exactly once, for any card *)
(* and any values of the constants.                                        *)
(*                                                                         *)
(* The argument: while the hook is installed the rounds on their way are   *)
(* as many as the card waits for, none or one.  This is kept only because  *)
(* no part of the sum is negative: the semaphore's count is below zero     *)
(* just while the receive thread has taken its unit in advance.            *)
(***************************************************************************)
EXTENDS PxeIsr, TLAPS

\* The semaphore's count and the receive thread agree, and the polling thread
\* does not exist before start_poll_thread.
Shape ==
    /\ recvSem \in Int /\ pxe_irq_pending \in BOOLEAN /\ silent \in BOOLEAN
    /\ recv \in {"down", "slow", "blocked", "process"}
    /\ recvSem + Count(recv \in {"slow", "blocked"}) >= 0
    /\ main \in {"init", "watch", "hlt", "poll"} => poll = "none"

Inv == Hooked => Shape /\ Rounds = Count(silent)

\* Raising the semaphore makes one more round of it, and wakes the receive
\* thread only if its unit has been paid for.
LEMMA UpAddsOne ==
    ASSUME Shape, recvSem' = recvSem + 1, recv' = Up(recv, "process")
    PROVE  /\ recvSem' \in Int /\ recv' \in {"down", "slow", "blocked", "process"}
           /\ recvSem' + Count(recv' \in {"slow", "blocked"}) >= 0
           /\ recvSem' + Count(recv' \in {"slow", "blocked"}) + Count(recv' = "process")
              = recvSem + Count(recv \in {"slow", "blocked"}) + Count(recv = "process") + 1
BY DEF Shape, Up, Count

LEMMA InvInit == Init => Inv
<1> SUFFICES ASSUME Init PROVE Shape /\ Rounds = Count(silent)
    BY DEF Inv
<1>1. /\ recvSem = 0 /\ recv = "down" /\ poll = "none"
      /\ pxe_irq_pending = FALSE /\ silent = FALSE
    BY DEF Init
<1>2. Count(pxe_irq_pending) = 0 /\ Count(silent) = 0
    BY <1>1 DEF Count
<1>3. /\ Count(poll = "ours") = 0 /\ Count(recv = "process") = 0
      /\ Count(recv \in {"slow", "blocked"}) = 0
    BY <1>1 DEF Count
<1>4. Rounds = 0
    BY <1>1, <1>2, <1>3 DEF Rounds
<1>5. pxe_irq_pending \in BOOLEAN /\ silent \in BOOLEAN
    BY <1>1
<1> QED BY <1>1, <1>2, <1>3, <1>4, <1>5 DEF Shape

LEMMA HookStays == ASSUME [Next]_vars, Hooked' PROVE Hooked
<1>1. CASE timer_irq \/ pxe_isr
    BY <1>1 DEF timer_irq, pxe_isr, Awake, Hooked
<1>2. CASE Arrive \/ pxe_poll_wakeups \/ GetNext \/ undi_transmit \/ reset_pxe \/ UNCHANGED vars
    BY <1>2 DEF Arrive, pxe_poll_wakeups, GetNext, undi_transmit, reset_pxe, Hooked, vars
<1>3. CASE Threads
    BY <1>3 DEF Threads, ReceiveDown, Done, PollDown, pxe_isr_poll, PollUp, install_irq_vector,
               WatchForStuck, start_poll_thread, Hooked
<1> QED BY <1>1, <1>2, <1>3 DEF Next

LEMMA InvNext == Inv /\ [Next]_vars => Inv'
<1> SUFFICES ASSUME Inv, [Next]_vars, Hooked' PROVE Shape' /\ (Rounds = Count(silent))'
    BY DEF Inv
<1>0. Hooked /\ Shape /\ Rounds = Count(silent)
    BY HookStays DEF Inv
<1> USE DEF Shape
<1>1. CASE Arrive \/ GetNext \/ undi_transmit \/ install_irq_vector \/ UNCHANGED vars
    <2>1. /\ UNCHANGED <<silent, pxe_irq_pending, recvSem, recv, poll>>
          /\ main' \in {"init", "watch", "hlt", "poll"} => main \in {"init", "watch", "hlt", "poll"}
        BY <1>1 DEF Arrive, GetNext, undi_transmit, install_irq_vector, card, receiver, poller,
                    flags, vars
    <2> QED BY <1>0, <2>1 DEF Rounds
<1>2. CASE timer_irq \/ WatchForStuck
    <2>1. /\ UNCHANGED <<silent, pxe_irq_pending, recvSem, recv, poll>>
          /\ main' \in {"init", "watch", "hlt", "poll"} => main \in {"init", "watch", "hlt", "poll"}
        BY <1>2 DEF timer_irq, WatchForStuck, Awake, card, receiver, poller, flags
    <2> QED BY <1>0, <2>1 DEF Rounds
<1>3. CASE pxe_isr
    <2>1. /\ UNCHANGED <<recvSem, recv, poll>>
          /\ main' \in {"init", "watch", "hlt", "poll"} => main \in {"init", "watch", "hlt", "poll"}
        BY <1>3 DEF pxe_isr, Awake, receiver, poller
    <2>2. CASE Ours
        <3>1. ~silent /\ silent' = TRUE /\ pxe_irq_pending' = TRUE
            BY <1>0, <2>2 DEF Ours, StartCall, Asserts
        <3>2. pxe_irq_pending = FALSE
            BY <1>0, <3>1 DEF Rounds, Count
        <3> QED BY <1>0, <2>1, <3>1, <3>2 DEF Rounds, Count
    <2>3. CASE NotUs
        <3>1. silent' = silent /\ pxe_irq_pending' = pxe_irq_pending
            BY <1>0, <2>3 DEF NotUs, StartCall
        <3> QED BY <1>0, <2>1, <3>1 DEF Rounds
    <2> QED BY <1>3, <2>2, <2>3 DEF pxe_isr
<1>4. CASE pxe_poll_wakeups
    <2>1. /\ UNCHANGED <<silent, main>> /\ pxe_irq_pending' = FALSE
          /\ poll' = poll \/ (poll = "blocked" /\ poll' = "loop")
        BY <1>4 DEF pxe_poll_wakeups, card, poller, Up
    <2>2. CASE pxe_irq_pending
        <3>1. recvSem' = recvSem + 1 /\ recv' = Up(recv, "process")
            BY <1>4, <2>2 DEF pxe_poll_wakeups
        <3>2. /\ Count(pxe_irq_pending) = 1 /\ Count(pxe_irq_pending)' = 0
              /\ Count(silent)' = Count(silent)
            BY <2>1, <2>2 DEF Count
        <3>3. Count(poll = "ours")' = Count(poll = "ours") /\ Count(poll = "ours") \in {0, 1}
            BY <2>1 DEF Count
        <3>4. /\ Count(recv = "process") \in {0, 1} /\ Count(recv = "process")' \in {0, 1}
              /\ Count(recv \in {"slow", "blocked"}) \in {0, 1}
              /\ Count(recv \in {"slow", "blocked"})' \in {0, 1}
            BY DEF Count
        <3>5. Shape'
            BY <1>0, <2>1, <3>1, UpAddsOne
        <3> QED BY <1>0, <3>1, <3>2, <3>3, <3>4, <3>5, UpAddsOne DEF Rounds
    <2>3. CASE ~pxe_irq_pending
        <3>1. UNCHANGED <<recvSem, recv>>
            BY <1>4, <2>3 DEF pxe_poll_wakeups, receiver
        <3> QED BY <1>0, <2>1, <2>3, <3>1 DEF Rounds, Count
    <2> QED BY <2>2, <2>3
<1>5. CASE ReceiveDown
    <2>1. UNCHANGED <<silent, pxe_irq_pending, poll, main>>
        BY <1>5 DEF ReceiveDown, card, flags, poller
    <2>2. CASE recv = "down" /\ Down(recvSem, recvSem', recv', "process")
        BY <1>0, <2>1, <2>2 DEF Down, Rounds, Count
    <2>3. CASE recv = "slow" /\ Slow(recvSem, recv', "process") /\ UNCHANGED recvSem
        BY <1>0, <2>1, <2>3 DEF Slow, Rounds, Count
    <2> QED BY <1>5, <2>2, <2>3 DEF ReceiveDown
<1>6. CASE Done
    <2>1. /\ recv = "process" /\ recv' = "down" /\ silent' = FALSE
          /\ UNCHANGED <<pxe_irq_pending, recvSem, poll, main>>
        BY <1>6 DEF Done, flags, poller
    <2>2. /\ Count(recv = "process") = 1 /\ Count(recv = "process")' = 0
          /\ Count(recv \in {"slow", "blocked"}) = 0
          /\ Count(recv \in {"slow", "blocked"})' = 0
        BY <2>1 DEF Count
    <2>3. /\ Count(pxe_irq_pending)' = Count(pxe_irq_pending) /\ Count(silent)' = 0
          /\ Count(pxe_irq_pending) \in {0, 1} /\ Count(silent) \in {0, 1}
        BY <2>1 DEF Count
    <2>4. Count(poll = "ours")' = Count(poll = "ours") /\ Count(poll = "ours") \in {0, 1}
        BY <2>1 DEF Count
    <2>5. (Rounds = Count(silent))'
        BY <1>0, <2>1, <2>2, <2>3, <2>4 DEF Rounds
    <2>6. silent' \in BOOLEAN /\ pxe_irq_pending' \in BOOLEAN
        BY <1>0, <2>1
    <2> QED BY <1>0, <2>1, <2>2, <2>5, <2>6
<1>7. CASE PollDown
    <2>1. /\ UNCHANGED <<silent, pxe_irq_pending, recvSem, recv, main>>
          /\ poll \notin {"none", "ours"} /\ poll' # "ours"
        BY <1>7 DEF PollDown, Down, Slow, card, flags, receiver
    <2> QED BY <1>0, <2>1 DEF Rounds, Count
<1>8. CASE pxe_isr_poll
    <2>1. poll = "loop" /\ UNCHANGED <<pxe_irq_pending, recvSem, recv, main>>
        BY <1>8 DEF pxe_isr_poll, flags, receiver
    <2>2. PICK ours \in BOOLEAN : StartCall(ours) /\ poll' = IF ours THEN "ours" ELSE "loop"
        BY <1>8 DEF pxe_isr_poll
    <2>3. CASE ours
        <3>1. ~silent /\ silent' = TRUE /\ poll' = "ours"
            BY <1>0, <2>2, <2>3 DEF StartCall, Asserts
        <3>2. /\ Count(poll = "ours") = 0 /\ Count(poll = "ours")' = 1
              /\ Count(silent) = 0 /\ Count(silent)' = 1
            BY <2>1, <3>1 DEF Count
        <3>3. /\ Count(pxe_irq_pending)' = Count(pxe_irq_pending)
              /\ Count(recv = "process")' = Count(recv = "process")
              /\ Count(recv \in {"slow", "blocked"})' = Count(recv \in {"slow", "blocked"})
            BY <2>1
        <3>4. /\ Count(pxe_irq_pending) \in {0, 1} /\ Count(recv = "process") \in {0, 1}
              /\ Count(recv \in {"slow", "blocked"}) \in {0, 1}
            BY DEF Count
        <3>5. (Rounds = Count(silent))'
            BY <1>0, <2>1, <3>2, <3>3, <3>4 DEF Rounds
        <3>6. silent' \in BOOLEAN /\ pxe_irq_pending' \in BOOLEAN
            BY <1>0, <2>1, <3>1
        <3>7. main \notin {"init", "watch", "hlt", "poll"}
            BY <1>0, <2>1
        <3> QED BY <1>0, <2>1, <3>3, <3>5, <3>6, <3>7
    <2>4. CASE ~ours
        <3>1. silent' = silent /\ poll' = poll
            BY <1>0, <2>1, <2>2, <2>4 DEF StartCall
        <3> QED BY <1>0, <2>1, <3>1 DEF Rounds
    <2> QED BY <2>3, <2>4
<1>9. CASE PollUp
    <2>1. /\ UNCHANGED <<silent, pxe_irq_pending, main>> /\ poll = "ours" /\ poll' = "loop"
          /\ recvSem' = recvSem + 1 /\ recv' = Up(recv, "process")
        BY <1>9 DEF PollUp, card, flags
    <2> QED BY <1>0, <2>1, UpAddsOne DEF Rounds, Count
<1>10. CASE start_poll_thread
    <2>1. /\ UNCHANGED <<silent, pxe_irq_pending, recvSem, recv>>
          /\ poll = "none" /\ poll' = "down" /\ main' = "up"
        BY <1>0, <1>10 DEF start_poll_thread, card, receiver
    <2> QED BY <1>0, <2>1 DEF Rounds, Count
<1>11. ~reset_pxe
    BY DEF reset_pxe, Hooked
<1> QED BY <1>1, <1>2, <1>3, <1>4, <1>5, <1>6, <1>7, <1>8, <1>9, <1>10, <1>11 DEF Next, Threads

\* Until reset_pxe, every "ours" the card has given, to the interrupt handler or
\* to the polling thread, is on its way to the receive thread or under way,
\* exactly once.
THEOREM ProcessedOnce == Spec => []OursOnce
<1>1. Inv => OursOnce
    BY DEF Inv, OursOnce
<1> QED BY <1>1, InvInit, InvNext, PTL DEF Spec
=============================================================================
