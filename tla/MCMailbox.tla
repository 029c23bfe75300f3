----------------------------- MODULE MCMailbox -----------------------------
(* Instances of Mailbox for TLC. *)
EXTENDS Mailbox

CONSTANTS
    recv,   \* "pxe receive", priority -20
    tcpip,  \* the TCP/IP thread, TCPIP_THREAD_PRIO -10
    boot,   \* the boot thread, priority 0
    m1, m2

OfThreads(r, t, b) == [x \in Threads |-> CASE x = recv -> r [] x = tcpip -> t [] x = boot -> b]

Use(posts, fetches) == [prio |-> OfThreads(-20, -10, 0), posts |-> posts, fetches |-> fetches]

\* The mailbox of the TCP/IP thread: the receive thread uses trypost, the boot
\* thread waits for a slot (tcpip.c:184, 312); the TCP/IP thread fetches until
\* its next timeout, or for ever (timers.c:428-431).
Tcpip == Use(OfThreads({-1}, {}, {0}), OfThreads({}, {0, 1}, {}))

\* The recvmbox of a connection: the TCP/IP thread uses trypost and, to drain it,
\* tryfetch (api_msg.c:681); the boot thread fetches, timed for UDP and untimed
\* for TCP (api_lib.c:366).
Recv == Use(OfThreads({}, {-1}, {}), OfThreads({}, {-1}, {0, 1}))

RealUses == {Tcpip, Recv}
=============================================================================
