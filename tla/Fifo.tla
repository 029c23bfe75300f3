-------------------------------- MODULE Fifo --------------------------------
(***************************************************************************)
(* What a mailbox promises its users (core/include/mbox.h): a bounded      *)
(* first-in first-out queue of messages.  A post either stores its message *)
(* or fails and stores nothing; a fetch takes the oldest message.          *)
(***************************************************************************)
EXTENDS Naturals, Sequences

CONSTANTS Threads, Msgs, NoMsg, Size

VARIABLES
    contents,  \* the messages stored, oldest first
    got        \* the message a thread's latest fetch took, or NoMsg

vars == <<contents, got>>

Init ==
    /\ contents = <<>>
    /\ got = [t \in Threads |-> NoMsg]

Store(m) ==
    /\ Len(contents) < Size
    /\ contents' = Append(contents, m)
    /\ UNCHANGED got

Take(t) ==
    /\ contents # <<>>
    /\ got' = [got EXCEPT ![t] = Head(contents)]
    /\ contents' = Tail(contents)

\* A thread makes its next call and gives up the message it had.
Forget(t) ==
    /\ got' = [got EXCEPT ![t] = NoMsg]
    /\ UNCHANGED contents

Next ==
    \/ \E m \in Msgs : Store(m)
    \/ \E t \in Threads : Take(t) \/ Forget(t)

Spec == Init /\ [][Next]_vars
=============================================================================
