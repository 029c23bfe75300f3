----------------------------- MODULE MCThreads -----------------------------
(* Small instances of Threads.  a is more urgent than root and b, as the   *)
(* receive and tcpip threads are; idle is least urgent.                    *)
EXTENDS Threads

CONSTANTS root, idle, a, b, lock, evt

MCPrio == [t \in Threads |-> CASE t = idle -> 3 [] t = a -> 1 [] OTHER -> 2]

\* A lock starts free, an event semaphore starts at 0.
MCInitCount == [s \in Sems |-> IF s = lock THEN 1 ELSE 0]

\* Wait for ever, for one tick, or not at all.
MCTimeouts == {-1, 0, 1}
=============================================================================
