------------------------------ MODULE Mailbox ------------------------------
(***************************************************************************)
(* The thread mailbox (core/thread/mbox.c): a ring of slots guarded by     *)
(* four semaphores.  prod counts empty slots, cons counts full ones, head  *)
(* and tail are the locks of the two ends.                                 *)
(*                                                                         *)
(* The semaphores are those of core/thread/semaphore.c, each call in two   *)
(* steps: the decl or incl, and the slow path with interrupts off.         *)
(* Between the two an interrupt may end a wait or let another thread run.  *)
(* A thread runs while no thread of a higher priority can, which is what   *)
(* Threads shows of the scheduler.                                         *)
(***************************************************************************)
EXTENDS Integers, Sequences

CONSTANTS
    Threads,
    Msgs, NoMsg,
    Size,       \* slots, the size given to mbox_init
    Uses        \* the ways mailboxes are used: the priorities of the threads
                \* (lower runs first), and the timeouts each posts and fetches
                \* with (-1 immediate, 0 forever, 1 timed)

ASSUME MailboxAssumption ==
    /\ Size \in Nat \ {0} /\ NoMsg \notin Msgs
    /\ Uses \subseteq [prio : [Threads -> Int], posts : [Threads -> SUBSET {-1, 0, 1}],
                       fetches : [Threads -> SUBSET {-1, 0, 1}]]

VARIABLES
    use,             \* how this mailbox is used
    count, queue,    \* sem->count and sem->list of the four semaphores
    pc,              \* the statement of mbox_post or mbox_fetch a thread is at
    at,              \* how far it is in that statement's semaphore call
    wait,            \* the timeout of its call
    msg,             \* the message it posts
    got,             \* the message it fetched
    data,            \* mbox->data
    head, tail,      \* mbox->head and mbox->tail, as slot numbers
    first, stored,   \* ghost: the slots that hold a message not yet read
    overtaken        \* ghost: a sem_up has lost its unit before its slow path

semVars == <<count, queue>>
callVars == <<use, wait, msg, got>>
ringVars == <<data, head, tail, first, stored>>
vars == <<use, count, queue, pc, at, wait, msg, got, data, head, tail, first, stored, overtaken>>

Sems == {"prod", "cons", "head", "tail"}
Slots == 0 .. Size - 1

\* The sem_down and sem_up calls of mbox_post and mbox_fetch, and what comes next.
DownAt == [postProd |-> "prod", postHead |-> "head", fetchCons |-> "cons", fetchTail |-> "tail"]
UpAt == [upHead |-> "head", upCons |-> "cons", upTail |-> "tail", upProd |-> "prod"]
After ==
    [postProd |-> "postHead", postHead |-> "write", upHead |-> "upCons", upCons |-> "idle",
     fetchCons |-> "fetchTail", fetchTail |-> "read", upTail |-> "upProd", upProd |-> "idle"]
\* The locks are taken with timeout 0.
Timeout(t) == IF pc[t] \in {"postProd", "fetchCons"} THEN wait[t] ELSE 0

\* mbox_init's four sem_init calls
InitCounts ==
    [s \in Sems |-> CASE s = "prod" -> Size [] s = "cons" -> 0 [] OTHER -> 1]

Init ==
    /\ use \in Uses
    /\ count = InitCounts
    /\ queue = [s \in Sems |-> <<>>]
    /\ pc = [t \in Threads |-> "idle"] /\ at = [t \in Threads |-> "call"]
    /\ wait = [t \in Threads |-> 0]
    /\ msg = [t \in Threads |-> NoMsg] /\ got = [t \in Threads |-> NoMsg]
    /\ data = [i \in Slots |-> NoMsg] /\ head = 0 /\ tail = 0
    /\ first = 0 /\ stored = 0 /\ overtaken = FALSE

\* t runs: threads of higher priority sleep or have nothing to do.
Runs(t) ==
    \A u \in Threads : use.prio[u] < use.prio[t] => pc[u] = "idle" \/ at[u] = "asleep"

Goto(t, place) == pc' = [pc EXCEPT ![t] = place]
GoOn(t) == Goto(t, After[pc[t]]) /\ at' = [at EXCEPT ![t] = "call"]

\* The call fails: sem_down returned -1 and nothing was stored or taken.
Fail(t) == Goto(t, "idle") /\ at' = [at EXCEPT ![t] = "call"]

\* The slot after i; the pointer that reaches mbox->wrap starts over.
Wrap(i) == IF i + 1 = Size THEN 0 ELSE i + 1

----------------------------------------------------------------------------
\* Calling mbox_post and mbox_fetch

MboxPost(t, m, w) ==
    /\ Runs(t) /\ pc[t] = "idle" /\ w \in use.posts[t]
    /\ Goto(t, "postProd")
    /\ msg' = [msg EXCEPT ![t] = m]
    /\ wait' = [wait EXCEPT ![t] = w]
    /\ got' = [got EXCEPT ![t] = NoMsg]
    /\ UNCHANGED <<use, semVars, at, ringVars>>

MboxFetch(t, w) ==
    /\ Runs(t) /\ pc[t] = "idle" /\ w \in use.fetches[t]
    /\ Goto(t, "fetchCons")
    /\ msg' = [msg EXCEPT ![t] = NoMsg]
    /\ wait' = [wait EXCEPT ![t] = w]
    /\ got' = [got EXCEPT ![t] = NoMsg]
    /\ UNCHANGED <<use, semVars, at, ringVars>>

----------------------------------------------------------------------------
\* sem_down

Downing(t, where) == pc[t] \in DOMAIN DownAt /\ at[t] = where /\ Runs(t)

SemDown(t) ==
    /\ Downing(t, "call")
    /\ LET s == DownAt[pc[t]] IN
       /\ count' = [count EXCEPT ![s] = @ - 1]
       /\ IF count[s] - 1 >= 0 THEN GoOn(t)
          ELSE at' = [at EXCEPT ![t] = "slow"] /\ UNCHANGED pc
    /\ UNCHANGED <<queue, callVars, ringVars>>

SemDownBail(t) ==
    /\ Downing(t, "slow") /\ count[DownAt[pc[t]]] >= 0
    /\ GoOn(t)
    /\ UNCHANGED <<semVars, callVars, ringVars>>

SemDownImmediateLeaks(t) ==
    /\ Downing(t, "slow") /\ count[DownAt[pc[t]]] < 0 /\ Timeout(t) = -1
    /\ Fail(t)
    /\ UNCHANGED <<semVars, callVars, ringVars>>

SemDownImmediate(t) ==
    /\ Downing(t, "slow") /\ count[DownAt[pc[t]]] < 0 /\ Timeout(t) = -1
    /\ count' = [count EXCEPT ![DownAt[pc[t]]] = @ + 1]
    /\ Fail(t)
    /\ UNCHANGED <<queue, callVars, ringVars>>

SemDownBlock(t) ==
    /\ Downing(t, "slow") /\ count[DownAt[pc[t]]] < 0 /\ Timeout(t) # -1
    /\ queue' = [queue EXCEPT ![DownAt[pc[t]]] = Append(@, t)]
    /\ at' = [at EXCEPT ![t] = "asleep"]
    /\ UNCHANGED <<count, pc, callVars, ringVars>>

\* __thread_process_timeouts, at any timer interrupt
SemTimeout(t) ==
    /\ pc[t] \in DOMAIN DownAt /\ at[t] = "asleep" /\ Timeout(t) = 1
    /\ LET s == DownAt[pc[t]] IN
       /\ count' = [count EXCEPT ![s] = @ + 1]
       /\ queue' = [queue EXCEPT ![s] = SelectSeq(@, LAMBDA u : u # t)]
    /\ Fail(t)
    /\ UNCHANGED <<callVars, ringVars>>

----------------------------------------------------------------------------
\* sem_up

Upping(t, where) == pc[t] \in DOMAIN UpAt /\ at[t] = where /\ Runs(t)

SemUpForgets(t) ==
    /\ Upping(t, "call")
    /\ LET s == UpAt[pc[t]] IN
       /\ count' = [count EXCEPT ![s] = @ + 1]
       /\ IF count[s] + 1 > (IF s \in {"prod", "cons"} THEN -1 ELSE 0) THEN GoOn(t)
          ELSE at' = [at EXCEPT ![t] = "slow"] /\ UNCHANGED pc
    /\ UNCHANGED <<queue, callVars, ringVars>>

SemUp(t) ==
    /\ Upping(t, "call")
    /\ LET s == UpAt[pc[t]] IN
       /\ count' = [count EXCEPT ![s] = @ + 1]
       /\ IF count[s] + 1 > 0 THEN GoOn(t)
          ELSE at' = [at EXCEPT ![t] = "slow"] /\ UNCHANGED pc
    /\ UNCHANGED <<queue, callVars, ringVars>>

SemUpWake(t) ==
    /\ Upping(t, "slow")
    /\ LET s == UpAt[pc[t]]
           w == Head(queue[s]) IN
       /\ queue[s] # <<>>
       /\ queue' = [queue EXCEPT ![s] = Tail(@)]
       /\ pc' = [pc EXCEPT ![t] = After[@], ![w] = After[@]]
       /\ at' = [at EXCEPT ![t] = "call", ![w] = "call"]
    /\ UNCHANGED <<count, callVars, ringVars>>

SemUpNobody(t) ==
    /\ Upping(t, "slow") /\ queue[UpAt[pc[t]]] = <<>>
    /\ GoOn(t)
    /\ UNCHANGED <<semVars, callVars, ringVars>>

----------------------------------------------------------------------------
\* The two ends of the ring

Step(t, from, to) ==
    /\ Runs(t) /\ pc[t] = from /\ Goto(t, to)
    /\ UNCHANGED <<use, semVars, at, wait, msg>>

WriteNext(t) ==
    /\ Step(t, "write", "advance")
    /\ data' = [data EXCEPT ![Wrap(head)] = msg[t]]
    /\ UNCHANGED <<got, head, tail, first, stored>>

Write(t) ==
    /\ Step(t, "write", "advance")
    /\ data' = [data EXCEPT ![head] = msg[t]]
    /\ UNCHANGED <<got, head, tail, first, stored>>

Advance(t) ==
    /\ Step(t, "advance", "upHead")
    /\ head' = Wrap(head)
    /\ stored' = stored + 1
    /\ UNCHANGED <<got, data, tail, first>>

Read(t) ==
    /\ Step(t, "read", "advanceTail")
    /\ got' = [got EXCEPT ![t] = data[tail]]
    /\ first' = Wrap(first) /\ stored' = stored - 1
    /\ UNCHANGED <<data, head, tail>>

AdvanceTail(t) ==
    /\ Step(t, "advanceTail", "upTail")
    /\ tail' = Wrap(tail)
    /\ UNCHANGED <<got, data, head, first, stored>>

Call(t) ==
    \/ \E m \in Msgs, w \in use.posts[t] : MboxPost(t, m, w)
    \/ \E w \in use.fetches[t] : MboxFetch(t, w)

Go(t) ==
    \/ SemDown(t) \/ SemDownBail(t) \/ SemDownImmediate(t) \/ SemDownBlock(t)
    \/ SemUp(t) \/ SemUpWake(t) \/ SemUpNobody(t)
    \/ Write(t) \/ Advance(t) \/ Read(t) \/ AdvanceTail(t)

\* t takes a unit for which no sem_up has woken it while the slow path of a
\* sem_up on the same semaphore is still to come: that may wake another thread
\* for the same unit.
Overtakes(t) ==
    /\ pc[t] \in DOMAIN DownAt /\ at[t] # "asleep" /\ pc'[t] = After[pc[t]]
    /\ \E u \in Threads :
          pc[u] \in DOMAIN UpAt /\ at[u] = "slow" /\ UpAt[pc[u]] = DownAt[pc[t]]

\* A step that t takes, or that ends its wait.  A mailbox is not followed any
\* further once a sem_up has been overtaken: from then on a fetch may return from
\* an empty ring, and the counts drift.
Watched(t, step) == ~overtaken /\ step /\ overtaken' = Overtakes(t)

Next ==
    \/ \E t \in Threads : Watched(t, Call(t) \/ Go(t) \/ SemTimeout(t))
    \/ overtaken /\ UNCHANGED vars

Spec == Init /\ [][Next]_vars

\* A thread that is not asleep gets to run: the threads above it in priority
\* come to wait for the next packet or timeout.  The fairness is strong, as
\* each packet takes the processor away for a while.
FairSpec == Spec /\ \A t \in Threads : SF_vars(Watched(t, Go(t)))

----------------------------------------------------------------------------
\* Properties

\* The messages in the ring, read from the slots themselves.
Contents == [i \in 1 .. stored |-> data[(first + i - 1) % Size]]

F == INSTANCE Fifo WITH contents <- Contents

\* mbox_post and mbox_fetch behave as a bounded first-in first-out queue: a
\* slot is not written while its message is unread, nor read before it is
\* written, and messages come out in the order they went in, once each.  This
\* lasts until a sem_up is overtaken, which the timed fetches of the TCP/IP
\* thread allow: a fetch that then sleeps on the empty ring is woken for a
\* message already fetched.
IsFifo == F!Spec

\* When no call is in progress the counts say what the ring holds, whatever
\* mixture of failed, timed-out and blocked calls came before, none of which
\* overtook a sem_up: no slot is lost.
CountsAgree ==
    ~overtaken /\ (\A t \in Threads : pc[t] = "idle") =>
        /\ count = [s \in Sems |-> CASE s = "prod" -> Size - stored [] s = "cons" -> stored
                                     [] OTHER -> 1]
        /\ head = (tail + stored) % Size

\* A thread does not sleep on for ever in mbox_fetch while a message is in the
\* ring, nor in mbox_post while a slot is empty, unless a sem_up was overtaken.
NobodyForgotten ==
    \A t \in Threads :
        /\ []<>(pc[t] # "fetchCons" \/ at[t] # "asleep" \/ stored = 0 \/ overtaken)
        /\ []<>(pc[t] # "postProd" \/ at[t] # "asleep" \/ stored = Size \/ overtaken)
=============================================================================
