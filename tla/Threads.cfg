CONSTANTS
    root = root  idle = idle  a = a  b = b  lock = lock  evt = evt
    Root = root  Idle = idle  NoSem = NoSem
    Prio <- MCPrio
    InitCount <- MCInitCount
    MallocSem = lock
    TickMs = 1
    BiosMs = 2
    Threads = {root, idle, a, b}
    Sems = {lock, evt}
    Mutexes = {lock}
    RecvSem = evt
    Timeouts <- MCTimeouts
    ClockMod = 3
    MaxCount = 1
    Mortal = {a}
SPECIFICATION Spec
INVARIANTS QueueBlocked UnitsConserved HighestPriorityRuns TimeoutOnTime TimeoutWalkEnds
