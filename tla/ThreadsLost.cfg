CONSTANTS
    root = root  idle = idle  a = a  b = b  lock = lock  evt = evt
    Root = root  Idle = idle  NoSem = NoSem
    Prio <- MCPrio
    InitCount <- MCInitCount
    MallocSem = lock
    TickMs = 1
    BiosMs = 1
    Threads = {root, idle, b}
    Sems = {lock}
    Mutexes = {lock}
    RecvSem = NoSem
    Timeouts = {0}
    ClockMod = 4
    MaxCount = 1
    Mortal = {}
SPECIFICATION Spec
INVARIANT NoLostWakeup
