CONSTANTS
    MaxPackets = 2
    Jiffies = 2
    PXEIRQ_MAX = 2
    Word = 4
    Watch = 2
SPECIFICATION Spec
INVARIANT OursOnce
PROPERTY NothingStuck
