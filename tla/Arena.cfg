SPECIFICATION Spec
CONSTANTS
    H = 2
    Close = 3
    Sizes = {1, 3, 7}
    LowStart = 2
    LowLen = 9
    FreeHigh = 22
    OneMeg = 20
    MemMax = 60
    Width = 64
    Maps <- MCMaps
INVARIANTS ListsAgree Coalesced AllocationsHold
PROPERTIES HeapInMemory BytesKept
