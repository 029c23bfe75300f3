SPECIFICATION FatSpec
CHECK_DEADLOCK FALSE
CONSTANTS
    SectorSize = 4
    Word = 64
    Requests <- MCRequests
    Files <- MCFiles
    MaxExtent = 6
    Faults = TRUE
    Volumes <- MCVolumes
    OtherFiles <- MCOtherFiles
    Clusters = 3
    FatSector = 1
    DataSector = 10
    Entries = 2
    MAXBLOCK = 8
    Counts = {5, 12}
    Kinds = {12, 16, 32}
    Secs = {1, 2}
    Sizes = {9, 18}
INVARIANTS Delivered StreamRight
PROPERTIES Implements Finishes
