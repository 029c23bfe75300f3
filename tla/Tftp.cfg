SPECIFICATION FairSpec
CHECK_DEADLOCK FALSE
CONSTANTS
    FileLens = {0, 1, 3, 5}
    Answers = {"oack", "padded", "data", "error"}
    TFTP_BLOCKSIZE = 2
    OackBlksize = 3
    SerialMod = 3
    Retries = 2
    PXERetry = 1
    Reads = {2}
    Tids = {1, 2}
    Cap = 2
INVARIANTS Delivered EofComplete AckHonest ReceivesIntoBuffer
PROPERTY Finishes
