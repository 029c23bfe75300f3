SPECIFICATION Spec
CONSTANTS
    ADV_LEN = 8
    Tags = {1, 2}
    Bytes = {3, 4}
    Sizes = {0, 1, 2, 3, 4}
INVARIANTS GetsWhatWasSet FailsWhenFull
