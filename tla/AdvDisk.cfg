SPECIFICATION FairSpec
CONSTANTS
    MaxOnce = 2
    Labels = {0, 1}
    MaxCrash = 3
    Faults = TRUE
INVARIANTS SomeCopyGood SaveKept RanOnce
PROPERTY BootGoesOn
