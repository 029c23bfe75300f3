CONSTANTS
    M = 7
    MaxLen = 4
    Short = 2
    Fraglists <- MCFraglists
    Memmaps <- MCMemmaps
SPECIFICATION Spec
CHECK_DEADLOCK FALSE
INVARIANTS ZonesExact MovesRight
PROPERTY RoundsShrink
