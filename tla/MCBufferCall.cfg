SPECIFICATION Spec
CONSTANTS
    Styles <- MCStyles
    FirstCaps <- MCFirstCaps
    Sizes <- MCSizes
    MaxChanges = 2
    Faults = {"status", "count", "alloc"}
INVARIANT BlobLeavesNoTrace
INVARIANT TooSmallOnlyIfGrown
PROPERTY DeliversWholeOrRefuses
