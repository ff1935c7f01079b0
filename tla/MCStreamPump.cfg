SPECIFICATION FairSpec
CONSTANTS
    SrcLens <- MCSrcLens
    OutLens <- MCOutLens
    Caps <- MCCaps
    Slice = 2
    Retries = 2
    CapMax = 11
    Faults = {"alloc", "begin", "chain", "count"}
INVARIANT TypeOK
INVARIANT WholeOutput
INVARIANT GrownOnlyIfNeeded
INVARIANT OneSessionAtATime
INVARIANT RejectedOnlyIfTooSmall
PROPERTY Termination
PROPERTY DeliversWholeOrRefuses
