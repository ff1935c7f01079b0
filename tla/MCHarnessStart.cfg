SPECIFICATION Spec
CONSTANTS
    CommandLines <- MCCommandLines
    Numerals <- MCNumerals
    Sizes <- MCSizes
    Durations <- MCDurations
    Caps <- MCCaps
    Profiles <- MCProfiles
    DefaultProfile <- MCDefaultProfile
    Spelling <- MCSpelling
    Runtimes <- MCRuntimes
    Bytes <- MCBytes
    Hashes <- MCHashes
    IntMax = 520
    Int64Max = 549
    MaxWorkers = 4
    Ids = {0, 1, 2, 3}
    Words = 1100
    Stride = 677
    Block = 2
    Random = 256
    FillCipher = "aescmac"
    Handles = {0, 1}
    None = None
    MaxRounds = 3
INVARIANT TypeOK
INVARIANT RawAsMentioned
INVARIANT RuntimeAsReported
INVARIANT LayersNamed
INVARIANT OverridesArrive
INVARIANT FailedStartLeavesNothing
INVARIANT ContentAsPromised
INVARIANT WordsKeepBuffersApart
INVARIANT HandsOver
CHECK_DEADLOCK FALSE
