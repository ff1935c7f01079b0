SPECIFICATION Spec
CONSTANTS
    Workers = {w1, w2, w3}
    Shape = "both"
    Iterations = 2
    RekeyEvery = 1
    BlobCycleEvery = 1
    KeyedLayers = TRUE
    Faults = {"refill", "encrypt", "decrypt", "corrupt", "csprng", "rekey", "load"}
    Keys = {0, 1, 2, 3, 4, 5, 6, 7}
    Handles = {0, 1, 2}
    None = None
INVARIANT HandlesAccounted
INVARIANT RoundTripUnderOneKeying
INVARIANT BlobCarriesLiveMasters
INVARIANT BaselineAfterWarmup
INVARIANT BudgetHonoured
INVARIANT ElapsedStamped
PROPERTY MutationExcludesCalls
SYMMETRY Symmetry
