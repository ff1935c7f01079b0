SPECIFICATION FairSpec
CONSTANTS
    Workers = {w1, w2}
    Shape = "stream"
    Iterations = 0
    RekeyEvery = 1
    BlobCycleEvery = 2
    KeyedLayers = FALSE
    Faults = {"encrypt", "rekey"}
    Keys = {0, 1, 2, 3, 4, 5}
    Handles = {0, 1, 2}
    None = None
PROPERTY Termination
PROPERTY MaintenanceServed
