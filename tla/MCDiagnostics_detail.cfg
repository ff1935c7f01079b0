SPECIFICATION Spec
CONSTANTS
    t1 = t1
    t2 = t2
    Threads = {t1, t2}
    Lengths = {1, 2, 3}
    BufLen = 1
    MaxCalls = 1
    None = None
SYMMETRY Symmetry
INVARIANT ReportNamesOwnCall
