SPECIFICATION Spec
CONSTANTS
    AllocMayFail = TRUE
    CountsMayLie = FALSE
    Pipelines = {p1, p2, p3}
    Streams = {s1, s2}
    Handles = {h1, h2, h3, h4}
    Sessions = {x1, x2, x3}
    Null = Null
    Absent = Absent
    Local = Local
INVARIANT EveryHandleOwned
SYMMETRY Symmetry
