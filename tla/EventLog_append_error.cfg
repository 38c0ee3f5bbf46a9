SPECIFICATION Spec
CONSTANTS
    NodeId = {n1, n2}
    plain = plain
    rich = rich
    small = small
    Attr = {plain, rich}
    Relation = {r}
    EdgeKey = {1, 2, 3, 4, 5, 6}
    Absent = Absent
    RoundTrip <- MCRoundTrip
    Dim = {10000}
    DimOf <- MCDimOf
    DefaultDim = 10000
    Backend = {"sqlite"}
    MaxLog = 3
    MaxEdges = 2
    Faults = {"append_error"}
    NoCall = NoCall
INVARIANTS
    LogAlwaysReplays
