SPECIFICATION FairSpec
CONSTANTS
    NodeId = {n1, n2}
    plain = plain
    rich = rich
    small = small
    Attr = {rich, small, plain}
    Relation = {r}
    EdgeKey = {1, 2, 3, 4, 5, 6}
    Absent = Absent
    RoundTrip <- MCRoundTrip
    Dim = {64, 10000}
    DimOf <- MCDimOf
    DefaultDim = 10000
    Backend = {"jsonl"}
    MaxLog = 3
    MaxEdges = 1
    Faults = {"tear", "append_error", "clear"}
    NoCall = NoCall
INVARIANTS
    CleanLogReplays
PROPERTIES
    RecoveryKeepsWork
    RecoveryNodesExact
    
