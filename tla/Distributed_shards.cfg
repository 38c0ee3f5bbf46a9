SPECIFICATION Spec
CONSTANTS
    n1 = n1
    n2 = n2
    n3 = n3
    hot = hot
    cold = cold
    NodeId = {n1, n2, n3}
    Attr = {hot, cold}
    Relation = {r}
    EdgeKey = {1, 2, 3, 4, 5, 6, 7}
    Absent = Absent
    Shard = {0, 1}
    Home <- MCHome
    Score <- MCScore
    MaxEdges = 2
    TopK = 2
INVARIANTS
    MergeIsTopK
    EdgesFoundLocally
PROPERTIES
    ImplementsNodeStore
SYMMETRY MCSymmetry
