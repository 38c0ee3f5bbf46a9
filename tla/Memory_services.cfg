SPECIFICATION MCSpec
CONSTANTS
    UserId = {a}
    Fed = {f1, f2}
    First = f1
    Scheme = {"sqlite", "neo4j"}
    Source = {s}
    Default = default
    Entity = {e}
    Val = {bare, row}
    Bare = bare
    Backend = {"qdrant", "pinecone", "weaviate"}
    Over = 2
    Batch = 2
    MaxK = 2
    MaxObjects = 3
    None = None
    Thing = {a, b, c, d, g}
    Few = {a, b, c}
    FewFacts = 3
    Roads <- MCRoads
    Rel = {is, r}
    Is = is
    MaxEdges = 5
    Memory = {a, b, c}
    Policy = {"lru", "ttl", "count"}
    Ttl = 0
    MinAccesses = 2
    Uptime = 1
    MaxClock = 2
    MaxTouches = 2
    Pair <- MCPair
    Key = {k1, k2}
    Datum = {v1, v2}
    Capacity = 3
    Free = Free
    ChunkSize = 3
    Overlap = 1
    Override = {0, 2, 6}
    MaxTokens = 9
INVARIANTS  SyncedIsStored SearchFindsSynced
    PathIsShortest  StoredIsFound 
PROPERTY PruneTakesLeastUsed
CHECK_DEADLOCK FALSE
