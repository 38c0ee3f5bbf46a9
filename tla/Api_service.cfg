SPECIFICATION Spec
CONSTANTS
    n1 = n1
    n2 = n2
    n3 = n3
    likes = likes
    t1 = t1
    NodeId = {n1, n2, n3}
    Fact <- MCFact
    Thread = {t1}
    MaxLifecycles = 2
    NoRequest = NoRequest
    NotComputed = NotComputed
INVARIANTS  GlobalsAgree CacheWithinGraph
