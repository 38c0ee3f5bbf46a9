----------------------------- MODULE ApiServer -----------------------------
(***************************************************************************)
(* The REST API (src/smgp/integration/api.py) with the MemoryLifecycle and *)
(* the TopologicalAnalyzer behind it: three module globals that are made   *)
(* on first use, replaced one after the other by a prune, and read without *)
(* a lock.                                                                 *)
(*                                                                         *)
(* add_knowledge, query, reason and prune_memory are wrapped in coroutines *)
(* that never await, so the event loop runs each from start to end before  *)
(* the next.  status is a plain function: the framework runs it in threads *)
(* of a pool, and the interpreter may switch to one between any two        *)
(* accesses of shared state.  A step here is one such access.              *)
(***************************************************************************)
EXTENDS Naturals, Sequences, FiniteSets

CONSTANTS
    NodeId,
    Fact,           \* the facts clients may add: [src, dst, rel]
    Thread,         \* the pool threads that may run status
    MaxLifecycles,  \* bound: no prune begins once so many lifecycles exist
    NoRequest,      \* the event loop handles no request
    NotComputed     \* the analyser has no distance matrix yet

Strategy == {"low_persistence", "isolated", "combined"}

Loop == "loop"

Proc == {Loop} \cup Thread

ASSUME ApiAssumption ==
    /\ \A f \in Fact : f.src \in NodeId /\ f.dst \in NodeId
    /\ Loop \notin Thread
    /\ MaxLifecycles \in Nat

Request == [type : {"add"}, fact : Fact]
             \cup [type : {"prune"}, strategy : Strategy \cup {"unknown"}]
             \cup [type : {"query", "reason"}]

ASSUME AbsenceAssumption ==
    /\ NoRequest \notin Request
    /\ \A S \in SUBSET NodeId : NotComputed # S

VARIABLES
    graphs,      \* the SpectralMemoryGraph objects, by creation
    lifecycles,  \* the MemoryLifecycle objects: their graph, and the nodes
                 \* that the rows of the analyser's cached matrix stand for
    gGraph,      \* _graph, _verifier (as its graph) and _lifecycle:
    gVerifier,   \*   an index, or 0 for None
    gLifecycle,
    pc,          \* what each process does next
    next,        \* where it continues when _get_graph returns
    request,     \* the request the event loop handles
    graph,       \* the local variables graph (pruned, in a prune) and
    lifecycle,   \*   lifecycle of each process
    rows,        \* node_vectors in compute_distance_matrix
    reply        \* how the last request ended

\* History variables: no action reads them.
VARIABLES
    acked,       \* the facts acknowledged and not pruned since
    raced        \* a request has tested _graph while another was still
                 \* making the globals

globals == <<gGraph, gVerifier, gLifecycle>>
locals == <<next, request, graph, lifecycle, rows>>
vars == <<graphs, lifecycles, globals, pc, locals, reply, acked, raced>>

EmptyApiGraph == [nodes |-> {}, links |-> {}]

NewLifecycle(g) == [graph |-> g, covers |-> NotComputed]

Init ==
    /\ graphs = <<>> /\ lifecycles = <<>>
    /\ gGraph = 0 /\ gVerifier = 0 /\ gLifecycle = 0
    /\ pc = [p \in Proc |-> "idle"]
    /\ next = [p \in Proc |-> "idle"]
    /\ request = NoRequest
    /\ graph = [p \in Proc |-> 0]
    /\ lifecycle = [p \in Proc |-> 0]
    /\ rows = [p \in Proc |-> {}]
    /\ reply = "ok"
    /\ acked = {}
    /\ raced = FALSE

Goto(p, label) == pc' = [pc EXCEPT ![p] = label]

(* The handler of p returns, or lets an exception out; its locals go.      *)
Finish(p, how) ==
    /\ Goto(p, "idle")
    /\ reply' = how
    /\ request' = IF p = Loop THEN NoRequest ELSE request
    /\ next' = [next EXCEPT ![p] = "idle"]
    /\ graph' = [graph EXCEPT ![p] = 0]
    /\ lifecycle' = [lifecycle EXCEPT ![p] = 0]
    /\ rows' = [rows EXCEPT ![p] = {}]
    /\ raced' = raced

(* Where a handler goes on after its first call of _get_graph.             *)
AfterGetGraph(r) ==
    IF r.type = "add" THEN "add_source"
    ELSE IF r.type = "query" THEN "search"
    ELSE IF r.type = "reason" THEN "verify"
    ELSE "read_lifecycle"

Receive(r) ==
    /\ pc[Loop] = "idle"
    /\ r.type = "prune" => Len(lifecycles) < MaxLifecycles
    /\ request' = r
    /\ next' = [next EXCEPT ![Loop] = AfterGetGraph(r)]
    /\ Goto(Loop, "check")
    /\ UNCHANGED <<graphs, lifecycles, globals, graph, lifecycle, rows,
                   reply, acked, raced>>

ReceiveStatus(t) ==
    /\ pc[t] = "idle"
    /\ next' = [next EXCEPT ![t] = "get_lifecycle"]
    /\ Goto(t, "check")
    /\ UNCHANGED <<graphs, lifecycles, globals, request, graph, lifecycle,
                   rows, reply, acked, raced>>
-----------------------------------------------------------------------------
(* _get_graph, which every handler calls first.                            *)

Making == {"new_graph", "new_verifier", "new_lifecycle"}

CheckGraph(p) ==
    /\ pc[p] = "check"
    /\ Goto(p, IF gGraph = 0 THEN "new_graph" ELSE "return")
    /\ raced' = (raced \/ \E q \in Proc \ {p} : pc[q] \in Making)
    /\ UNCHANGED <<graphs, lifecycles, globals, locals, reply, acked>>

SetNewGraph(p) ==
    /\ pc[p] = "new_graph"
    /\ graphs' = Append(graphs, EmptyApiGraph)
    /\ gGraph' = Len(graphs) + 1
    /\ Goto(p, "new_verifier")
    /\ UNCHANGED <<lifecycles, gVerifier, gLifecycle, locals, reply, acked,
                   raced>>

SetNewVerifier(p) ==
    /\ pc[p] = "new_verifier"
    /\ gVerifier' = gGraph
    /\ Goto(p, "new_lifecycle")
    /\ UNCHANGED <<graphs, lifecycles, gGraph, gLifecycle, locals, reply,
                   acked, raced>>

SetNewLifecycle(p) ==
    /\ pc[p] = "new_lifecycle"
    /\ lifecycles' = Append(lifecycles, NewLifecycle(gGraph))
    /\ gLifecycle' = Len(lifecycles) + 1
    /\ Goto(p, "return")
    /\ UNCHANGED <<graphs, gGraph, gVerifier, locals, reply, acked, raced>>

(* The value is read again; _get_lifecycle and _get_verifier drop it.      *)
ReturnGraph(p) ==
    /\ pc[p] = "return"
    /\ graph' = IF next[p] \in {"read_lifecycle", "verify"} THEN graph
                ELSE [graph EXCEPT ![p] = gGraph]
    /\ Goto(p, next[p])
    /\ UNCHANGED <<graphs, lifecycles, globals, next, request, lifecycle,
                   rows, reply, acked, raced>>
-----------------------------------------------------------------------------
(* add_knowledge.  Only the event loop changes a graph.                    *)

AddNode(g, n) ==
    [graphs EXCEPT ![g] = [nodes |-> graphs[g].nodes \cup {n}, links |-> graphs[g].links]]

AddLink(g, f) ==
    [graphs EXCEPT ![g] = [nodes |-> graphs[g].nodes, links |-> graphs[g].links \cup {f}]]

AddSource ==
    /\ pc[Loop] = "add_source"
    /\ graphs' = AddNode(graph[Loop], request.fact.src)
    /\ Goto(Loop, "add_object")
    /\ UNCHANGED <<lifecycles, globals, locals, reply, acked, raced>>

AddObject ==
    /\ pc[Loop] = "add_object"
    /\ graphs' = AddNode(graph[Loop], request.fact.dst)
    /\ Goto(Loop, "add_edge")
    /\ UNCHANGED <<lifecycles, globals, locals, reply, acked, raced>>

AddEdge ==
    /\ pc[Loop] = "add_edge"
    /\ graphs' = AddLink(graph[Loop], request.fact)
    /\ acked' = acked \cup {request.fact}
    /\ Finish(Loop, "ok")
    /\ UNCHANGED <<lifecycles, globals>>

(* query only reads, and so does reason, but its verifier may be None.     *)
Search ==
    /\ pc[Loop] = "search"
    /\ Finish(Loop, "ok")
    /\ UNCHANGED <<graphs, lifecycles, globals, acked>>

Verify ==
    /\ pc[Loop] = "verify"
    /\ Finish(Loop, IF gVerifier = 0 THEN "none" ELSE "ok")
    /\ UNCHANGED <<graphs, lifecycles, globals, acked>>
-----------------------------------------------------------------------------
(* status and prune_memory both read _lifecycle after a call of _get_graph.*)

GetLifecycle(t) ==
    /\ pc[t] = "get_lifecycle"
    /\ next' = [next EXCEPT ![t] = "read_lifecycle"]
    /\ Goto(t, "check")
    /\ UNCHANGED <<graphs, lifecycles, globals, request, graph, lifecycle,
                   rows, reply, acked, raced>>

(* None has no method evaluate; prune_memory first reads the graph, but    *)
(* None has no method prune either.                                        *)
LifecycleMissing(p) ==
    /\ pc[p] = "read_lifecycle"
    /\ gLifecycle = 0
    /\ Finish(p, "none")
    /\ UNCHANGED <<graphs, lifecycles, globals, acked>>

ReadLifecycle(p) ==
    /\ pc[p] = "read_lifecycle"
    /\ gLifecycle # 0
    /\ lifecycle' = [lifecycle EXCEPT ![p] = gLifecycle]
    /\ IF p = Loop
       THEN /\ next' = [next EXCEPT ![Loop] = "analyse"]
            /\ Goto(Loop, "check")
       ELSE /\ next' = next
            /\ Goto(p, "evaluate")
    /\ UNCHANGED <<graphs, lifecycles, globals, request, graph, rows, reply,
                   acked, raced>>

Cached(p) == lifecycles[lifecycle[p]].covers # NotComputed

Analysed(p) == graphs[lifecycles[lifecycle[p]].graph]

(* evaluate, in a thread: compute_distance_matrix returns its cache, or    *)
(* iterates over the nodes, computes, and fills the cache.                 *)
EvaluateCached(t) ==
    /\ pc[t] = "evaluate"
    /\ Cached(t)
    /\ Goto(t, "report")
    /\ UNCHANGED <<graphs, lifecycles, globals, locals, reply, acked, raced>>

BeginIteration(t) ==
    /\ pc[t] = "evaluate"
    /\ ~Cached(t)
    /\ rows' = [rows EXCEPT ![t] = Analysed(t).nodes]
    /\ Goto(t, "iterating")
    /\ UNCHANGED <<graphs, lifecycles, globals, next, request, graph,
                   lifecycle, reply, acked, raced>>

(* The node dictionary is unchanged when its iterator ends ...             *)
EndIteration(t) ==
    /\ pc[t] = "iterating"
    /\ Analysed(t).nodes = rows[t]
    /\ Goto(t, "fill_cache")
    /\ UNCHANGED <<graphs, lifecycles, globals, locals, reply, acked, raced>>

(* ... or "dictionary changed size during iteration" is raised.            *)
IterationFails(t) ==
    /\ pc[t] = "iterating"
    /\ Analysed(t).nodes # rows[t]
    /\ Finish(t, "resized")
    /\ UNCHANGED <<graphs, lifecycles, globals, acked>>

Fill(l, nodes) ==
    [lifecycles EXCEPT ![l] = [graph |-> lifecycles[l].graph, covers |-> nodes]]

(* Mutant: the cache of the current lifecycle is filled, not of the one    *)
(* whose nodes were read.                                                  *)
FillCurrentCache(t) ==
    /\ pc[t] = "fill_cache"
    /\ lifecycles' = Fill(gLifecycle, rows[t])
    /\ Goto(t, "report")
    /\ UNCHANGED <<graphs, globals, locals, reply, acked, raced>>

FillCache(t) ==
    /\ pc[t] = "fill_cache"
    /\ lifecycles' = Fill(lifecycle[t], rows[t])
    /\ Goto(t, "report")
    /\ UNCHANGED <<graphs, globals, locals, reply, acked, raced>>

Report(t) ==
    /\ pc[t] = "report"
    /\ Finish(t, "ok")
    /\ UNCHANGED <<graphs, lifecycles, globals, acked>>
-----------------------------------------------------------------------------
(* prune_memory after its reads.                                           *)

RejectStrategy ==
    /\ pc[Loop] = "analyse"
    /\ request.strategy = "unknown"
    /\ Finish(Loop, "invalid")
    /\ UNCHANGED <<graphs, lifecycles, globals, acked>>

(* compute_persistence, which fills the cache if no thread has.            *)
Analyse ==
    /\ pc[Loop] = "analyse"
    /\ request.strategy # "unknown"
    /\ lifecycles' =
         IF request.strategy = "isolated" \/ Cached(Loop) THEN lifecycles
         ELSE Fill(lifecycle[Loop], Analysed(Loop).nodes)
    /\ Goto(Loop, "build")
    /\ UNCHANGED <<graphs, globals, locals, reply, acked, raced>>

(* Mutant: a prune re-adds the nodes and forgets the edges.                *)
WithoutEdges(g, removed) == [nodes |-> g.nodes \ removed, links |-> {}]

Without(g, removed) ==
    [nodes |-> g.nodes \ removed,
     links |-> {f \in g.links : f.src \notin removed /\ f.dst \notin removed}]

Isolated(g) == {n \in g.nodes : \A f \in g.links : n # f.src /\ n # f.dst}

(* Which nodes prune_by_persistence may remove: those with no row nearer   *)
(* than 1 (and the threshold).  Being near is symmetric, so one row alone  *)
(* cannot be kept.  The cache is read again, so a thread may have replaced *)
(* it; a node without a row is never removed.                              *)
MayRemove(covers) ==
    {R \in SUBSET covers : Cardinality(covers \ R) # 1}

(* What prune may drop from g: the graph itself comes back only if there is*)
(* too little to compare.                                                  *)
Drops(strategy, g, covers) ==
    CASE strategy = "isolated" -> {Isolated(g)}
      [] strategy = "low_persistence" ->
           IF Cardinality(covers) < 2 THEN {{}} ELSE MayRemove(covers)
      [] strategy = "combined" ->
           {R \cup Isolated(Without(g, R)) :
               R \in IF Cardinality(covers) < 2 THEN {{}}
                     ELSE MayRemove(covers)}

ReturnsSameGraph(strategy, covers) ==
    strategy = "low_persistence" /\ Cardinality(covers) < 2

Build ==
    /\ pc[Loop] = "build"
    /\ LET lc == lifecycles[lifecycle[Loop]]
           old == graphs[lc.graph]
       IN  \E removed \in Drops(request.strategy, old, lc.covers) :
             /\ IF ReturnsSameGraph(request.strategy, lc.covers)
                THEN /\ graphs' = graphs
                     /\ graph' = [graph EXCEPT ![Loop] = lc.graph]
                ELSE /\ graphs' = Append(graphs, Without(old, removed))
                     /\ graph' = [graph EXCEPT ![Loop] = Len(graphs) + 1]
             /\ acked' = {f \in acked : /\ f.src \notin removed
                                        /\ f.dst \notin removed}
    /\ Goto(Loop, "swap_graph")
    /\ UNCHANGED <<lifecycles, globals, next, request, lifecycle, rows,
                   reply, raced>>

SwapGraph ==
    /\ pc[Loop] = "swap_graph"
    /\ gGraph' = graph[Loop]
    /\ Goto(Loop, "swap_verifier")
    /\ UNCHANGED <<graphs, lifecycles, gVerifier, gLifecycle, locals, reply,
                   acked, raced>>

SwapVerifier ==
    /\ pc[Loop] = "swap_verifier"
    /\ gVerifier' = graph[Loop]
    /\ Goto(Loop, "swap_lifecycle")
    /\ UNCHANGED <<graphs, lifecycles, gGraph, gLifecycle, locals, reply,
                   acked, raced>>

(* Mutant: the old lifecycle stays, and prunes the old graph next time.    *)
SwapLifecycleForgotten ==
    /\ pc[Loop] = "swap_lifecycle"
    /\ Finish(Loop, "ok")
    /\ UNCHANGED <<graphs, lifecycles, globals, acked>>

SwapLifecycle ==
    /\ pc[Loop] = "swap_lifecycle"
    /\ lifecycles' = Append(lifecycles, NewLifecycle(graph[Loop]))
    /\ gLifecycle' = Len(lifecycles) + 1
    /\ Finish(Loop, "ok")
    /\ UNCHANGED <<graphs, gGraph, gVerifier, acked>>
-----------------------------------------------------------------------------
GetGraph(p) ==
    \/ CheckGraph(p) \/ SetNewGraph(p) \/ SetNewVerifier(p)
    \/ SetNewLifecycle(p) \/ ReturnGraph(p)

LoopStep ==
    \/ GetGraph(Loop) \/ LifecycleMissing(Loop) \/ ReadLifecycle(Loop)
    \/ AddSource \/ AddObject \/ AddEdge
    \/ Search \/ Verify
    \/ RejectStrategy \/ Analyse \/ Build
    \/ SwapGraph \/ SwapVerifier \/ SwapLifecycle

StatusStep(t) ==
    \/ GetGraph(t) \/ GetLifecycle(t) \/ LifecycleMissing(t)
    \/ ReadLifecycle(t) \/ EvaluateCached(t) \/ BeginIteration(t)
    \/ EndIteration(t) \/ IterationFails(t) \/ FillCache(t) \/ Report(t)

Next ==
    \/ \E r \in Request : Receive(r)
    \/ \E t \in Thread : ReceiveStatus(t)
    \/ LoopStep
    \/ \E t \in Thread : StatusStep(t)

Spec == Init /\ [][Next]_vars
-----------------------------------------------------------------------------
Label ==
    {"idle", "check", "new_graph", "new_verifier", "new_lifecycle", "return",
     "add_source", "add_object", "add_edge", "search", "verify",
     "get_lifecycle", "read_lifecycle", "evaluate", "iterating",
     "fill_cache", "report", "analyse", "build", "swap_graph",
     "swap_verifier", "swap_lifecycle"}

ApiGraph == [nodes : SUBSET NodeId, links : SUBSET Fact]

Lifecycle == [graph : Nat, covers : (SUBSET NodeId) \cup {NotComputed}]

TypeOK ==
    /\ graphs \in Seq(ApiGraph)
    /\ lifecycles \in Seq(Lifecycle)
    /\ {gGraph, gVerifier} \subseteq 0..Len(graphs)
    /\ gLifecycle \in 0..Len(lifecycles)
    /\ pc \in [Proc -> Label] /\ next \in [Proc -> Label]
    /\ request \in Request \cup {NoRequest}
    /\ graph \in [Proc -> 0..Len(graphs)]
    /\ lifecycle \in [Proc -> 0..Len(lifecycles)]
    /\ rows \in [Proc -> SUBSET NodeId]
    /\ reply \in {"ok", "none", "resized", "invalid"}
    /\ acked \subseteq Fact
    /\ raced \in BOOLEAN

(* A fact that add_knowledge acknowledged is in the graph the server uses, *)
(* until a prune removes one of its ends: whatever status threads and      *)
(* prunes do in between, no request works on a graph that is then lost,    *)
(* unless the first requests overlapped.                                   *)
KnowledgeKept ==
    ~raced /\ acked # {} =>
        gGraph # 0 /\ acked \subseteq graphs[gGraph].links

(* When the event loop is between two requests, the three globals belong   *)
(* together: claims are verified against, and prunes start from, the graph *)
(* that knowledge is added to.                                             *)
GlobalsAgree ==
    /\ ~raced /\ gGraph # 0
    /\ pc[Loop] = "idle" /\ \A t \in Thread : pc[t] \notin Making
    => /\ gVerifier = gGraph
       /\ gLifecycle # 0 /\ lifecycles[gLifecycle].graph = gGraph

(* The rows of a cached distance matrix are nodes of the graph it is used  *)
(* for, so that no row index of prune_by_persistence is out of range or    *)
(* names another node, also when the cache was filled by another thread.   *)
CacheWithinGraph ==
    \A i \in 1..Len(lifecycles) :
        LET lc == lifecycles[i]
        IN  lc.covers # NotComputed => lc.covers \subseteq graphs[lc.graph].nodes

-----------------------------------------------------------------------------
(* What the docstrings promise and the code does not do.                   *)

(* api.py:31 "Get or create the global knowledge graph.": KnowledgeKept    *)
(* without its condition, for the first requests too.                      *)
OneKnowledgeGraph ==
    acked # {} => gGraph # 0 /\ acked \subseteq graphs[gGraph].links
=============================================================================
