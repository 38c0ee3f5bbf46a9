--------------------------- MODULE ApiServer_proofs ---------------------------
(***************************************************************************)
(* Proofs about ApiServer for every set of facts and threads: knowledge    *)
(* is kept and the globals agree unless the first requests overlapped, and *)
(* cached matrices stay within their graphs whatever happened; and about   *)
(* the RateLimiter that its endpoints sit behind.                          *)
(***************************************************************************)
EXTENDS ApiServer, RateLimiter, SequenceTheorems, FiniteSetTheorems, TLAPS

Calling == {"check", "return"} \cup Making

Adding == {"add_source", "add_object", "add_edge"}

Swapping == {"swap_verifier", "swap_lifecycle"}

Pending(p, label) == pc[p] = label \/ (pc[p] \in Calling /\ next[p] = label)

LoopLabel ==
    {"idle", "search", "verify", "read_lifecycle", "analyse", "build", "swap_graph"}
    \cup Calling \cup Adding \cup Swapping

ThreadLabel ==
    {"idle", "get_lifecycle", "read_lifecycle", "evaluate", "iterating",
     "fill_cache", "report"} \cup Calling

LoopNext == {"add_source", "search", "verify", "read_lifecycle", "analyse"}

ThreadNext == {"get_lifecycle", "read_lifecycle"}

(* Where each process can be and come back to.                             *)
LabelInv ==
    /\ pc[Loop] \in LoopLabel
    /\ pc[Loop] \in Calling => next[Loop] \in LoopNext
    /\ \A t \in Thread : /\ pc[t] \in ThreadLabel
                         /\ pc[t] \in Calling => next[t] \in ThreadNext

AddRequest == [type : {"add"}, fact : Fact]

(* What each process relies on is there.                                   *)
LocalInv ==
    /\ pc[Loop] \in Adding \cup Swapping \cup {"swap_graph"} => graph[Loop] # 0
    /\ Pending(Loop, "analyse") \/ pc[Loop] = "build" => lifecycle[Loop] # 0
    /\ \A t \in Thread :
          pc[t] \in {"evaluate", "iterating", "fill_cache"} => lifecycle[t] # 0
    /\ Pending(Loop, "add_source") \/ pc[Loop] \in Adding => request \in AddRequest

(* Nobody gets further than making the graph before there is one.          *)
MadeInv ==
    gGraph = 0 => /\ acked = {}
                  /\ \A p \in Proc : pc[p] \in {"idle", "check", "new_graph"}
                  /\ ~Pending(Loop, "analyse")

CacheInv ==
    /\ \A i \in 1..Len(lifecycles) : lifecycles[i].graph \in 1..Len(graphs)
    /\ CacheWithinGraph
    /\ \A t \in Thread :
          pc[t] = "fill_cache" =>
             rows[t] \subseteq graphs[lifecycles[lifecycle[t]].graph].nodes

(* While a process makes the globals, the others have not begun.           *)
MakerInv ==
    \A p \in Proc : pc[p] \in Making =>
        /\ \A q \in Proc : q # p => pc[q] \in {"idle", "check"}
        /\ ~Pending(Loop, "analyse")
        /\ pc[p] = "new_graph" => gGraph = 0
        /\ pc[p] = "new_lifecycle" => gVerifier = gGraph

(* The globals once they are made, and between the three swaps.            *)
GlobalsInv ==
    gGraph # 0 /\ (\A p \in Proc : pc[p] \notin Making) =>
        /\ gLifecycle # 0
        /\ pc[Loop] \notin Swapping =>
              gVerifier = gGraph /\ lifecycles[gLifecycle].graph = gGraph
        /\ pc[Loop] = "swap_lifecycle" => gVerifier = gGraph

LoopInv ==
    /\ pc[Loop] \in Adding \cup Swapping => graph[Loop] = gGraph
    /\ Pending(Loop, "analyse") \/ pc[Loop] = "build" => lifecycle[Loop] = gLifecycle

KeptInv ==
    /\ acked # {} => acked \subseteq graphs[gGraph].links
    /\ pc[Loop] = "swap_graph" => acked \subseteq graphs[graph[Loop]].links

SafeInv == LabelInv /\ LocalInv /\ MadeInv /\ CacheInv

SoundInv == ~raced => MakerInv /\ GlobalsInv /\ LoopInv /\ KeptInv

ApiInv == TypeOK /\ SafeInv /\ SoundInv

-----------------------------------------------------------------------------
(* Adding to a graph changes no other graph, and takes nothing away.       *)
LEMMA AddNodeEffect ==
  ASSUME graphs \in Seq(ApiGraph), NEW g \in 1..Len(graphs), NEW n \in NodeId
  PROVE  /\ AddNode(g, n) \in Seq(ApiGraph)
         /\ Len(AddNode(g, n)) = Len(graphs)
         /\ \A i \in 1..Len(graphs) :
               /\ graphs[i].nodes \subseteq AddNode(g, n)[i].nodes
               /\ AddNode(g, n)[i].links = graphs[i].links
<1> DEFINE new == [nodes |-> graphs[g].nodes \cup {n}, links |-> graphs[g].links]
<1>1. graphs[g] \in ApiGraph
  BY ElementOfSeq
<1>2. new \in ApiGraph
  BY <1>1 DEF ApiGraph
<1>3. new.nodes = graphs[g].nodes \cup {n} /\ new.links = graphs[g].links
  OBVIOUS
<1>4. AddNode(g, n) = [graphs EXCEPT ![g] = new]
  BY DEF AddNode
<1> HIDE DEF new
<1> QED
  BY <1>2, <1>3, <1>4, ExceptSeq

LEMMA AddLinkEffect ==
  ASSUME graphs \in Seq(ApiGraph), NEW g \in 1..Len(graphs), NEW f \in Fact
  PROVE  /\ AddLink(g, f) \in Seq(ApiGraph)
         /\ Len(AddLink(g, f)) = Len(graphs)
         /\ \A i \in 1..Len(graphs) :
               /\ AddLink(g, f)[i].nodes = graphs[i].nodes
               /\ graphs[i].links \subseteq AddLink(g, f)[i].links
         /\ f \in AddLink(g, f)[g].links
<1> DEFINE new == [nodes |-> graphs[g].nodes, links |-> graphs[g].links \cup {f}]
<1>1. graphs[g] \in ApiGraph
  BY ElementOfSeq
<1>2. new \in ApiGraph
  BY <1>1 DEF ApiGraph
<1>3. new.links = graphs[g].links \cup {f} /\ new.nodes = graphs[g].nodes
  OBVIOUS
<1>4. AddLink(g, f) = [graphs EXCEPT ![g] = new]
  BY DEF AddLink
<1> HIDE DEF new
<1> QED
  BY <1>2, <1>3, <1>4, ExceptSeq

(* Filling a cache leaves every lifecycle with its graph.                  *)
LEMMA FillEffect ==
  ASSUME lifecycles \in Seq(Lifecycle), NEW l \in 1..Len(lifecycles),
         NEW nodes \in SUBSET NodeId
  PROVE  /\ Fill(l, nodes) \in Seq(Lifecycle)
         /\ Len(Fill(l, nodes)) = Len(lifecycles)
         /\ \A i \in 1..Len(lifecycles) :
               /\ Fill(l, nodes)[i].graph = lifecycles[i].graph
               /\ Fill(l, nodes)[i].covers = IF i = l THEN nodes ELSE lifecycles[i].covers
<1> DEFINE new == [graph |-> lifecycles[l].graph, covers |-> nodes]
<1>1. lifecycles[l] \in Lifecycle
  BY ElementOfSeq
<1>2. new \in Lifecycle
  BY <1>1 DEF Lifecycle
<1>3. new.graph = lifecycles[l].graph /\ new.covers = nodes
  OBVIOUS
<1>4. Fill(l, nodes) = [lifecycles EXCEPT ![l] = new]
  BY DEF Fill
<1> HIDE DEF new
<1> QED
  BY <1>2, <1>3, <1>4, ExceptSeq

(* A new object leaves the others as they were.                            *)
LEMMA NewObject ==
  ASSUME NEW S, NEW s \in Seq(S), NEW e \in S
  PROVE  /\ Append(s, e) \in Seq(S)
         /\ Len(Append(s, e)) = Len(s) + 1
         /\ \A i \in 1..Len(s) : Append(s, e)[i] = s[i]
         /\ Append(s, e)[Len(s) + 1] = e
  OBVIOUS

LEMMA NewLifecycleType ==
  ASSUME NEW g \in Nat
  PROVE  /\ NewLifecycle(g) \in Lifecycle
         /\ NewLifecycle(g).graph = g
         /\ NewLifecycle(g).covers = NotComputed
  BY DEF NewLifecycle, Lifecycle

LEMMA EmptyGraphType ==
  EmptyApiGraph \in ApiGraph
  BY DEF EmptyApiGraph, ApiGraph

LEMMA WithoutEffect ==
  ASSUME NEW g \in ApiGraph, NEW removed
  PROVE  /\ Without(g, removed) \in ApiGraph
         /\ \A f \in g.links :
               f.src \notin removed /\ f.dst \notin removed => f \in Without(g, removed).links
  BY DEF Without, ApiGraph

(* Whoever has got past _get_graph, or has acknowledged a fact, has seen a *)
(* graph.                                                                  *)
LEMMA GraphMade ==
  ASSUME TypeOK, MadeInv, NEW p \in Proc,
         pc[p] \notin {"idle", "check", "new_graph"} \/ acked # {}
  PROVE  gGraph \in 1..Len(graphs)
<1>1. gGraph # 0
  BY DEF MadeInv
<1>2. gGraph \in 0..Len(graphs) /\ Len(graphs) \in Nat
  BY DEF TypeOK
<1> QED
  BY <1>1, <1>2

(* Growing graphs never leave a cached matrix behind.                      *)
LEMMA GrowthKeepsCaches ==
  ASSUME TypeOK, LocalInv, CacheInv, lifecycles' = lifecycles,
         Len(graphs') \in Nat, Len(graphs) <= Len(graphs'),
         \A i \in 1..Len(graphs) : graphs[i].nodes \subseteq graphs'[i].nodes,
         \A t \in Thread : pc'[t] = "fill_cache" =>
             pc[t] = "fill_cache" /\ rows'[t] = rows[t] /\ lifecycle'[t] = lifecycle[t]
  PROVE  CacheInv'
<1> USE DEF CacheInv, CacheWithinGraph
<1>1. \A i \in 1..Len(lifecycles)' : lifecycles'[i].graph \in 1..Len(graphs)'
  BY DEF TypeOK
<1>2. CacheWithinGraph'
  BY DEF TypeOK
<1>3. ASSUME NEW t \in Thread, pc'[t] = "fill_cache"
      PROVE  rows'[t] \subseteq graphs'[lifecycles'[lifecycle'[t]].graph].nodes
  <2>1. lifecycle[t] \in 1..Len(lifecycles)
    BY <1>3, ApiAssumption DEF TypeOK, LocalInv, Proc
  <2> QED
    BY <1>3, <2>1
<1> QED
  BY <1>1, <1>2, <1>3

(* A lifecycle whose cache is filled with nodes of its graph.              *)
LEMMA FillingKeepsCaches ==
  ASSUME TypeOK, LocalInv, CacheInv, graphs' = graphs,
         Len(lifecycles') = Len(lifecycles),
         \A i \in 1..Len(lifecycles) :
             /\ lifecycles'[i].graph = lifecycles[i].graph
             /\ \/ lifecycles'[i].covers = lifecycles[i].covers
                \/ lifecycles'[i].covers \subseteq graphs[lifecycles[i].graph].nodes,
         \A t \in Thread : pc'[t] = "fill_cache" =>
             pc[t] = "fill_cache" /\ rows'[t] = rows[t] /\ lifecycle'[t] = lifecycle[t]
  PROVE  CacheInv'
<1> USE DEF CacheInv, CacheWithinGraph
<1>1. \A i \in 1..Len(lifecycles)' : lifecycles'[i].graph \in 1..Len(graphs)'
  BY DEF TypeOK
<1>2. CacheWithinGraph'
  BY DEF TypeOK
<1>3. ASSUME NEW t \in Thread, pc'[t] = "fill_cache"
      PROVE  rows'[t] \subseteq graphs'[lifecycles'[lifecycle'[t]].graph].nodes
  <2>1. lifecycle[t] \in 1..Len(lifecycles)
    BY <1>3, ApiAssumption DEF TypeOK, LocalInv, Proc
  <2> QED
    BY <1>3, <2>1
<1> QED
  BY <1>1, <1>2, <1>3
-----------------------------------------------------------------------------
USE ApiAssumption DEF Goto, Finish, globals, locals, Proc, Making, Calling, Adding,
    Swapping, Pending

LEMMA ReceiveKeeps ==
  ASSUME ApiInv, NEW r \in Request, Receive(r)
  PROVE  ApiInv'
<1>1. TypeOK' /\ LabelInv'
  BY DEF ApiInv, Receive, TypeOK, Label, LabelInv, SafeInv, LoopNext,
         ThreadNext, AfterGetGraph, LoopLabel, ThreadLabel
<1>2. LocalInv' /\ MadeInv' /\ CacheInv'
  BY DEF ApiInv, Receive, TypeOK, SafeInv, LabelInv, LoopLabel, ThreadLabel,
         LoopNext, ThreadNext, AfterGetGraph, LocalInv, MadeInv, AddRequest,
         Request, CacheInv, CacheWithinGraph
<1>3. SoundInv'
  BY DEF ApiInv, Receive, TypeOK, SafeInv, SoundInv, LabelInv, MadeInv,
         MakerInv, AfterGetGraph, LoopNext, ThreadNext, GlobalsInv, LoopInv,
         CacheInv, LocalInv, KeptInv
<1> QED
  BY <1>1, <1>2, <1>3 DEF ApiInv, SafeInv, SoundInv

LEMMA ReceiveStatusKeeps ==
  ASSUME ApiInv, NEW t \in Thread, ReceiveStatus(t)
  PROVE  ApiInv'
<1>1. TypeOK' /\ LabelInv'
  BY DEF ApiInv, ReceiveStatus, TypeOK, Label, LabelInv, SafeInv, LoopNext,
         ThreadNext, LoopLabel, ThreadLabel
<1>2. LocalInv' /\ MadeInv' /\ CacheInv'
  BY DEF ApiInv, ReceiveStatus, TypeOK, SafeInv, LabelInv, LoopLabel,
         ThreadLabel, LoopNext, ThreadNext, LocalInv, MadeInv, CacheInv,
         CacheWithinGraph
<1>3. SoundInv'
  BY DEF ApiInv, ReceiveStatus, TypeOK, SafeInv, SoundInv, LabelInv, MadeInv,
         MakerInv, LoopNext, ThreadNext, GlobalsInv, LoopInv, CacheInv,
         LocalInv, KeptInv
<1> QED
  BY <1>1, <1>2, <1>3 DEF ApiInv, SafeInv, SoundInv

LEMMA CheckGraphKeeps ==
  ASSUME ApiInv, NEW p \in Proc, CheckGraph(p)
  PROVE  ApiInv'
<1>1. TypeOK' /\ LabelInv'
  BY DEF ApiInv, CheckGraph, TypeOK, Label, LabelInv, SafeInv, LoopLabel,
         ThreadLabel
<1>2. LocalInv' /\ MadeInv' /\ CacheInv'
  BY DEF ApiInv, CheckGraph, TypeOK, SafeInv, LabelInv, LoopLabel, ThreadLabel,
         LocalInv, MadeInv, CacheInv, CacheWithinGraph
<1>3. SoundInv'
  BY DEF ApiInv, CheckGraph, TypeOK, SafeInv, SoundInv, LabelInv, MadeInv,
         MakerInv, GlobalsInv, LoopInv, CacheInv, LocalInv, KeptInv
<1> QED
  BY <1>1, <1>2, <1>3 DEF ApiInv, SafeInv, SoundInv

LEMMA SetNewGraphKeeps ==
  ASSUME ApiInv, NEW p \in Proc, SetNewGraph(p)
  PROVE  ApiInv'
<1>0. /\ graphs' \in Seq(ApiGraph) /\ Len(graphs') = Len(graphs) + 1
      /\ \A i \in 1..Len(graphs) : graphs'[i] = graphs[i]
  <2>1. graphs \in Seq(ApiGraph) /\ graphs' = Append(graphs, EmptyApiGraph)
    BY DEF ApiInv, TypeOK, SetNewGraph
  <2> QED
    BY <2>1, EmptyGraphType, NewObject
<1>1. TypeOK' /\ LabelInv'
  BY <1>0 DEF ApiInv, SetNewGraph, TypeOK, Label, LabelInv, SafeInv, LoopLabel,
              ThreadLabel
<1>2. LocalInv' /\ MadeInv' /\ CacheInv'
  BY <1>0 DEF ApiInv, SetNewGraph, TypeOK, SafeInv, LabelInv, LoopLabel,
              ThreadLabel, LocalInv, MadeInv, CacheInv, CacheWithinGraph
<1>3. (raced' \/ MakerInv') /\ (raced' \/ GlobalsInv')
  BY <1>0 DEF ApiInv, SetNewGraph, TypeOK, SafeInv, SoundInv, LabelInv,
              MadeInv, MakerInv, GlobalsInv, LoopInv, CacheInv
<1>4. (raced' \/ LoopInv') /\ (raced' \/ KeptInv')
  BY <1>0 DEF ApiInv, SetNewGraph, TypeOK, SafeInv, SoundInv, LabelInv,
              MadeInv, MakerInv, LoopInv, LocalInv, KeptInv, GlobalsInv
<1> QED
  BY <1>1, <1>2, <1>3, <1>4 DEF ApiInv, SafeInv, SoundInv

LEMMA SetNewVerifierKeeps ==
  ASSUME ApiInv, NEW p \in Proc, SetNewVerifier(p)
  PROVE  ApiInv'
<1>1. TypeOK' /\ LabelInv'
  BY DEF ApiInv, SetNewVerifier, TypeOK, Label, LabelInv, SafeInv, LoopLabel,
         ThreadLabel
<1>2. LocalInv' /\ MadeInv' /\ CacheInv'
  BY DEF ApiInv, SetNewVerifier, TypeOK, SafeInv, LabelInv, LoopLabel,
         ThreadLabel, LocalInv, MadeInv, CacheInv, CacheWithinGraph
<1>3. (raced' \/ MakerInv') /\ (raced' \/ GlobalsInv')
  BY DEF ApiInv, SetNewVerifier, TypeOK, SafeInv, SoundInv, LabelInv, MadeInv,
         MakerInv, GlobalsInv, LoopInv, CacheInv
<1>4. (raced' \/ LoopInv') /\ (raced' \/ KeptInv')
  BY DEF ApiInv, SetNewVerifier, TypeOK, SafeInv, SoundInv, LabelInv, MadeInv,
         MakerInv, LoopInv, LocalInv, KeptInv, GlobalsInv
<1> QED
  BY <1>1, <1>2, <1>3, <1>4 DEF ApiInv, SafeInv, SoundInv

LEMMA SetNewLifecycleKeeps ==
  ASSUME ApiInv, NEW p \in Proc, SetNewLifecycle(p)
  PROVE  ApiInv'
<1>0. /\ lifecycles' \in Seq(Lifecycle) /\ Len(lifecycles') = Len(lifecycles) + 1
      /\ \A i \in 1..Len(lifecycles) : lifecycles'[i] = lifecycles[i]
      /\ lifecycles'[Len(lifecycles) + 1].graph = gGraph
      /\ lifecycles'[Len(lifecycles) + 1].covers = NotComputed
      /\ gGraph \in 1..Len(graphs)
  <2>1. gGraph \in 1..Len(graphs)
    BY GraphMade DEF ApiInv, SafeInv, SetNewLifecycle
  <2>2. gGraph \in Nat
    BY <2>1
  <2>3. /\ lifecycles \in Seq(Lifecycle)
        /\ lifecycles' = Append(lifecycles, NewLifecycle(gGraph))
    BY DEF ApiInv, TypeOK, SetNewLifecycle
  <2> QED
    BY <2>1, <2>2, <2>3, NewLifecycleType, NewObject
<1>1. TypeOK' /\ LabelInv'
  BY <1>0 DEF ApiInv, SetNewLifecycle, TypeOK, Label, LabelInv, SafeInv,
              LoopLabel, ThreadLabel
<1>2. LocalInv' /\ MadeInv'
  BY <1>0 DEF ApiInv, SetNewLifecycle, TypeOK, SafeInv, LabelInv, LoopLabel,
              ThreadLabel, LocalInv, MadeInv
<1>3. CacheInv'
  BY <1>0, SMTT(20) DEF ApiInv, SetNewLifecycle, TypeOK, SafeInv, CacheInv,
              CacheWithinGraph, LocalInv, LabelInv
<1>4. SoundInv'
  BY <1>0 DEF ApiInv, SetNewLifecycle, TypeOK, SafeInv, SoundInv, LabelInv,
              MadeInv, MakerInv, GlobalsInv, LoopInv, CacheInv, LocalInv,
              KeptInv
<1> QED
  BY <1>1, <1>2, <1>3, <1>4 DEF ApiInv, SafeInv, SoundInv

LEMMA ReturnGraphKeeps ==
  ASSUME ApiInv, NEW p \in Proc, ReturnGraph(p)
  PROVE  ApiInv'
<1>1. TypeOK' /\ LabelInv'
  BY DEF ApiInv, ReturnGraph, TypeOK, Label, LabelInv, SafeInv, LoopNext,
         ThreadNext, LoopLabel, ThreadLabel
<1>2. LocalInv' /\ MadeInv' /\ CacheInv'
  BY DEF ApiInv, ReturnGraph, TypeOK, SafeInv, LabelInv, LoopLabel,
         ThreadLabel, LoopNext, ThreadNext, LocalInv, MadeInv, AddRequest,
         CacheInv, CacheWithinGraph
<1>3. SoundInv'
  BY DEF ApiInv, ReturnGraph, TypeOK, SafeInv, SoundInv, LabelInv, MadeInv,
         MakerInv, LoopNext, ThreadNext, GlobalsInv, LoopInv, CacheInv,
         LocalInv, KeptInv
<1> QED
  BY <1>1, <1>2, <1>3 DEF ApiInv, SafeInv, SoundInv

LEMMA AddSourceKeeps ==
  ASSUME ApiInv, AddSource
  PROVE  ApiInv'
<1>0. /\ graphs' \in Seq(ApiGraph) /\ Len(graphs') = Len(graphs)
      /\ \A i \in 1..Len(graphs) : /\ graphs[i].nodes \subseteq graphs'[i].nodes
                                    /\ graphs[i].links \subseteq graphs'[i].links
  <2>1. graph[Loop] \in 1..Len(graphs) /\ request.fact.src \in NodeId
    BY DEF ApiInv, TypeOK, SafeInv, LocalInv, AddRequest, AddSource
  <2>2. graphs \in Seq(ApiGraph) /\ graphs' = AddNode(graph[Loop], request.fact.src)
    BY DEF ApiInv, TypeOK, AddSource
  <2> QED
    BY <2>1, <2>2, AddNodeEffect
<1>1. TypeOK' /\ LabelInv'
  BY <1>0 DEF ApiInv, AddSource, TypeOK, Label, LabelInv, SafeInv, LoopLabel,
              ThreadLabel
<1>2. LocalInv' /\ MadeInv'
  BY <1>0 DEF ApiInv, AddSource, TypeOK, SafeInv, LabelInv, LoopLabel,
              ThreadLabel, LocalInv, MadeInv
<1>3. CacheInv'
  <2>1. \A t \in Thread : pc'[t] = "fill_cache" =>
           pc[t] = "fill_cache" /\ rows'[t] = rows[t] /\ lifecycle'[t] = lifecycle[t]
    BY DEF ApiInv, TypeOK, AddSource
  <2>2. UNCHANGED lifecycles
    BY DEF AddSource
  <2> QED
    BY <1>0, <2>1, <2>2, GrowthKeepsCaches DEF ApiInv, SafeInv, TypeOK
<1>4. (raced' \/ MakerInv') /\ (raced' \/ GlobalsInv')
  BY <1>0 DEF ApiInv, AddSource, TypeOK, SafeInv, SoundInv, LabelInv, MadeInv,
              MakerInv, GlobalsInv, LoopInv, CacheInv
<1>5. raced' \/ LoopInv'
  BY <1>0 DEF ApiInv, AddSource, TypeOK, SafeInv, SoundInv, LabelInv, MadeInv,
              MakerInv, LoopInv
<1>6. raced' \/ KeptInv'
  <2>1. acked # {} => gGraph \in 1..Len(graphs)
    BY GraphMade DEF ApiInv, SafeInv
  <2> QED
    BY <1>0, <2>1 DEF ApiInv, TypeOK, SoundInv, KeptInv, AddSource
<1> QED
  BY <1>1, <1>2, <1>3, <1>4, <1>5, <1>6 DEF ApiInv, SafeInv, SoundInv

LEMMA AddObjectKeeps ==
  ASSUME ApiInv, AddObject
  PROVE  ApiInv'
<1>0. /\ graphs' \in Seq(ApiGraph) /\ Len(graphs') = Len(graphs)
      /\ \A i \in 1..Len(graphs) : /\ graphs[i].nodes \subseteq graphs'[i].nodes
                                    /\ graphs[i].links \subseteq graphs'[i].links
  <2>1. graph[Loop] \in 1..Len(graphs) /\ request.fact.dst \in NodeId
    BY DEF ApiInv, TypeOK, SafeInv, LocalInv, AddRequest, AddObject
  <2>2. graphs \in Seq(ApiGraph) /\ graphs' = AddNode(graph[Loop], request.fact.dst)
    BY DEF ApiInv, TypeOK, AddObject
  <2> QED
    BY <2>1, <2>2, AddNodeEffect
<1>1. TypeOK' /\ LabelInv'
  BY <1>0 DEF ApiInv, AddObject, TypeOK, Label, LabelInv, SafeInv, LoopLabel,
              ThreadLabel
<1>2. LocalInv' /\ MadeInv'
  BY <1>0 DEF ApiInv, AddObject, TypeOK, SafeInv, LabelInv, LoopLabel,
              ThreadLabel, LocalInv, MadeInv
<1>3. CacheInv'
  <2>1. \A t \in Thread : pc'[t] = "fill_cache" =>
           pc[t] = "fill_cache" /\ rows'[t] = rows[t] /\ lifecycle'[t] = lifecycle[t]
    BY DEF ApiInv, TypeOK, AddObject
  <2>2. UNCHANGED lifecycles
    BY DEF AddObject
  <2> QED
    BY <1>0, <2>1, <2>2, GrowthKeepsCaches DEF ApiInv, SafeInv, TypeOK
<1>4. (raced' \/ MakerInv') /\ (raced' \/ GlobalsInv')
  BY <1>0 DEF ApiInv, AddObject, TypeOK, SafeInv, SoundInv, LabelInv, MadeInv,
              MakerInv, GlobalsInv, LoopInv, CacheInv
<1>5. raced' \/ LoopInv'
  BY <1>0 DEF ApiInv, AddObject, TypeOK, SafeInv, SoundInv, LabelInv, MadeInv,
              MakerInv, LoopInv
<1>6. raced' \/ KeptInv'
  <2>1. acked # {} => gGraph \in 1..Len(graphs)
    BY GraphMade DEF ApiInv, SafeInv
  <2> QED
    BY <1>0, <2>1 DEF ApiInv, TypeOK, SoundInv, KeptInv, AddObject
<1> QED
  BY <1>1, <1>2, <1>3, <1>4, <1>5, <1>6 DEF ApiInv, SafeInv, SoundInv

LEMMA AddEdgeKeeps ==
  ASSUME ApiInv, AddEdge
  PROVE  ApiInv'
<1>0. /\ graphs' \in Seq(ApiGraph) /\ Len(graphs') = Len(graphs)
      /\ \A i \in 1..Len(graphs) : /\ graphs[i].nodes \subseteq graphs'[i].nodes
                                    /\ graphs[i].links \subseteq graphs'[i].links
      /\ request.fact \in Fact
      /\ request.fact \in graphs'[graph[Loop]].links
  <2>1. graph[Loop] \in 1..Len(graphs) /\ request.fact \in Fact
    BY DEF ApiInv, TypeOK, SafeInv, LocalInv, AddRequest, AddEdge
  <2>2. graphs \in Seq(ApiGraph) /\ graphs' = AddLink(graph[Loop], request.fact)
    BY DEF ApiInv, TypeOK, AddEdge
  <2> QED
    BY <2>1, <2>2, AddLinkEffect
<1>1. TypeOK' /\ LabelInv'
  BY <1>0 DEF ApiInv, AddEdge, TypeOK, Label, LabelInv, SafeInv, LoopLabel,
              ThreadLabel
<1>2. LocalInv' /\ MadeInv'
  BY <1>0 DEF ApiInv, AddEdge, TypeOK, SafeInv, LabelInv, LoopLabel,
              ThreadLabel, LocalInv, MadeInv
<1>3. CacheInv'
  <2>1. \A t \in Thread : pc'[t] = "fill_cache" =>
           pc[t] = "fill_cache" /\ rows'[t] = rows[t] /\ lifecycle'[t] = lifecycle[t]
    BY DEF ApiInv, TypeOK, AddEdge
  <2>2. UNCHANGED lifecycles
    BY DEF AddEdge
  <2> QED
    BY <1>0, <2>1, <2>2, GrowthKeepsCaches DEF ApiInv, SafeInv, TypeOK
<1>4. (raced' \/ MakerInv') /\ (raced' \/ GlobalsInv')
  BY <1>0 DEF ApiInv, AddEdge, TypeOK, SafeInv, SoundInv, LabelInv, MadeInv,
              MakerInv, GlobalsInv, LoopInv, CacheInv
<1>5. raced' \/ LoopInv'
  BY <1>0 DEF ApiInv, AddEdge, TypeOK, SafeInv, SoundInv, LabelInv, MadeInv,
              MakerInv, LoopInv
<1>6. raced' \/ KeptInv'
  <2>1. SUFFICES ASSUME ~raced'
                 PROVE  KeptInv'
    OBVIOUS
  <2>2. ~raced /\ pc[Loop] = "add_edge" /\ gGraph' = gGraph /\ pc'[Loop] = "idle"
    BY <2>1 DEF ApiInv, TypeOK, AddEdge
  <2>3. gGraph \in 1..Len(graphs)
    BY <2>2, GraphMade DEF ApiInv, SafeInv
  <2>m. graph[Loop] = gGraph
    BY <2>2 DEF ApiInv, SoundInv, LoopInv
  <2>4. acked \subseteq graphs[gGraph].links
    BY <2>2 DEF ApiInv, SoundInv, KeptInv
  <2>5. acked' = acked \cup {request.fact}
    BY DEF AddEdge
  <2> QED
    BY <1>0, <2>2, <2>3, <2>m, <2>4, <2>5 DEF KeptInv
<1> QED
  BY <1>1, <1>2, <1>3, <1>4, <1>5, <1>6 DEF ApiInv, SafeInv, SoundInv

LEMMA SearchKeeps ==
  ASSUME ApiInv, Search
  PROVE  ApiInv'
<1>1. TypeOK' /\ LabelInv'
  BY DEF ApiInv, Search, TypeOK, Label, LabelInv, SafeInv, LoopLabel,
         ThreadLabel
<1>2. LocalInv' /\ MadeInv' /\ CacheInv'
  BY DEF ApiInv, Search, TypeOK, SafeInv, LabelInv, LoopLabel, ThreadLabel,
         LocalInv, MadeInv, CacheInv, CacheWithinGraph
<1>3. SoundInv'
  BY DEF ApiInv, Search, TypeOK, SafeInv, SoundInv, LabelInv, MadeInv,
         MakerInv, GlobalsInv, LoopInv, CacheInv, LocalInv, KeptInv
<1> QED
  BY <1>1, <1>2, <1>3 DEF ApiInv, SafeInv, SoundInv

LEMMA VerifyKeeps ==
  ASSUME ApiInv, Verify
  PROVE  ApiInv'
<1>1. TypeOK' /\ LabelInv'
  BY DEF ApiInv, Verify, TypeOK, Label, LabelInv, SafeInv, LoopLabel,
         ThreadLabel
<1>2. LocalInv' /\ MadeInv' /\ CacheInv'
  BY DEF ApiInv, Verify, TypeOK, SafeInv, LabelInv, LoopLabel, ThreadLabel,
         LocalInv, MadeInv, CacheInv, CacheWithinGraph
<1>3. SoundInv'
  BY DEF ApiInv, Verify, TypeOK, SafeInv, SoundInv, LabelInv, MadeInv,
         MakerInv, GlobalsInv, LoopInv, CacheInv, LocalInv, KeptInv
<1> QED
  BY <1>1, <1>2, <1>3 DEF ApiInv, SafeInv, SoundInv

LEMMA GetLifecycleKeeps ==
  ASSUME ApiInv, NEW t \in Thread, GetLifecycle(t)
  PROVE  ApiInv'
<1>1. TypeOK' /\ LabelInv'
  BY DEF ApiInv, GetLifecycle, TypeOK, Label, LabelInv, SafeInv, LoopNext,
         ThreadNext, LoopLabel, ThreadLabel
<1>2. LocalInv' /\ MadeInv' /\ CacheInv'
  BY DEF ApiInv, GetLifecycle, TypeOK, SafeInv, LabelInv, LoopLabel,
         ThreadLabel, LoopNext, ThreadNext, LocalInv, MadeInv, CacheInv,
         CacheWithinGraph
<1>3. SoundInv'
  BY DEF ApiInv, GetLifecycle, TypeOK, SafeInv, SoundInv, LabelInv, MadeInv,
         MakerInv, LoopNext, ThreadNext, GlobalsInv, LoopInv, CacheInv,
         LocalInv, KeptInv
<1> QED
  BY <1>1, <1>2, <1>3 DEF ApiInv, SafeInv, SoundInv

LEMMA LifecycleMissingKeeps ==
  ASSUME ApiInv, NEW p \in Proc, LifecycleMissing(p)
  PROVE  ApiInv'
<1>1. TypeOK' /\ LabelInv'
  BY DEF ApiInv, LifecycleMissing, TypeOK, Label, LabelInv, SafeInv, LoopLabel,
         ThreadLabel
<1>2. LocalInv' /\ MadeInv' /\ CacheInv'
  BY DEF ApiInv, LifecycleMissing, TypeOK, SafeInv, LabelInv, LoopLabel,
         ThreadLabel, LocalInv, MadeInv, CacheInv, CacheWithinGraph
<1>3. SoundInv'
  BY DEF ApiInv, LifecycleMissing, TypeOK, SafeInv, SoundInv, LabelInv,
         MadeInv, MakerInv, GlobalsInv, LoopInv, CacheInv, LocalInv, KeptInv
<1> QED
  BY <1>1, <1>2, <1>3 DEF ApiInv, SafeInv, SoundInv

LEMMA ReadLifecycleKeeps ==
  ASSUME ApiInv, NEW p \in Proc, ReadLifecycle(p)
  PROVE  ApiInv'
<1>1. TypeOK'
  BY DEF ApiInv, ReadLifecycle, TypeOK, Label, LabelInv, SafeInv, LoopNext,
         ThreadNext
<1>2. LabelInv'
  BY DEF ApiInv, ReadLifecycle, TypeOK, SafeInv, LabelInv, LoopLabel,
         ThreadLabel, LoopNext, ThreadNext
<1>3. LocalInv' /\ MadeInv' /\ CacheInv'
  BY SMTT(20) DEF ApiInv, ReadLifecycle, TypeOK, SafeInv, LabelInv, LoopLabel,
                  ThreadLabel, LoopNext, ThreadNext, LocalInv, MadeInv,
                  CacheInv, CacheWithinGraph
<1>4. raced' \/ MakerInv'
  BY DEF ApiInv, ReadLifecycle, TypeOK, SafeInv, SoundInv, LabelInv, MadeInv,
         MakerInv, LoopNext, ThreadNext
<1>5. raced' \/ GlobalsInv'
  BY DEF ApiInv, ReadLifecycle, TypeOK, SafeInv, SoundInv, LabelInv, MadeInv,
         MakerInv, GlobalsInv, LoopInv, CacheInv, LoopNext, ThreadNext
<1>6. raced' \/ LoopInv'
  BY DEF ApiInv, ReadLifecycle, TypeOK, SafeInv, SoundInv, LabelInv, MadeInv,
         MakerInv, LoopInv, LoopNext, ThreadNext
<1>7. raced' \/ KeptInv'
  BY DEF ApiInv, ReadLifecycle, TypeOK, SafeInv, SoundInv, LabelInv, MadeInv,
         LocalInv, KeptInv, LoopInv, GlobalsInv, MakerInv, LoopNext, ThreadNext
<1> QED
  BY <1>1, <1>2, <1>3, <1>4, <1>5, <1>6, <1>7 DEF ApiInv, SafeInv, SoundInv

LEMMA EvaluateCachedKeeps ==
  ASSUME ApiInv, NEW t \in Thread, EvaluateCached(t)
  PROVE  ApiInv'
<1>1. TypeOK' /\ LabelInv'
  BY DEF ApiInv, EvaluateCached, TypeOK, Label, LabelInv, SafeInv, LoopLabel,
         ThreadLabel
<1>2. LocalInv' /\ MadeInv' /\ CacheInv'
  BY DEF ApiInv, EvaluateCached, TypeOK, SafeInv, LabelInv, LoopLabel,
         ThreadLabel, LocalInv, MadeInv, CacheInv, CacheWithinGraph
<1>3. SoundInv'
  BY DEF ApiInv, EvaluateCached, TypeOK, SafeInv, SoundInv, LabelInv, MadeInv,
         MakerInv, GlobalsInv, LoopInv, CacheInv, LocalInv, KeptInv
<1> QED
  BY <1>1, <1>2, <1>3 DEF ApiInv, SafeInv, SoundInv

LEMMA BeginIterationKeeps ==
  ASSUME ApiInv, NEW t \in Thread, BeginIteration(t)
  PROVE  ApiInv'
<1>1. TypeOK'
  <2>1. lifecycles[lifecycle[t]].graph \in 1..Len(graphs)
    BY DEF ApiInv, TypeOK, SafeInv, LocalInv, CacheInv, BeginIteration
  <2>2. graphs[lifecycles[lifecycle[t]].graph] \in ApiGraph
    BY <2>1, ElementOfSeq DEF ApiInv, TypeOK
  <2>3. Analysed(t).nodes \in SUBSET NodeId
    BY <2>2 DEF Analysed, ApiGraph
  <2> QED
    BY <2>3 DEF ApiInv, BeginIteration, TypeOK, Label
<1>2. LabelInv'
  BY DEF ApiInv, BeginIteration, TypeOK, SafeInv, LabelInv, LoopLabel,
         ThreadLabel
<1>3. LocalInv' /\ MadeInv' /\ CacheInv'
  BY DEF ApiInv, BeginIteration, TypeOK, SafeInv, LabelInv, LoopLabel,
         ThreadLabel, LocalInv, MadeInv, CacheInv, CacheWithinGraph
<1>4. SoundInv'
  BY DEF ApiInv, BeginIteration, TypeOK, SafeInv, SoundInv, LabelInv, MadeInv,
         MakerInv, GlobalsInv, LoopInv, CacheInv, LocalInv, KeptInv
<1> QED
  BY <1>1, <1>2, <1>3, <1>4 DEF ApiInv, SafeInv, SoundInv

LEMMA EndIterationKeeps ==
  ASSUME ApiInv, NEW t \in Thread, EndIteration(t)
  PROVE  ApiInv'
<1>1. TypeOK' /\ LabelInv'
  BY DEF ApiInv, EndIteration, TypeOK, Label, LabelInv, SafeInv, LoopLabel,
         ThreadLabel
<1>2. LocalInv' /\ MadeInv' /\ CacheInv'
  BY DEF ApiInv, EndIteration, TypeOK, SafeInv, LabelInv, LoopLabel,
         ThreadLabel, LocalInv, MadeInv, CacheInv, CacheWithinGraph, Analysed
<1>3. SoundInv'
  BY DEF ApiInv, EndIteration, TypeOK, SafeInv, SoundInv, LabelInv, MadeInv,
         MakerInv, GlobalsInv, LoopInv, CacheInv, LocalInv, KeptInv
<1> QED
  BY <1>1, <1>2, <1>3 DEF ApiInv, SafeInv, SoundInv

LEMMA IterationFailsKeeps ==
  ASSUME ApiInv, NEW t \in Thread, IterationFails(t)
  PROVE  ApiInv'
<1>1. TypeOK' /\ LabelInv'
  BY DEF ApiInv, IterationFails, TypeOK, Label, LabelInv, SafeInv, LoopLabel,
         ThreadLabel
<1>2. LocalInv' /\ MadeInv' /\ CacheInv'
  BY DEF ApiInv, IterationFails, TypeOK, SafeInv, LabelInv, LoopLabel,
         ThreadLabel, LocalInv, MadeInv, CacheInv, CacheWithinGraph
<1>3. SoundInv'
  BY DEF ApiInv, IterationFails, TypeOK, SafeInv, SoundInv, LabelInv, MadeInv,
         MakerInv, GlobalsInv, LoopInv, CacheInv, LocalInv, KeptInv
<1> QED
  BY <1>1, <1>2, <1>3 DEF ApiInv, SafeInv, SoundInv

LEMMA FillCacheKeeps ==
  ASSUME ApiInv, NEW t \in Thread, FillCache(t)
  PROVE  ApiInv'
<1>0. /\ lifecycles' \in Seq(Lifecycle) /\ Len(lifecycles') = Len(lifecycles)
      /\ \A i \in 1..Len(lifecycles) :
            /\ lifecycles'[i].graph = lifecycles[i].graph
            /\ lifecycles'[i].covers = IF i = lifecycle[t] THEN rows[t]
                                       ELSE lifecycles[i].covers
  <2>1. lifecycle[t] \in 1..Len(lifecycles) /\ rows[t] \in SUBSET NodeId
    BY DEF ApiInv, TypeOK, SafeInv, LocalInv, FillCache
  <2>2. lifecycles \in Seq(Lifecycle) /\ lifecycles' = Fill(lifecycle[t], rows[t])
    BY DEF ApiInv, TypeOK, FillCache
  <2> QED
    BY <2>1, <2>2, FillEffect
<1>1. TypeOK' /\ LabelInv'
  BY <1>0 DEF ApiInv, FillCache, TypeOK, Label, LabelInv, SafeInv, LoopLabel,
              ThreadLabel
<1>2. LocalInv' /\ MadeInv'
  BY <1>0 DEF ApiInv, FillCache, TypeOK, SafeInv, LabelInv, LoopLabel,
              ThreadLabel, LocalInv, MadeInv
<1>3. CacheInv'
  <2>1. \A q \in Thread : pc'[q] = "fill_cache" =>
           pc[q] = "fill_cache" /\ rows'[q] = rows[q] /\ lifecycle'[q] = lifecycle[q]
    BY DEF ApiInv, TypeOK, FillCache
  <2>2. UNCHANGED graphs
    BY DEF FillCache
  <2>3. rows[t] \subseteq graphs[lifecycles[lifecycle[t]].graph].nodes
    BY DEF ApiInv, SafeInv, CacheInv, FillCache
  <2> QED
    BY <1>0, <2>1, <2>2, <2>3, FillingKeepsCaches DEF ApiInv, SafeInv, TypeOK
<1>4. (raced' \/ MakerInv') /\ (raced' \/ GlobalsInv')
  BY <1>0 DEF ApiInv, FillCache, TypeOK, SafeInv, SoundInv, LabelInv, MadeInv,
              MakerInv, GlobalsInv, LoopInv, CacheInv
<1>5. (raced' \/ LoopInv') /\ (raced' \/ KeptInv')
  BY <1>0 DEF ApiInv, FillCache, TypeOK, SafeInv, SoundInv, LabelInv, MadeInv,
              MakerInv, LoopInv, LocalInv, KeptInv, GlobalsInv
<1> QED
  BY <1>1, <1>2, <1>3, <1>4, <1>5 DEF ApiInv, SafeInv, SoundInv

LEMMA ReportKeeps ==
  ASSUME ApiInv, NEW t \in Thread, Report(t)
  PROVE  ApiInv'
<1>1. TypeOK' /\ LabelInv'
  BY DEF ApiInv, Report, TypeOK, Label, LabelInv, SafeInv, LoopLabel,
         ThreadLabel
<1>2. LocalInv' /\ MadeInv' /\ CacheInv'
  BY DEF ApiInv, Report, TypeOK, SafeInv, LabelInv, LoopLabel, ThreadLabel,
         LocalInv, MadeInv, CacheInv, CacheWithinGraph
<1>3. SoundInv'
  BY DEF ApiInv, Report, TypeOK, SafeInv, SoundInv, LabelInv, MadeInv,
         MakerInv, GlobalsInv, LoopInv, CacheInv, LocalInv, KeptInv
<1> QED
  BY <1>1, <1>2, <1>3 DEF ApiInv, SafeInv, SoundInv

LEMMA RejectStrategyKeeps ==
  ASSUME ApiInv, RejectStrategy
  PROVE  ApiInv'
<1>1. TypeOK' /\ LabelInv'
  BY DEF ApiInv, RejectStrategy, TypeOK, Label, LabelInv, SafeInv, LoopLabel,
         ThreadLabel
<1>2. LocalInv' /\ MadeInv' /\ CacheInv'
  BY DEF ApiInv, RejectStrategy, TypeOK, SafeInv, LabelInv, LoopLabel,
         ThreadLabel, LocalInv, MadeInv, CacheInv, CacheWithinGraph
<1>3. SoundInv'
  BY DEF ApiInv, RejectStrategy, TypeOK, SafeInv, SoundInv, LabelInv, MadeInv,
         MakerInv, GlobalsInv, LoopInv, CacheInv, LocalInv, KeptInv
<1> QED
  BY <1>1, <1>2, <1>3 DEF ApiInv, SafeInv, SoundInv

LEMMA AnalyseKeeps ==
  ASSUME ApiInv, Analyse
  PROVE  ApiInv'
<1>0. /\ lifecycles' \in Seq(Lifecycle) /\ Len(lifecycles') = Len(lifecycles)
      /\ \A i \in 1..Len(lifecycles) :
            /\ lifecycles'[i].graph = lifecycles[i].graph
            /\ \/ lifecycles'[i].covers = lifecycles[i].covers
               \/ lifecycles'[i].covers = graphs[lifecycles[i].graph].nodes
  <2>0. lifecycles \in Seq(Lifecycle)
    BY DEF ApiInv, TypeOK
  <2>1. CASE lifecycles' = lifecycles
    BY <2>0, <2>1, SMTT(20)
  <2>2. CASE lifecycles' = Fill(lifecycle[Loop], Analysed(Loop).nodes)
    <3>1. lifecycle[Loop] \in 1..Len(lifecycles)
      BY DEF ApiInv, TypeOK, SafeInv, LocalInv, Analyse
    <3>2. lifecycles[lifecycle[Loop]].graph \in 1..Len(graphs)
      BY <3>1 DEF ApiInv, SafeInv, CacheInv
    <3>3. graphs[lifecycles[lifecycle[Loop]].graph] \in ApiGraph
      BY <3>2, ElementOfSeq DEF ApiInv, TypeOK
    <3>4. Analysed(Loop).nodes \in SUBSET NodeId
      BY <3>3 DEF Analysed, ApiGraph
    <3> QED
      BY <2>0, <2>2, <3>1, <3>4, FillEffect DEF ApiInv, TypeOK, Analysed
  <2> QED
    BY <2>1, <2>2 DEF Analyse
<1>1. TypeOK' /\ LabelInv'
  BY <1>0 DEF ApiInv, Analyse, TypeOK, Label, LabelInv, SafeInv, LoopLabel,
              ThreadLabel
<1>2. LocalInv' /\ MadeInv'
  BY <1>0 DEF ApiInv, Analyse, TypeOK, SafeInv, LabelInv, LoopLabel,
              ThreadLabel, LocalInv, MadeInv
<1>3. CacheInv'
  <2>1. \A q \in Thread : pc'[q] = "fill_cache" =>
           pc[q] = "fill_cache" /\ rows'[q] = rows[q] /\ lifecycle'[q] = lifecycle[q]
    BY DEF ApiInv, TypeOK, Analyse
  <2>2. UNCHANGED graphs
    BY DEF Analyse
  <2> QED
    BY <1>0, <2>1, <2>2, FillingKeepsCaches DEF ApiInv, SafeInv, TypeOK,
                                                CacheInv
<1>4. SoundInv'
  BY <1>0 DEF ApiInv, Analyse, TypeOK, SafeInv, SoundInv, LabelInv, MadeInv,
              MakerInv, GlobalsInv, LoopInv, CacheInv, LocalInv, KeptInv
<1> QED
  BY <1>1, <1>2, <1>3, <1>4 DEF ApiInv, SafeInv, SoundInv

LEMMA BuildKeeps ==
  ASSUME ApiInv, Build
  PROVE  ApiInv'
<1>0. PICK removed : 
         /\ acked' = {f \in acked : f.src \notin removed /\ f.dst \notin removed}
         /\ \/ /\ graphs' = graphs
               /\ graph' = [graph EXCEPT ![Loop] = lifecycles[lifecycle[Loop]].graph]
            \/ /\ graphs' = Append(graphs, Without(graphs[lifecycles[lifecycle[Loop]].graph], removed))
               /\ graph' = [graph EXCEPT ![Loop] = Len(graphs) + 1]
  BY DEF Build
<1>a. lifecycle[Loop] \in 1..Len(lifecycles) /\ lifecycles[lifecycle[Loop]].graph \in 1..Len(graphs)
  BY DEF ApiInv, TypeOK, SafeInv, LocalInv, CacheInv, Build
<1>b. graphs[lifecycles[lifecycle[Loop]].graph] \in ApiGraph
  BY <1>a, ElementOfSeq DEF ApiInv, TypeOK
<1>c. /\ graphs' \in Seq(ApiGraph) /\ Len(graphs) <= Len(graphs')
      /\ \A i \in 1..Len(graphs) : graphs'[i] = graphs[i]
      /\ graph'[Loop] \in 1..Len(graphs')
      /\ graph' \in [Proc -> 0..Len(graphs')]
  <2> DEFINE old == graphs[lifecycles[lifecycle[Loop]].graph]
  <2>1. CASE graphs' = graphs
    BY <2>1, <1>0, <1>a DEF ApiInv, TypeOK
  <2>2. CASE graphs' = Append(graphs, Without(old, removed)) /\ graph' = [graph EXCEPT ![Loop] = Len(graphs) + 1]
    <3>1. Without(old, removed) \in ApiGraph
      BY <1>b, WithoutEffect
    <3>2. /\ graphs' \in Seq(ApiGraph) /\ Len(graphs') = Len(graphs) + 1
          /\ \A i \in 1..Len(graphs) : graphs'[i] = graphs[i]
      BY <2>2, <3>1, NewObject DEF ApiInv, TypeOK
    <3>3. Len(graphs) \in Nat
      BY DEF ApiInv, TypeOK
    <3> QED
      BY <2>2, <3>2, <3>3 DEF ApiInv, TypeOK
  <2> QED
    BY <1>0, <2>1, <2>2
<1>d. acked \subseteq graphs[lifecycles[lifecycle[Loop]].graph].links => acked' \subseteq graphs'[graph'[Loop]].links
  <2> DEFINE old == graphs[lifecycles[lifecycle[Loop]].graph]
  <2>1. graph'[Loop] \in {lifecycles[lifecycle[Loop]].graph, Len(graphs) + 1}
        /\ acked' \subseteq acked
    BY <1>0 DEF ApiInv, TypeOK
  <2>2. CASE graphs' = graphs /\ graph'[Loop] = lifecycles[lifecycle[Loop]].graph
    BY <2>1, <2>2
  <2>3. CASE graphs' = Append(graphs, Without(old, removed)) /\ graph'[Loop] = Len(graphs) + 1
    <3>1. graphs'[graph'[Loop]] = Without(old, removed)
      BY <1>b, <2>3, WithoutEffect, NewObject DEF ApiInv, TypeOK
    <3>2. acked \subseteq old.links => acked' \subseteq Without(old, removed).links
      BY <1>0, <1>b, WithoutEffect
    <3> QED
      BY <3>1, <3>2
  <2> QED
    BY <1>0, <2>2, <2>3 DEF ApiInv, TypeOK
<1>1. TypeOK' /\ LabelInv'
  BY <1>0, <1>a, <1>c DEF ApiInv, Build, TypeOK, Label, LabelInv, SafeInv,
                          LoopLabel, ThreadLabel
<1>2. LocalInv' /\ MadeInv'
  BY <1>0, <1>a, <1>c DEF ApiInv, Build, TypeOK, SafeInv, LabelInv, LoopLabel,
                          ThreadLabel, LocalInv, MadeInv
<1>3. CacheInv'
  <2>1. \A t \in Thread : pc'[t] = "fill_cache" =>
           pc[t] = "fill_cache" /\ rows'[t] = rows[t] /\ lifecycle'[t] = lifecycle[t]
    BY DEF ApiInv, TypeOK, Build
  <2>2. UNCHANGED lifecycles
    BY DEF Build
  <2> QED
    BY <1>0, <1>c, <2>1, <2>2, GrowthKeepsCaches DEF ApiInv, SafeInv, TypeOK
<1>4. (raced' \/ MakerInv') /\ (raced' \/ GlobalsInv')
  BY <1>0, <1>a, <1>c DEF ApiInv, Build, TypeOK, SafeInv, SoundInv, LabelInv,
                          MadeInv, MakerInv, GlobalsInv, LoopInv, CacheInv
<1>5. raced' \/ LoopInv'
  BY <1>0, <1>a, <1>c DEF ApiInv, Build, TypeOK, SafeInv, SoundInv, LabelInv,
                          MadeInv, MakerInv, LoopInv
<1>6. raced' \/ KeptInv'
  <2>1. SUFFICES ASSUME ~raced'
                 PROVE  KeptInv'
    OBVIOUS
  <2>2. ~raced /\ pc[Loop] = "build" /\ gGraph' = gGraph /\ pc'[Loop] = "swap_graph"
    BY <2>1 DEF ApiInv, TypeOK, Build
  <2>3. gGraph \in 1..Len(graphs)
    BY <2>2, GraphMade DEF ApiInv, SafeInv
  <2>m. \A p \in Proc : pc[p] \notin Making
    BY <2>2 DEF ApiInv, SoundInv, MakerInv
  <2>4. lifecycles[lifecycle[Loop]].graph = gGraph
    BY <2>2, <2>3, <2>m DEF ApiInv, SoundInv, GlobalsInv, LoopInv
  <2>5. acked \subseteq graphs[gGraph].links
    BY <2>2 DEF ApiInv, SoundInv, KeptInv
  <2>6. acked' \subseteq acked
    BY <1>0
  <2> QED
    BY <1>c, <1>d, <2>2, <2>3, <2>4, <2>5, <2>6 DEF KeptInv
<1> QED
  BY <1>1, <1>2, <1>3, <1>4, <1>5, <1>6 DEF ApiInv, SafeInv, SoundInv

LEMMA SwapGraphKeeps ==
  ASSUME ApiInv, SwapGraph
  PROVE  ApiInv'
<1>1. TypeOK' /\ LabelInv'
  BY DEF ApiInv, SwapGraph, TypeOK, Label, LabelInv, SafeInv, LoopLabel,
         ThreadLabel
<1>2. LocalInv' /\ MadeInv' /\ CacheInv'
  BY DEF ApiInv, SwapGraph, TypeOK, SafeInv, LabelInv, LoopLabel, ThreadLabel,
         LocalInv, MadeInv, CacheInv, CacheWithinGraph
<1>3. SoundInv'
  BY DEF ApiInv, SwapGraph, TypeOK, SafeInv, SoundInv, LabelInv, MadeInv,
         MakerInv, GlobalsInv, LoopInv, CacheInv, LocalInv, KeptInv
<1> QED
  BY <1>1, <1>2, <1>3 DEF ApiInv, SafeInv, SoundInv

LEMMA SwapVerifierKeeps ==
  ASSUME ApiInv, SwapVerifier
  PROVE  ApiInv'
<1>1. TypeOK' /\ LabelInv'
  BY DEF ApiInv, SwapVerifier, TypeOK, Label, LabelInv, SafeInv, LoopLabel,
         ThreadLabel
<1>2. LocalInv' /\ MadeInv' /\ CacheInv'
  BY DEF ApiInv, SwapVerifier, TypeOK, SafeInv, LabelInv, LoopLabel,
         ThreadLabel, LocalInv, MadeInv, CacheInv, CacheWithinGraph
<1>3. SoundInv'
  BY DEF ApiInv, SwapVerifier, TypeOK, SafeInv, SoundInv, LabelInv, MadeInv,
         MakerInv, GlobalsInv, LoopInv, CacheInv, LocalInv, KeptInv
<1> QED
  BY <1>1, <1>2, <1>3 DEF ApiInv, SafeInv, SoundInv

LEMMA SwapLifecycleKeeps ==
  ASSUME ApiInv, SwapLifecycle
  PROVE  ApiInv'
<1>0. /\ lifecycles' \in Seq(Lifecycle) /\ Len(lifecycles') = Len(lifecycles) + 1
      /\ \A i \in 1..Len(lifecycles) : lifecycles'[i] = lifecycles[i]
      /\ lifecycles'[Len(lifecycles) + 1].graph = graph[Loop]
      /\ lifecycles'[Len(lifecycles) + 1].covers = NotComputed
      /\ graph[Loop] \in 1..Len(graphs)
  <2>1. graph[Loop] \in 1..Len(graphs)
    BY DEF ApiInv, TypeOK, SafeInv, LocalInv, SwapLifecycle
  <2>2. graph[Loop] \in Nat
    BY <2>1
  <2>3. /\ lifecycles \in Seq(Lifecycle)
        /\ lifecycles' = Append(lifecycles, NewLifecycle(graph[Loop]))
    BY DEF ApiInv, TypeOK, SwapLifecycle
  <2> QED
    BY <2>1, <2>2, <2>3, NewLifecycleType, NewObject
<1>1. TypeOK' /\ LabelInv'
  BY <1>0 DEF ApiInv, SwapLifecycle, TypeOK, Label, LabelInv, SafeInv,
              LoopLabel, ThreadLabel
<1>2. LocalInv' /\ MadeInv'
  BY <1>0 DEF ApiInv, SwapLifecycle, TypeOK, SafeInv, LabelInv, LoopLabel,
              ThreadLabel, LocalInv, MadeInv
<1>3. CacheInv'
  BY <1>0 DEF ApiInv, SwapLifecycle, TypeOK, SafeInv, CacheInv,
              CacheWithinGraph, LocalInv, LabelInv
<1>4. SoundInv'
  BY <1>0 DEF ApiInv, SwapLifecycle, TypeOK, SafeInv, SoundInv, LabelInv,
              MadeInv, MakerInv, GlobalsInv, LoopInv, CacheInv, LocalInv,
              KeptInv
<1> QED
  BY <1>1, <1>2, <1>3, <1>4 DEF ApiInv, SafeInv, SoundInv
-----------------------------------------------------------------------------
LEMMA InitEstablishes == Init => ApiInv
<1> SUFFICES ASSUME Init
             PROVE  ApiInv
  OBVIOUS
<1>1. TypeOK
  <2>1. graphs \in Seq(ApiGraph) /\ lifecycles \in Seq(Lifecycle)
    BY EmptySeq DEF Init
  <2>2. Len(graphs) = 0 /\ Len(lifecycles) = 0
    BY EmptySeq DEF Init
  <2>3. {gGraph, gVerifier} \subseteq 0..Len(graphs) /\ gLifecycle \in 0..Len(lifecycles)
    BY <2>2 DEF Init
  <2>4. graph \in [Proc -> 0..Len(graphs)] /\ lifecycle \in [Proc -> 0..Len(lifecycles)]
    BY <2>2 DEF Init
  <2>5. /\ pc \in [Proc -> Label] /\ next \in [Proc -> Label]
        /\ rows \in [Proc -> SUBSET NodeId]
    BY DEF Init, Label
  <2> QED
    BY <2>1, <2>3, <2>4, <2>5 DEF Init, TypeOK
<1>2. SafeInv
  BY DEF Init, SafeInv, LabelInv, LoopLabel, ThreadLabel, LocalInv, MadeInv,
         CacheInv,
         CacheWithinGraph
<1>3. SoundInv
  BY DEF Init, SoundInv, MakerInv, GlobalsInv, LoopInv, KeptInv
<1> QED
  BY <1>1, <1>2, <1>3 DEF ApiInv

LEMMA StutterKeeps ==
  ASSUME ApiInv, UNCHANGED vars
  PROVE  ApiInv'
<1>1. TypeOK' /\ SafeInv'
  BY DEF ApiInv, vars, TypeOK, SafeInv, LabelInv, LocalInv, MadeInv, CacheInv,
         CacheWithinGraph
<1>2. SoundInv'
  BY DEF ApiInv, vars, SoundInv, MakerInv, GlobalsInv, LoopInv, KeptInv
<1> QED
  BY <1>1, <1>2 DEF ApiInv

LEMMA GetGraphKeeps ==
  ASSUME ApiInv, NEW p \in Proc, GetGraph(p)
  PROVE  ApiInv'
  BY CheckGraphKeeps, SetNewGraphKeeps, SetNewVerifierKeeps,
     SetNewLifecycleKeeps,
     ReturnGraphKeeps DEF GetGraph

LEMMA LoopStepKeeps ==
  ASSUME ApiInv, LoopStep
  PROVE  ApiInv'
<1>1. Loop \in Proc
  OBVIOUS
<1> QED
  BY <1>1, GetGraphKeeps, LifecycleMissingKeeps, ReadLifecycleKeeps,
     AddSourceKeeps,
     AddObjectKeeps, AddEdgeKeeps, SearchKeeps, VerifyKeeps, RejectStrategyKeeps,
     AnalyseKeeps, BuildKeeps, SwapGraphKeeps, SwapVerifierKeeps, SwapLifecycleKeeps
     DEF LoopStep

LEMMA StatusStepKeeps ==
  ASSUME ApiInv, NEW t \in Thread, StatusStep(t)
  PROVE  ApiInv'
<1>1. t \in Proc
  OBVIOUS
<1> QED
  BY <1>1, GetGraphKeeps, GetLifecycleKeeps, LifecycleMissingKeeps,
     ReadLifecycleKeeps,
     EvaluateCachedKeeps, BeginIterationKeeps, EndIterationKeeps, IterationFailsKeeps,
     FillCacheKeeps, ReportKeeps DEF StatusStep

(* For every set of facts and threads, with the interpreter switching      *)
(* anywhere: ApiInv is an inductive invariant of the server.               *)
THEOREM Invariance == Spec => []ApiInv
<1>1. Init => ApiInv
  BY InitEstablishes
<1>2. ASSUME ApiInv, [Next]_vars
      PROVE  ApiInv'
  BY <1>2, StutterKeeps, ReceiveKeeps, ReceiveStatusKeeps, LoopStepKeeps,
     StatusStepKeeps
     DEF Next
<1> QED
  BY <1>1, <1>2, PTL DEF Spec

(* The server's objects, globals and locals stay of their types.           *)
THEOREM TypeCorrect == Spec => []TypeOK
<1>1. ApiInv => TypeOK
  BY DEF ApiInv
<1> QED
  BY <1>1, Invariance, PTL

(* add_knowledge, prune_memory and status: a fact that was acknowledged    *)
(* stays until a prune takes one of its ends, for any number of status     *)
(* threads, unless the first requests overlapped.                          *)
THEOREM KnowledgeAlwaysKept == Spec => []KnowledgeKept
<1>1. ApiInv => KnowledgeKept
  BY DEF ApiInv, SafeInv, MadeInv, SoundInv, KeptInv, KnowledgeKept
<1> QED
  BY <1>1, Invariance, PTL

(* _graph, _verifier and _lifecycle belong together between two requests.  *)
THEOREM GlobalsAlwaysAgree == Spec => []GlobalsAgree
<1>1. ASSUME ApiInv
      PROVE  GlobalsAgree
  <2> SUFFICES ASSUME ~raced, gGraph # 0, pc[Loop] = "idle",
                      \A t \in Thread : pc[t] \notin Making
               PROVE  /\ gVerifier = gGraph
                      /\ gLifecycle # 0 /\ lifecycles[gLifecycle].graph = gGraph
    BY DEF GlobalsAgree
  <2>1. \A p \in Proc : pc[p] \notin Making
    OBVIOUS
  <2> QED
    BY <1>1, <2>1 DEF ApiInv, SoundInv, GlobalsInv
<1> QED
  BY <1>1, Invariance, PTL

(* compute_distance_matrix: whoever filled a cache and whatever was added  *)
(* or pruned since, its rows are nodes of the graph it stands for.         *)
THEOREM CachesStayWithin == Spec => []CacheWithinGraph
<1>1. ApiInv => CacheWithinGraph
  BY DEF ApiInv, SafeInv, CacheInv
<1> QED
  BY <1>1, Invariance, PTL

-----------------------------------------------------------------------------
(***************************************************************************)
(* The rate limiter in front of the endpoints, for every Max, Window and   *)
(* set of clients.                                                         *)
(***************************************************************************)
(* The window of a client, as its bucket shows it, is its whole window.    *)
LEMMA RecentIsWindow ==
    ASSUME LimiterTypeOK, BucketInv, NEW c \in Client
    PROVE  Recent(c) = {i \in 1..Len(passed[c]) : clock - passed[c][i] < Window}
  <1>1. \A i \in 1..Len(passed[c]) : passed[c][i] \in Nat
    BY DEF LimiterTypeOK
  <1> QED BY <1>1, LimitAssumption DEF LimiterTypeOK, BucketInv, Recent

(* A window is finite, and counts no more than the requests passed on.     *)
LEMMA WindowFinite ==
    ASSUME LimiterTypeOK, BucketInv, NEW c \in Client
    PROVE  IsFiniteSet(Recent(c)) /\ Cardinality(Recent(c)) \in Nat
  <1>1. Len(passed[c]) \in Nat
    BY DEF LimiterTypeOK
  <1>2. IsFiniteSet(1..Len(passed[c]))
    BY <1>1, FS_Interval
  <1>3. Recent(c) \subseteq 1..Len(passed[c])
    BY DEF BucketInv, Recent
  <1> QED BY <1>2, <1>3, FS_Subset, FS_CardinalityType

(* If fewer than Max requests of c are in the window, the one Max places   *)
(* before the next is not.                                                 *)
LEMMA OldEnough ==
    ASSUME LimiterTypeOK, OrderedInv, BucketInv, NEW c \in Client, ~Limited(c),
           NEW i \in 1..Len(passed[c]), i + Max = Len(passed[c]) + 1
    PROVE  clock - passed[c][i] >= Window
  <1> DEFINE n == Len(passed[c])
  <1>1. n \in Nat /\ i \in Nat /\ Max \in Nat /\ Window \in Nat /\ clock \in Nat
    BY LimitAssumption DEF LimiterTypeOK
  <1>2. \A j \in 1..n : passed[c][j] \in Nat
    BY DEF LimiterTypeOK
  <1>3. SUFFICES ASSUME clock - passed[c][i] < Window PROVE FALSE
    BY <1>1, <1>2
  <1>4. i..n \subseteq Recent(c)
    <2>1. SUFFICES ASSUME NEW j \in i..n PROVE clock - passed[c][j] < Window
      BY <1>1, RecentIsWindow
    <2>2. passed[c][i] <= passed[c][j]
      BY DEF OrderedInv
    <2> QED BY <1>1, <1>2, <1>3, <2>2
  <1>5. Cardinality(i..n) = Max
    <2>1. i \in Int /\ n \in Int /\ ~(i > n) /\ n - i + 1 = Max
      BY <1>1
    <2>2. Cardinality(i..n) = IF i > n THEN 0 ELSE n - i + 1
      BY <2>1, FS_Interval
    <2> QED BY <2>1, <2>2
  <1>6. Cardinality(i..n) <= Cardinality(Recent(c))
    BY <1>4, WindowFinite, FS_Subset
  <1> QED BY <1>1, <1>5, <1>6, WindowFinite DEF Limited

(* Pass keeps the invariant of the client it serves.                       *)
LEMMA PassKeeps ==
    ASSUME LimiterInv, NEW c \in Client, Pass(c)
    PROVE  LimiterInv'
  <1> DEFINE n == Len(passed[c])
  <1>1. /\ n \in Nat /\ Max \in Nat /\ Window \in Nat /\ clock \in Nat
        /\ clock' = clock
        /\ passed[c] \in Seq(Nat)
    BY LimitAssumption DEF LimiterInv, LimiterTypeOK, Pass
  <1>2. /\ passed' = [passed EXCEPT ![c] = Append(passed[c], clock)]
        /\ buckets' = [buckets EXCEPT ![c] = Recent(c) \cup {n + 1}]
    BY DEF Pass
  <1>3. /\ passed'[c] = Append(passed[c], clock)
        /\ buckets'[c] = Recent(c) \cup {n + 1}
        /\ \A d \in Client \ {c} : passed'[d] = passed[d] /\ buckets'[d] = buckets[d]
    BY <1>2 DEF LimiterInv, LimiterTypeOK
  <1>4. /\ Len(passed'[c]) = n + 1
        /\ \A i \in 1..n : passed'[c][i] = passed[c][i]
        /\ passed'[c][n + 1] = clock
    BY <1>1, <1>3
  <1>5. \A i \in 1..n : passed[c][i] \in Nat /\ passed[c][i] <= clock
    BY DEF LimiterInv, LimiterTypeOK, OrderedInv
  <1>6. Recent(c) = {i \in 1..n : clock - passed[c][i] < Window}
    BY RecentIsWindow DEF LimiterInv
  <1>7. LimiterTypeOK'
    <2>1. passed' \in [Client -> Seq(Nat)]
      BY <1>1, <1>2 DEF LimiterInv, LimiterTypeOK
    <2>2. Recent(c) \cup {n + 1} \in SUBSET Nat
      BY <1>1, <1>6
    <2> QED BY <1>1, <1>2, <2>1, <2>2 DEF LimiterInv, LimiterTypeOK
  <1>8. OrderedInv'
    <2>1. SUFFICES ASSUME NEW d \in Client, NEW i \in 1..Len(passed'[d])
                   PROVE  /\ passed'[d][i] <= clock
                          /\ \A j \in i..Len(passed'[d]) : passed'[d][i] <= passed'[d][j]
      BY <1>1 DEF OrderedInv
    <2>2. CASE d # c
      BY <2>1, <2>2, <1>3 DEF LimiterInv, OrderedInv
    <2>3. CASE d = c
      <3>1. \A j \in i..(n + 1) : j = n + 1 \/ j \in i..n
        BY <1>1
      <3>2. CASE i = n + 1
        BY <1>1, <1>4, <2>3, <3>1, <3>2
      <3>3. CASE i \in 1..n
        <4>1. \A j \in i..n : passed[c][i] <= passed[c][j]
          BY <3>3 DEF LimiterInv, OrderedInv
        <4>2. passed'[d][i] = passed[c][i] /\ passed'[d][i] <= clock
          BY <1>4, <1>5, <2>3, <3>3
        <4>3. ASSUME NEW j \in i..(n + 1) PROVE passed'[d][i] <= passed'[d][j]
          <5>1. CASE j = n + 1
            BY <1>4, <2>3, <4>2, <5>1
          <5>2. CASE j \in i..n
            <6>1. j \in 1..n
              BY <1>1, <3>3, <5>2
            <6> QED BY <1>4, <2>3, <4>1, <4>2, <5>2, <6>1
          <5> QED BY <3>1, <5>1, <5>2
        <4> QED BY <1>4, <2>3, <4>2, <4>3
      <3> QED BY <1>1, <1>4, <2>1, <2>3, <3>2, <3>3
    <2> QED BY <2>2, <2>3
  <1>9. BucketInv'
    <2>1. SUFFICES ASSUME NEW d \in Client
                   PROVE  /\ buckets'[d] \subseteq 1..Len(passed'[d])
                          /\ \A i \in (1..Len(passed'[d])) \ buckets'[d] :
                                clock - passed'[d][i] >= Window
      BY <1>1 DEF BucketInv
    <2>2. CASE d # c
      BY <2>2, <1>3 DEF LimiterInv, BucketInv
    <2>3. CASE d = c
      <3>1. buckets'[d] \subseteq 1..Len(passed'[d])
        BY <1>1, <1>3, <1>4, <1>6, <2>3
      <3>2. ASSUME NEW i \in (1..(n + 1)) \ (Recent(c) \cup {n + 1})
            PROVE  clock - passed'[c][i] >= Window
        <4>1. i \in 1..n /\ ~(clock - passed[c][i] < Window)
          BY <1>1, <1>6, <3>2
        <4>2. passed'[c][i] = passed[c][i] /\ passed[c][i] \in Nat
          BY <1>4, <1>5, <4>1
        <4> QED BY <1>1, <4>1, <4>2
      <3> QED BY <1>3, <1>4, <2>3, <3>1, <3>2
    <2> QED BY <2>2, <2>3
  <1>10. WindowBound'
    <2>1. SUFFICES ASSUME NEW d \in Client, NEW i \in 1..Len(passed'[d]),
                          i + Max <= Len(passed'[d])
                   PROVE  passed'[d][i + Max] - passed'[d][i] >= Window
      BY DEF WindowBound
    <2>2. CASE d # c
      BY <2>1, <2>2, <1>3 DEF LimiterInv, WindowBound
    <2>3. CASE d = c /\ i + Max <= n
      <3>1. i \in 1..n /\ i + Max \in 1..n
        BY <1>1, <1>4, <2>1, <2>3
      <3>2. passed[c][i + Max] - passed[c][i] >= Window
        BY <2>3, <3>1 DEF LimiterInv, WindowBound
      <3> QED BY <1>4, <2>3, <3>1, <3>2
    <2>4. CASE d = c /\ i + Max = n + 1 /\ i # n + 1
      <3>1. i \in 1..n
        BY <1>1, <1>4, <2>1, <2>4
      <3>2. ~Limited(c)
        BY DEF Pass
      <3>3. clock - passed[c][i] >= Window
        BY <2>4, <3>1, <3>2, OldEnough DEF LimiterInv
      <3> QED BY <1>4, <2>4, <3>1, <3>3
    <2>5. CASE d = c /\ i = n + 1
      <3>1. Max = 0
        BY <1>1, <1>4, <2>1, <2>5
      <3>2. Cardinality(Recent(c)) < Max
        BY <1>1, WindowFinite DEF Pass, Limited, LimiterInv
      <3> QED BY <3>1, <3>2, WindowFinite DEF LimiterInv
    <2> QED BY <1>1, <1>4, <2>1, <2>2, <2>3, <2>4, <2>5
  <1>11. BucketBound'
    <2>1. SUFFICES ASSUME NEW d \in Client PROVE Cardinality(buckets'[d]) <= Max
      BY DEF BucketBound
    <2>2. CASE d # c
      BY <2>2, <1>3 DEF LimiterInv, BucketBound
    <2>3. CASE d = c
      <3>1. IsFiniteSet(Recent(c)) /\ Cardinality(Recent(c)) \in Nat
        BY WindowFinite DEF LimiterInv
      <3>2. n + 1 \notin Recent(c)
        BY <1>1, <1>6
      <3>3. Cardinality(Recent(c) \cup {n + 1}) = Cardinality(Recent(c)) + 1
        BY <3>1, <3>2, FS_AddElement
      <3>4. Cardinality(Recent(c)) < Max
        BY <1>1, <3>1 DEF Pass, Limited
      <3>5. Cardinality(buckets'[d]) = Cardinality(Recent(c)) + 1
        BY <1>3, <2>3, <3>3, Zenon
      <3> QED BY <1>1, <3>1, <3>4, <3>5
    <2> QED BY <2>2, <2>3
  <1> QED BY <1>7, <1>8, <1>9, <1>10, <1>11 DEF LimiterInv

(* A rejected request only evicts what has left the window.                *)
LEMMA RejectKeeps ==
    ASSUME LimiterInv, NEW c \in Client, Reject(c)
    PROVE  LimiterInv'
  <1>1. /\ passed' = passed /\ clock' = clock
        /\ buckets' = [buckets EXCEPT ![c] = Recent(c)]
    BY DEF Reject
  <1>2. /\ buckets'[c] = Recent(c)
        /\ \A d \in Client \ {c} : buckets'[d] = buckets[d]
    BY <1>1 DEF LimiterInv, LimiterTypeOK
  <1>3. Recent(c) \subseteq buckets[c]
    BY DEF Recent
  <1>4. LimiterTypeOK'
    BY <1>1, <1>3 DEF LimiterInv, LimiterTypeOK
  <1>5. OrderedInv' /\ WindowBound'
    BY <1>1 DEF LimiterInv, OrderedInv, WindowBound
  <1>6. BucketInv'
    <2>1. \A i \in 1..Len(passed[c]) : passed[c][i] \in Nat
      BY DEF LimiterInv, LimiterTypeOK
    <2>2. clock \in Nat /\ Window \in Nat
      BY LimitAssumption DEF LimiterInv, LimiterTypeOK
    <2>3. Recent(c) = {i \in 1..Len(passed[c]) : clock - passed[c][i] < Window}
      BY RecentIsWindow DEF LimiterInv
    <2> QED BY <1>1, <1>2, <2>1, <2>2, <2>3 DEF LimiterInv, BucketInv
  <1>7. BucketBound'
    <2>1. buckets[c] \subseteq 1..Len(passed[c]) /\ Len(passed[c]) \in Nat
      BY DEF LimiterInv, BucketInv, LimiterTypeOK
    <2>2. IsFiniteSet(buckets[c])
      <3>1. IsFiniteSet(1..Len(passed[c]))
        BY <2>1, FS_Interval
      <3> QED BY <2>1, <3>1, FS_Subset
    <2>3. Cardinality(Recent(c)) <= Cardinality(buckets[c])
      BY <1>3, <2>2, FS_Subset
    <2>4. Cardinality(Recent(c)) \in Nat /\ Cardinality(buckets[c]) \in Nat
      BY <2>2, FS_CardinalityType, WindowFinite DEF LimiterInv
    <2>5. Cardinality(buckets[c]) <= Max
      BY DEF LimiterInv, BucketBound
    <2> QED BY <1>1, <1>2, <2>3, <2>4, <2>5, LimitAssumption DEF LimiterInv, BucketBound
  <1> QED BY <1>4, <1>5, <1>6, <1>7 DEF LimiterInv

(* Time passing takes nothing into a window.                               *)
LEMMA AdvanceKeeps ==
    ASSUME LimiterInv, Advance
    PROVE  LimiterInv'
  <1>1. /\ clock' = clock + 1 /\ passed' = passed /\ buckets' = buckets
        /\ clock \in Nat /\ Window \in Nat
    BY LimitAssumption DEF Advance, LimiterInv, LimiterTypeOK
  <1>2. \A c \in Client : \A i \in 1..Len(passed[c]) : passed[c][i] \in Nat
    BY DEF LimiterInv, LimiterTypeOK
  <1>3. LimiterTypeOK' /\ WindowBound' /\ BucketBound'
    <2>1. LimiterTypeOK'
      BY <1>1 DEF LimiterInv, LimiterTypeOK
    <2>2. WindowBound'
      BY <1>1 DEF LimiterInv, WindowBound
    <2>3. BucketBound'
      BY <1>1 DEF LimiterInv, BucketBound
    <2> QED BY <2>1, <2>2, <2>3
  <1>4. OrderedInv'
    BY <1>1, <1>2 DEF LimiterInv, OrderedInv
  <1>5. BucketInv'
    BY <1>1, <1>2 DEF LimiterInv, BucketInv
  <1> QED BY <1>3, <1>4, <1>5 DEF LimiterInv

(* The invariant holds at the start: every bucket is empty.                *)
LEMMA LimiterInitKeeps ==
    ASSUME LimiterInit
    PROVE  LimiterInv
  <1>1. Max \in Nat /\ Cardinality({}) = 0
    BY LimitAssumption, FS_EmptySet
  <1>2. \A c \in Client : passed[c] = <<>> /\ buckets[c] = {}
    BY DEF LimiterInit
  <1>3. LimiterTypeOK
    BY DEF LimiterInit, LimiterTypeOK
  <1>4. OrderedInv /\ BucketInv /\ WindowBound
    BY <1>2 DEF OrderedInv, BucketInv, WindowBound
  <1>5. BucketBound
    <2>1. ASSUME NEW c \in Client PROVE Cardinality(buckets[c]) <= Max
      <3>1. Cardinality(buckets[c]) = 0
        BY <1>1, <1>2, Zenon
      <3> QED BY <1>1, <3>1
    <2> QED BY <2>1 DEF BucketBound
  <1> QED BY <1>3, <1>4, <1>5 DEF LimiterInv

(* The inductive invariant of the rate limiter.                            *)
THEOREM LimiterInvariance == LimiterSpec => []LimiterInv
  <1>1. LimiterInit => LimiterInv
    BY LimiterInitKeeps
  <1>2. LimiterInv /\ [LimiterNext]_limiterVars => LimiterInv'
    <2>1. SUFFICES ASSUME LimiterInv, [LimiterNext]_limiterVars PROVE LimiterInv'
      OBVIOUS
    <2>2. CASE Advance
      BY <2>1, <2>2, AdvanceKeeps
    <2>3. CASE \E c \in Client : Reject(c) \/ Pass(c)
      BY <2>1, <2>3, RejectKeeps, PassKeeps
    <2>4. CASE UNCHANGED limiterVars
      BY <2>1, <2>4 DEF limiterVars, LimiterInv, LimiterTypeOK, OrderedInv, BucketInv, WindowBound,
                        BucketBound
    <2> QED BY <2>1, <2>2, <2>3, <2>4 DEF LimiterNext
  <1> QED BY <1>1, <1>2, PTL DEF LimiterSpec

(* No span of the window's length ever holds more than Max passed requests *)
(* of one client.                                                          *)
THEOREM WindowAlwaysBounded == LimiterSpec => []WindowBound
  <1>1. LimiterInv => WindowBound
    BY DEF LimiterInv
  <1> QED BY <1>1, LimiterInvariance, PTL

(* A client's bucket never holds more than Max timestamps.                 *)
THEOREM BucketAlwaysBounded == LimiterSpec => []BucketBound
  <1>1. LimiterInv => BucketBound
    BY DEF LimiterInv
  <1> QED BY <1>1, LimiterInvariance, PTL

(* A client is rejected exactly when it has passed Max requests less than a*)
(* window ago: the requests of other clients never count against it, and   *)
(* none of its own is forgotten.                                           *)
THEOREM RejectionsJustified == LimiterSpec => []RejectJustified
<1>1. LimiterInv => RejectJustified
  <2>1. SUFFICES ASSUME LimiterInv, NEW c \in Client
                 PROVE  Recent(c) = {i \in 1..Len(passed[c]) :
                                       clock - passed[c][i] < Window}
    BY DEF RejectJustified, Limited
  <2> QED BY <2>1, RecentIsWindow DEF LimiterInv
<1> QED BY <1>1, LimiterInvariance, PTL
===============================================================================
