---------------------- MODULE EventSourcedGraph_proofs ----------------------
(***************************************************************************)
(* Proofs about EventSourcedGraph: the invariant IInv is inductive, and    *)
(* the properties of recovery follow from it, for every set of nodes,      *)
(* attributes and keys, every serialisation RoundTrip that is idempotent,  *)
(* every bound and every combination of faults.                            *)
(***************************************************************************)
EXTENDS EventSourcedGraph, MemoryGraphLemmas

(* uuid4 draws a key that neither the graph nor the log uses.              *)
LEMMA FreshKeyIsFresh ==
    HasFreshKey => FreshKey \in EdgeKey /\ FreshKey \notin UsedKeys
BY DEF HasFreshKey, FreshKey

(* The kinds of event and their fields.                                    *)
LEMMA EventCases ==
    ASSUME NEW ev \in Event
    PROVE  \/ ev \in AddNodeEvent /\ ev.type = "add_node"
           \/ ev \in AddEdgeEvent /\ ev.type = "add_edge"
           \/ ev \in RemoveNodeEvent /\ ev.type = "remove_node"
           \/ ev \in RemoveEdgeEvent /\ ev.type = "remove_edge"
BY DEF Event, AddNodeEvent, AddEdgeEvent, RemoveNodeEvent, RemoveEdgeEvent

(* What serialisation makes of an attribute is an attribute, and stays.    *)
LEMMA RoundTripAttr ==
    ASSUME NEW a \in Attr
    PROVE  /\ RoundTrip[a] \in Attr
           /\ RoundTrip[a] # Absent
           /\ RoundTrip[RoundTrip[a]] = RoundTrip[a]
BY RoundTripAssumption, AbsentAssumption

(* Folding one event into a shadow gives a shadow.                         *)
LEMMA ShadowStepType ==
    ASSUME NEW s \in Shadow, NEW ev \in Event
    PROVE  ShadowStep(s, ev) \in Shadow
<1>1. CASE ev \in AddNodeEvent /\ ev.type = "add_node"
  BY <1>1, RoundTripAttr DEF ShadowStep, Shadow, AddNodeEvent
<1>2. CASE ev \in AddEdgeEvent /\ ev.type = "add_edge"
  BY <1>2 DEF ShadowStep, Shadow, AddEdgeEvent, Link, LinkOf
<1>3. CASE ev \in RemoveNodeEvent /\ ev.type = "remove_node"
  BY <1>3 DEF ShadowStep, Shadow, RemoveNodeEvent
<1>4. CASE ev \in RemoveEdgeEvent /\ ev.type = "remove_edge"
  BY <1>4 DEF ShadowStep
<1> QED BY <1>1, <1>2, <1>3, <1>4, EventCases

(* Replaying an event stores only attributes that have been through a      *)
(* round trip.                                                             *)
LEMMA ShadowStepRoundTrip ==
    ASSUME NEW s \in Shadow, NEW ev \in Event,
           \A n \in NodeId : s.attr[n] # Absent =>
                                RoundTrip[s.attr[n]] = s.attr[n]
    PROVE  \A n \in NodeId : ShadowStep(s, ev).attr[n] # Absent =>
              RoundTrip[ShadowStep(s, ev).attr[n]] = ShadowStep(s, ev).attr[n]
<1>1. CASE ev \in AddNodeEvent /\ ev.type = "add_node"
  BY <1>1, RoundTripAttr DEF ShadowStep, Shadow, AddNodeEvent
<1>2. CASE ev \in AddEdgeEvent /\ ev.type = "add_edge"
  BY <1>2 DEF ShadowStep, Shadow, AddEdgeEvent
<1>3. CASE ev \in RemoveNodeEvent /\ ev.type = "remove_node"
  BY <1>3 DEF ShadowStep, Shadow, RemoveNodeEvent
<1>4. CASE ev \in RemoveEdgeEvent /\ ev.type = "remove_edge"
  BY <1>4 DEF ShadowStep
<1> QED BY <1>1, <1>2, <1>3, <1>4, EventCases

(* A mutator and the replay of its event keep graph and log in step.       *)
LEMMA FollowsStep ==
    ASSUME NEW g \in Graph, NEW s \in Shadow, NEW ev \in Event,
           Follows(g, s)
    PROVE  Follows(Effect(g, ev), ShadowStep(s, ev))
<1> DEFINE h == Effect(g, ev)
           u == ShadowStep(s, ev)
<1>1. CASE ev \in AddNodeEvent /\ ev.type = "add_node"
  <2>1. h = AddNode(g, ev.node, ev.attr)
    BY <1>1 DEF Effect
  <2>2. u.attr = [s.attr EXCEPT ![ev.node] = RoundTrip[ev.attr]]
          /\ u.links = s.links
    BY <1>1 DEF ShadowStep, Shadow
  <2>3. h.attr = [g.attr EXCEPT ![ev.node] = ev.attr]
    BY <2>1 DEF AddNode
  <2>4. \A n \in NodeId : HasNode(h, n) => u.attr[n] = RoundTrip[h.attr[n]]
    BY <1>1, <2>2, <2>3 DEF Follows, HasNode, Graph, Shadow, AddNodeEvent
  <2>5. Links(h) \subseteq u.links
    BY <2>1, <2>2, LinksAddNode DEF Follows
  <2> QED BY <2>4, <2>5 DEF Follows
<1>2. CASE ev \in AddEdgeEvent /\ ev.type = "add_edge"
  <2>1. h = AddEdge(g, ev.key, ev.src, ev.dst, ev.rel)
    BY <1>2 DEF Effect
  <2>2. u.attr = s.attr /\ u.links = s.links \cup {LinkOf(ev)}
    BY <1>2 DEF ShadowStep, Shadow
  <2>3. h.attr = g.attr
    BY <2>1 DEF AddEdge
  <2>4. Links(h) = Links(g) \cup {LinkOf(ev)}
    BY <2>1, LinksAddEdge DEF LinkOf
  <2> QED BY <2>2, <2>3, <2>4 DEF Follows, HasNode
<1>3. CASE ev \in RemoveNodeEvent /\ ev.type = "remove_node"
  <2>1. h = RemoveNode(g, ev.node)
    BY <1>3 DEF Effect
  <2>2. /\ u.attr = [s.attr EXCEPT ![ev.node] = Absent]
        /\ u.links = {l \in s.links : ev.node # l.src /\ ev.node # l.dst}
    BY <1>3 DEF ShadowStep
  <2>3. h.attr = [g.attr EXCEPT ![ev.node] = Absent]
    BY <2>1 DEF RemoveNode
  <2>4. \A n \in NodeId : HasNode(h, n) => u.attr[n] = RoundTrip[h.attr[n]]
    BY <1>3, <2>2, <2>3 DEF Follows, HasNode, Graph, Shadow, RemoveNodeEvent
  <2>5. Links(h) \subseteq u.links
    BY <2>1, <2>2, LinksRemoveNode DEF Follows
  <2> QED BY <2>4, <2>5 DEF Follows
<1>4. CASE ev \in RemoveEdgeEvent /\ ev.type = "remove_edge"
  <2>1. h = RemoveEdge(g, ev.key) /\ u = s
    BY <1>4 DEF Effect, ShadowStep
  <2>2. h.attr = g.attr
    BY <2>1 DEF RemoveEdge
  <2> QED BY <2>1, <2>2, LinksRemoveEdge DEF Follows, HasNode
<1> QED BY <1>1, <1>2, <1>3, <1>4, EventCases

(* A mutator and its event have the same effect on the node set.           *)
LEMMA SameNodesStep ==
    ASSUME NEW g \in Graph, NEW s \in Shadow, NEW ev \in Event,
           SameNodes(g, s)
    PROVE  SameNodes(Effect(g, ev), ShadowStep(s, ev))
<1>1. CASE ev \in AddNodeEvent /\ ev.type = "add_node"
  BY <1>1, RoundTripAttr, AbsentAssumption
     DEF SameNodes, Effect, ShadowStep, AddNode, HasNode, Graph, Shadow,
         AddNodeEvent
<1>2. CASE ev \in AddEdgeEvent /\ ev.type = "add_edge"
  BY <1>2 DEF SameNodes, Effect, ShadowStep, AddEdge, HasNode, Graph, Shadow
<1>3. CASE ev \in RemoveNodeEvent /\ ev.type = "remove_node"
  BY <1>3 DEF SameNodes, Effect, ShadowStep, RemoveNode, HasNode, Graph,
              Shadow, RemoveNodeEvent
<1>4. CASE ev \in RemoveEdgeEvent /\ ev.type = "remove_edge"
  BY <1>4 DEF SameNodes, Effect, ShadowStep, RemoveEdge, HasNode
<1> QED BY <1>1, <1>2, <1>3, <1>4, EventCases

(* An event whose call succeeded on a graph the log explains replays.      *)
LEMMA ReplayableStep ==
    ASSUME NEW g \in Graph, NEW s \in Shadow, NEW ev \in Event,
           Follows(g, s),
           ev.type = "add_edge" => CanAddEdge(g, ev.src, ev.dst)
    PROVE  Replayable(s, ev)
<1> SUFFICES ASSUME ev.type = "add_edge"
             PROVE  s.attr[ev.src] # Absent /\ s.attr[ev.dst] # Absent
  BY DEF Replayable
<1>1. ev \in AddEdgeEvent
  BY EventCases
<1>2. ev.src \in NodeId /\ ev.dst \in NodeId
  BY <1>1 DEF AddEdgeEvent
<1>3. \A n \in NodeId : HasNode(g, n) => s.attr[n] # Absent
  <2> SUFFICES ASSUME NEW n \in NodeId, HasNode(g, n)
               PROVE  s.attr[n] # Absent
    OBVIOUS
  <2>1. g.attr[n] \in Attr
    BY DEF HasNode, Graph
  <2> QED BY <2>1, RoundTripAttr DEF Follows
<1> QED BY <1>2, <1>3 DEF CanAddEdge
-----------------------------------------------------------------------------
(* The first half of a mutator keeps the invariant.                        *)
LEMMA BeginStep ==
    ASSUME IInv, NEW ev \in Event, NEW g \in Graph, Begin(ev, g),
           g = Effect(graph, ev), WellFormed(g),
           ev.type = "add_edge" => CanAddEdge(graph, ev.src, ev.dst)
    PROVE  IInv'
<1> USE DEF Begin, store, history
<1>1. TypeOK'
  BY DEF IInv, TypeOK, Status
<1>2. TraceInv' /\ RoundTripInv'
  BY DEF IInv, TraceInv, RoundTripInv
<1>3. CleanInv' /\ ExactInv'
  BY DEF IInv, CleanInv, ExactInv, ReplayableUpTo, LogShadow
<1>4. LiveInv'
  <2>1. settled' = graph
    BY DEF IInv, LiveInv
  <2> QED BY <2>1 DEF LiveInv
<1>5. ReplayInv' /\ CleanLogReplays'
  BY DEF ReplayInv, CleanLogReplays
<1>6. GraphWellFormed'
  BY DEF IInv, GraphWellFormed
<1> QED BY <1>1, <1>2, <1>3, <1>4, <1>5, <1>6 DEF IInv

(* The first half of each mutator keeps the invariant.                     *)
LEMMA MutateStep == IInv /\ Mutate => IInv'
<1> SUFFICES ASSUME IInv, Mutate PROVE IInv'
  OBVIOUS
<1>0. graph \in Graph /\ WellFormed(graph)
  BY DEF IInv, TypeOK, GraphWellFormed
<1>1. ASSUME NEW n \in NodeId, NEW a \in Attr, BeginAddNode(n, a)
      PROVE  IInv'
  <2> DEFINE ev == [type |-> "add_node", node |-> n, attr |-> a]
             g == AddNode(graph, n, a)
  <2>1. ev \in Event /\ ev.type = "add_node"
    BY DEF Event, AddNodeEvent
  <2>2. g = Effect(graph, ev)
    BY DEF Effect
  <2>3. g \in Graph /\ WellFormed(g)
    <3>1. g \in Graph
      BY <1>0 DEF AddNode, Graph
    <3> QED BY <1>0, <3>1, AddNodeWellFormed
  <2>4. Begin(ev, g)
    BY <1>1 DEF BeginAddNode
  <2> QED BY <2>1, <2>2, <2>3, <2>4, BeginStep
<1>2. ASSUME NEW s \in NodeId, NEW t \in NodeId, NEW r \in Relation,
             BeginAddEdge(s, t, r)
      PROVE  IInv'
  <2> DEFINE k == FreshKey
             ev == [type |-> "add_edge", key |-> k,
                    src |-> s, dst |-> t, rel |-> r]
             g == AddEdge(graph, k, s, t, r)
  <2>1. k \in EdgeKey /\ k \notin Keys(graph) /\ CanAddEdge(graph, s, t)
    BY <1>2, FreshKeyIsFresh DEF BeginAddEdge, UsedKeys
  <2>2. Begin(ev, g)
    BY <1>2 DEF BeginAddEdge
  <2> HIDE DEF k
  <2>3. ev \in Event /\ ev.type = "add_edge" /\ ev.src = s /\ ev.dst = t
    BY <2>1 DEF Event, AddEdgeEvent
  <2>4. g = Effect(graph, ev)
    BY DEF Effect
  <2>5. g \in Graph /\ WellFormed(g)
    <3>1. g \in Graph
      BY <1>0, <2>1 DEF AddEdge, Graph, Edge
    <3> QED BY <1>0, <2>1, <3>1, AddEdgeWellFormed
  <2> QED BY <2>1, <2>2, <2>3, <2>4, <2>5, BeginStep
<1>3. ASSUME NEW n \in NodeId, BeginRemoveNode(n)
      PROVE  IInv'
  <2> DEFINE ev == [type |-> "remove_node", node |-> n]
             g == RemoveNode(graph, n)
  <2>1. ev \in Event /\ ev.type = "remove_node"
    BY DEF Event, RemoveNodeEvent
  <2>2. g = Effect(graph, ev)
    BY DEF Effect
  <2>3. g \in Graph /\ WellFormed(g)
    <3>1. g \in Graph
      BY <1>0 DEF RemoveNode, Graph
    <3> QED BY <1>0, <3>1, RemoveNodeWellFormed
  <2>4. Begin(ev, g)
    BY <1>3 DEF BeginRemoveNode
  <2> QED BY <2>1, <2>2, <2>3, <2>4, BeginStep
<1>4. ASSUME NEW k \in EdgeKey, BeginRemoveEdge(k)
      PROVE  IInv'
  <2> DEFINE ev == [type |-> "remove_edge", key |-> k]
             g == RemoveEdge(graph, k)
  <2>1. ev \in Event /\ ev.type = "remove_edge"
    BY DEF Event, RemoveEdgeEvent
  <2>2. g = Effect(graph, ev)
    BY DEF Effect
  <2>3. g \in Graph /\ WellFormed(g)
    <3>1. g \in Graph
      BY <1>0 DEF RemoveEdge, Graph
    <3> QED BY <1>0, <3>1, RemoveEdgeWellFormed
  <2>4. Begin(ev, g)
    BY <1>4 DEF BeginRemoveEdge
  <2> QED BY <2>1, <2>2, <2>3, <2>4, BeginStep
<1> QED BY <1>1, <1>2, <1>3, <1>4 DEF Mutate

(* Appending the event of a call that succeeded keeps the log replayable   *)
(* and the graph explained by it.                                          *)
LEMMA AppendEventStep == IInv /\ AppendEvent => IInv'
<1> SUFFICES ASSUME IInv, AppendEvent PROVE IInv'
  OBVIOUS
<1> USE DEF AppendEvent
<1>0. /\ log \in Seq(Event) /\ trace \in Seq(Shadow)
      /\ call \in Event /\ settled \in Graph
      /\ graph = Effect(settled, call)
      /\ call.type = "add_edge" => CanAddEdge(settled, call.src, call.dst)
      /\ Len(trace) = Len(log) + 1
  BY DEF IInv, TypeOK, LiveInv, TraceInv
<1>1. LogShadow \in Shadow /\ ShadowStep(LogShadow, call) \in Shadow
  <2>1. LogShadow \in Shadow
    BY <1>0 DEF LogShadow
  <2> QED BY <1>0, <2>1, ShadowStepType
<1>2. /\ Len(log') = Len(log) + 1
      /\ \A i \in 1..Len(log) : log'[i] = log[i]
      /\ log'[Len(log) + 1] = call
      /\ Len(trace') = Len(trace) + 1
      /\ \A i \in 1..Len(trace) : trace'[i] = trace[i]
      /\ trace'[Len(trace) + 1] = ShadowStep(LogShadow, call)
  BY <1>0, <1>1
<1>3. LogShadow' = ShadowStep(LogShadow, call)
  BY <1>0, <1>2 DEF LogShadow
<1>4. TypeOK'
  <2>1. log' \in Seq(Event) /\ trace' \in Seq(Shadow)
    BY <1>0, <1>1
  <2> QED BY <2>1 DEF IInv, TypeOK, Status
<1>5. TraceInv'
  <2>1. Len(trace') = Len(log') + 1 /\ trace'[1] = EmptyShadow
    BY <1>0, <1>2 DEF IInv, TraceInv
  <2>2. ASSUME NEW i \in 1..Len(log')
        PROVE  trace'[i + 1] = ShadowStep(trace'[i], log'[i])
    <3>1. CASE i \in 1..Len(log)
      <4>1. i \in 1..Len(trace) /\ i + 1 \in 1..Len(trace)
        BY <1>0, <3>1
      <4> QED BY <1>2, <3>1, <4>1 DEF IInv, TraceInv
    <3>2. CASE i = Len(log) + 1
      <4>1. trace'[i] = LogShadow
        BY <1>0, <1>2, <3>2 DEF LogShadow
      <4> QED BY <1>0, <1>2, <3>2, <4>1
    <3> QED BY <1>0, <1>2, <3>1, <3>2
  <2> QED BY <2>1, <2>2 DEF TraceInv
<1>6. CleanInv'
  <2> SUFFICES ASSUME clean
               PROVE  /\ ~corrupt
                      /\ ReplayableUpTo(Len(log))'
                      /\ Follows(graph, LogShadow')
    BY DEF CleanInv
  <2>1. ~corrupt /\ ReplayableUpTo(Len(log)) /\ Follows(settled, LogShadow)
    BY DEF IInv, CleanInv
  <2>2. Follows(graph, LogShadow')
    BY <1>0, <1>1, <1>3, <2>1, FollowsStep
  <2>3. ASSUME NEW i \in 1..Len(log')
        PROVE  Replayable(trace'[i], log'[i])
    <3>1. CASE i \in 1..Len(log)
      BY <1>0, <1>2, <2>1, <3>1 DEF ReplayableUpTo
    <3>2. CASE i = Len(log) + 1
      <4>1. trace'[i] = LogShadow /\ log'[i] = call
        BY <1>0, <1>2, <3>2 DEF LogShadow
      <4>2. Replayable(LogShadow, call)
        BY <1>0, <1>1, <2>1, ReplayableStep
      <4> QED BY <4>1, <4>2
    <3> QED BY <1>0, <1>2, <3>1, <3>2
  <2> QED BY <2>1, <2>2, <2>3 DEF ReplayableUpTo
<1>7. ExactInv'
  <2> SUFFICES ASSUME exact
               PROVE  clean /\ SameNodes(graph, LogShadow')
    BY DEF ExactInv
  <2>1. clean /\ SameNodes(settled, LogShadow)
    BY DEF IInv, ExactInv
  <2> QED BY <1>0, <1>1, <1>3, <2>1, SameNodesStep
<1>8. LiveInv' /\ ReplayInv' /\ CleanLogReplays'
  BY DEF LiveInv, ReplayInv, CleanLogReplays
<1>9. RoundTripInv'
  <2>1. \A i \in 1..Len(trace), n \in NodeId :
           trace[i].attr[n] # Absent =>
              RoundTrip[trace[i].attr[n]] = trace[i].attr[n]
    BY DEF IInv, RoundTripInv
  <2>2. Len(log) + 1 \in 1..Len(trace) /\ LogShadow = trace[Len(log) + 1]
    BY <1>0 DEF LogShadow
  <2>3. \A n \in NodeId : LogShadow.attr[n] # Absent =>
           RoundTrip[LogShadow.attr[n]] = LogShadow.attr[n]
    BY <2>1, <2>2
  <2>4. \A n \in NodeId : ShadowStep(LogShadow, call).attr[n] # Absent =>
           RoundTrip[ShadowStep(LogShadow, call).attr[n]]
             = ShadowStep(LogShadow, call).attr[n]
    BY <1>0, <1>1, <2>3, ShadowStepRoundTrip
  <2>5. ASSUME NEW i \in 1..Len(trace')
        PROVE  trace'[i] = ShadowStep(LogShadow, call)
                 \/ (i \in 1..Len(trace) /\ trace'[i] = trace[i])
    BY <1>0, <1>2
  <2> QED BY <2>1, <2>4, <2>5 DEF RoundTripInv
<1>10. GraphWellFormed'
  BY DEF IInv, GraphWellFormed
<1> QED BY <1>4, <1>5, <1>6, <1>7, <1>8, <1>9, <1>10 DEF IInv

(* The steps that fail, stop or restart the process.                       *)
LEMMA AppendFailsStep ==
    ASSUME IInv, NEW torn \in BOOLEAN, AppendFails(torn)
    PROVE  IInv'
<1> USE DEF AppendFails
<1>1. TypeOK'
  BY DEF IInv, TypeOK, Status
<1>2. TraceInv' /\ RoundTripInv'
  BY DEF IInv, TraceInv, RoundTripInv
<1>3. CleanInv' /\ ExactInv' /\ LiveInv' /\ ReplayInv' /\ CleanLogReplays'
  BY DEF CleanInv, ExactInv, LiveInv, ReplayInv, CleanLogReplays
<1>4. GraphWellFormed'
  BY DEF IInv, GraphWellFormed
<1> QED BY <1>1, <1>2, <1>3, <1>4 DEF IInv

(* A crash, torn write or not, keeps the invariant.                        *)
LEMMA CrashStep ==
    ASSUME IInv, NEW torn \in BOOLEAN, Crash(torn)
    PROVE  IInv'
<1> USE DEF Crash
<1>1. TypeOK'
  BY EmptyGraphFacts DEF IInv, TypeOK, Status
<1>2. TraceInv' /\ RoundTripInv'
  BY DEF IInv, TraceInv, RoundTripInv
<1>3. CleanInv' /\ ExactInv'
  BY DEF IInv, CleanInv, ExactInv, ReplayableUpTo, LogShadow
<1>4. LiveInv' /\ ReplayInv' /\ CleanLogReplays'
  BY DEF LiveInv, ReplayInv, CleanLogReplays
<1>5. GraphWellFormed'
  BY EmptyGraphFacts DEF IInv, GraphWellFormed
<1> QED BY <1>1, <1>2, <1>3, <1>4, <1>5 DEF IInv

(* The shadow of an empty log is a shadow.                                 *)
LEMMA EmptyShadowType == EmptyShadow \in Shadow
BY DEF EmptyShadow, Shadow

(* Clearing the log keeps the invariant.                                   *)
LEMMA ClearLogStep == IInv /\ ClearLog => IInv'
<1> SUFFICES ASSUME IInv, ClearLog PROVE IInv'
  OBVIOUS
<1> USE DEF ClearLog
<1>0. Len(log') = 0 /\ Len(trace') = 1 /\ trace'[1] = EmptyShadow
  OBVIOUS
<1>1. TypeOK'
  <2>1. log' \in Seq(Event) /\ trace' \in Seq(Shadow)
    BY EmptyShadowType
  <2> QED BY <2>1 DEF IInv, TypeOK
<1>2. TraceInv'
  BY <1>0 DEF TraceInv
<1>3. RoundTripInv'
  BY <1>0 DEF RoundTripInv, EmptyShadow
<1>4. CleanInv' /\ ExactInv' /\ LiveInv' /\ ReplayInv' /\ CleanLogReplays'
  BY DEF IInv, CleanInv, ExactInv, LiveInv, ReplayInv, CleanLogReplays
<1>5. GraphWellFormed'
  BY DEF IInv, GraphWellFormed
<1> QED BY <1>1, <1>2, <1>3, <1>4, <1>5 DEF IInv

(* The empty graph of a constructor is explained by any log.               *)
LEMMA EmptyFollows ==
    /\ \A s \in Shadow : Follows(EmptyGraph, s)
    /\ SameNodes(EmptyGraph, EmptyShadow)
<1>1. ASSUME NEW s \in Shadow PROVE Follows(EmptyGraph, s)
  BY EmptyGraphFacts DEF Follows
<1>2. SameNodes(EmptyGraph, EmptyShadow)
  BY EmptyGraphFacts DEF SameNodes, EmptyShadow
<1> QED BY <1>1, <1>2

(* A fresh graph beside an old log keeps the invariant.                    *)
LEMMA StartFreshStep == IInv /\ StartFresh => IInv'
<1> SUFFICES ASSUME IInv, StartFresh PROVE IInv'
  OBVIOUS
<1> USE DEF StartFresh, store
<1>1. TypeOK'
  BY EmptyGraphFacts DEF IInv, TypeOK, Status
<1>2. TraceInv' /\ RoundTripInv'
  BY DEF IInv, TraceInv, RoundTripInv
<1>3. LogShadow' = LogShadow /\ LogShadow \in Shadow
  BY DEF LogShadow, IInv, TypeOK, TraceInv
<1>4. CleanInv'
  <2>1. Follows(EmptyGraph, LogShadow)
    BY <1>3, EmptyFollows
  <2> QED BY <1>3, <2>1 DEF IInv, CleanInv, ReplayableUpTo
<1>5. ExactInv'
  <2>1. log = <<>> => LogShadow = EmptyShadow
    BY DEF IInv, TraceInv, LogShadow
  <2> QED BY <1>3, <2>1, EmptyFollows DEF ExactInv
<1>6. LiveInv' /\ ReplayInv' /\ CleanLogReplays'
  BY DEF LiveInv, ReplayInv, CleanLogReplays
<1>7. GraphWellFormed'
  BY EmptyGraphFacts DEF GraphWellFormed
<1> QED BY <1>1, <1>2, <1>4, <1>5, <1>6, <1>7 DEF IInv
-----------------------------------------------------------------------------
(* The steps of replay_from.                                               *)
LEMMA StartReplayStep == IInv /\ StartReplay => IInv'
<1> SUFFICES ASSUME IInv, StartReplay PROVE IInv'
  OBVIOUS
<1> USE DEF StartReplay, store, history
<1>1. TypeOK'
  BY EmptyGraphFacts, DimAssumption DEF IInv, TypeOK, Status
<1>2. TraceInv' /\ RoundTripInv'
  BY DEF IInv, TraceInv, RoundTripInv
<1>3. CleanInv' /\ ExactInv'
  BY DEF IInv, CleanInv, ExactInv, ReplayableUpTo, LogShadow
<1>4. LiveInv'
  BY DEF LiveInv
<1>5. ReplayInv'
  <2>1. trace[1] = EmptyShadow /\ Len(log) \in Nat
    BY DEF IInv, TypeOK, TraceInv
  <2>2. EmptyGraph.attr = EmptyShadow.attr /\ Links(EmptyGraph) = EmptyShadow.links
    BY EmptyGraphFacts DEF EmptyGraph, EmptyShadow
  <2>3. graph' = EmptyGraph /\ trace' = trace /\ log' = log /\ cursor' = 0
          /\ corrupt' = corrupt /\ (status' = "replaying" => ~corrupt)
    OBVIOUS
  <2>4. Links(graph)' = {} /\ Keys(graph)' = {}
    <3>1. Links(graph)' = Links(graph') /\ Keys(graph)' = Keys(graph')
      BY DEF Links, Keys
    <3> QED BY <2>3, <3>1, EmptyGraphFacts
  <2>5. ReplayableUpTo(cursor)'
    BY <2>3 DEF ReplayableUpTo
  <2>6. graph'.attr = trace'[cursor' + 1].attr
    BY <2>1, <2>2, <2>3
  <2>7. Links(graph)' = trace'[cursor' + 1].links
    <3>1. trace'[cursor' + 1] = EmptyShadow
      BY <2>1, <2>3
    <3>2. EmptyShadow.links = {}
      BY DEF EmptyShadow
    <3> QED BY <2>4, <3>1, <3>2
  <2>8. cursor' \in 0..Len(log')
    BY <2>1, <2>3
  <2> HIDE DEF StartReplay
  <2> QED BY <2>3, <2>4, <2>5, <2>6, <2>7, <2>8 DEF ReplayInv
<1>6. CleanLogReplays'
  BY DEF IInv, CleanInv, CleanLogReplays
<1>7. GraphWellFormed'
  BY EmptyGraphFacts DEF IInv, GraphWellFormed
<1> QED BY <1>1, <1>2, <1>3, <1>4, <1>5, <1>6, <1>7 DEF IInv

(* One replayed event does to the graph, up to edge keys, what ShadowStep  *)
(* does to the history.  For remove_edge this is where the logged key is   *)
(* unknown to the rebuilt graph.                                           *)
LEMMA ReplayEventStep ==
    ASSUME NEW g \in Graph, NEW s \in Shadow, NEW ev \in Event, NEW k,
           g.attr = s.attr, Links(g) = s.links,
           ev.type = "remove_edge" => ev.key \notin Keys(g)
    PROVE  /\ ReplayEvent(g, ev, k).attr = ShadowStep(s, ev).attr
           /\ Links(ReplayEvent(g, ev, k)) = ShadowStep(s, ev).links
<1> DEFINE h == ReplayEvent(g, ev, k)
           u == ShadowStep(s, ev)
<1>1. CASE ev \in AddNodeEvent /\ ev.type = "add_node"
  <2>1. h = AddNode(g, ev.node, RoundTrip[ev.attr])
    BY <1>1 DEF ReplayEvent
  <2>2. u.attr = [s.attr EXCEPT ![ev.node] = RoundTrip[ev.attr]]
          /\ u.links = s.links
    BY <1>1 DEF ShadowStep, Shadow
  <2>3. Links(h) = Links(g)
    BY <2>1, LinksAddNode
  <2>4. h.attr = [g.attr EXCEPT ![ev.node] = RoundTrip[ev.attr]]
    BY <2>1 DEF AddNode
  <2> QED BY <2>2, <2>3, <2>4
<1>2. CASE ev \in AddEdgeEvent /\ ev.type = "add_edge"
  <2>1. h = AddEdge(g, k, ev.src, ev.dst, ev.rel)
    BY <1>2 DEF ReplayEvent
  <2>2. u.attr = s.attr /\ u.links = s.links \cup {LinkOf(ev)}
    BY <1>2 DEF ShadowStep, Shadow
  <2>3. Links(h) = Links(g) \cup {LinkOf(ev)}
    BY <2>1, LinksAddEdge DEF LinkOf
  <2>4. h.attr = g.attr
    BY <2>1 DEF AddEdge
  <2> QED BY <2>2, <2>3, <2>4
<1>3. CASE ev \in RemoveNodeEvent /\ ev.type = "remove_node"
  <2>1. h = RemoveNode(g, ev.node)
    BY <1>3 DEF ReplayEvent
  <2>2. /\ u.attr = [s.attr EXCEPT ![ev.node] = Absent]
        /\ u.links = {l \in s.links : ev.node # l.src /\ ev.node # l.dst}
    BY <1>3 DEF ShadowStep
  <2>3. Links(h) = {l \in Links(g) : ev.node # l.src /\ ev.node # l.dst}
    BY <2>1, LinksRemoveNode
  <2>4. h.attr = [g.attr EXCEPT ![ev.node] = Absent]
    BY <2>1 DEF RemoveNode
  <2> QED BY <2>2, <2>3, <2>4
<1>4. CASE ev \in RemoveEdgeEvent /\ ev.type = "remove_edge"
  <2>1. h = RemoveEdge(g, ev.key) /\ u = s
    BY <1>4 DEF ReplayEvent, ShadowStep
  <2>2. h = g
    BY <1>4, <2>1, RemoveUnknownKey
  <2> QED BY <2>1, <2>2
<1> QED BY <1>1, <1>2, <1>3, <1>4, EventCases

(* Replaying one event gives a well-formed graph, with no key but a new    *)
(* one.                                                                    *)
LEMMA ReplayEventGraph ==
    ASSUME NEW g \in Graph, NEW ev \in Event, NEW k, WellFormed(g),
           ev.type = "add_edge" =>
              CanAddEdge(g, ev.src, ev.dst) /\ k \in EdgeKey /\ k \notin Keys(g)
    PROVE  /\ ReplayEvent(g, ev, k) \in Graph
           /\ WellFormed(ReplayEvent(g, ev, k))
           /\ Keys(ReplayEvent(g, ev, k)) \subseteq Keys(g) \cup {k}
           /\ ev.type # "add_edge" =>
                 Keys(ReplayEvent(g, ev, k)) \subseteq Keys(g)
<1> DEFINE h == ReplayEvent(g, ev, k)
<1>1. CASE ev \in AddNodeEvent /\ ev.type = "add_node"
  <2>1. h = AddNode(g, ev.node, RoundTrip[ev.attr])
    BY <1>1 DEF ReplayEvent
  <2>2. ev.node \in NodeId /\ RoundTrip[ev.attr] \in Attr
    BY <1>1, RoundTripAttr DEF AddNodeEvent
  <2>3. h \in Graph
    BY <2>1, <2>2 DEF AddNode, Graph
  <2> QED BY <2>1, <2>2, <2>3, AddNodeWellFormed, LinksAddNode
<1>2. CASE ev \in AddEdgeEvent /\ ev.type = "add_edge"
  <2>1. h = AddEdge(g, k, ev.src, ev.dst, ev.rel)
    BY <1>2 DEF ReplayEvent
  <2>2. ev.src \in NodeId /\ ev.dst \in NodeId /\ ev.rel \in Relation
    BY <1>2 DEF AddEdgeEvent
  <2>3. h \in Graph
    BY <1>2, <2>1, <2>2 DEF AddEdge, Graph, Edge
  <2>4. WellFormed(h)
    BY <1>2, <2>1, <2>2, AddEdgeWellFormed
  <2> QED BY <1>2, <2>1, <2>3, <2>4, LinksAddEdge
<1>3. CASE ev \in RemoveNodeEvent /\ ev.type = "remove_node"
  <2>1. h = RemoveNode(g, ev.node)
    BY <1>3 DEF ReplayEvent
  <2>2. ev.node \in NodeId
    BY <1>3 DEF RemoveNodeEvent
  <2>3. h \in Graph
    BY <2>1, <2>2 DEF RemoveNode, Graph
  <2> QED BY <2>1, <2>2, <2>3, RemoveNodeWellFormed, LinksRemoveNode
<1>4. CASE ev \in RemoveEdgeEvent /\ ev.type = "remove_edge"
  <2>1. h = RemoveEdge(g, ev.key)
    BY <1>4 DEF ReplayEvent
  <2>2. h \in Graph
    BY <2>1 DEF RemoveEdge, Graph
  <2> QED BY <2>1, <2>2, RemoveEdgeWellFormed, LinksRemoveEdge
<1> QED BY <1>1, <1>2, <1>3, <1>4, EventCases

(* One event of a replay keeps the invariant.                              *)
LEMMA ReplayStepStep == IInv /\ ReplayStep => IInv'
<1> SUFFICES ASSUME IInv, ReplayStep PROVE IInv'
  OBVIOUS
<1> DEFINE ev == log[cursor + 1]
           s == trace[cursor + 1]
           k == FreshKey
<1>0. /\ status = "replaying" /\ status' = status
      /\ cursor < Len(log) /\ cursor' = cursor + 1
      /\ Replayable(graph, ev)
      /\ ev.type = "add_edge" => HasFreshKey
      /\ graph' = ReplayEvent(graph, ev, k)
      /\ UNCHANGED <<hd_dim, backend, log, corrupt, call, settled, clean,
                     exact, trace>>
  BY DEF ReplayStep, store, history
<1> HIDE DEF k
<1>1. /\ cursor \in 0..Len(log) /\ Len(log) \in Nat
      /\ Len(trace) = Len(log) + 1
      /\ cursor + 1 \in 1..Len(log)
      /\ cursor + 1 \in 1..Len(trace)
      /\ ev \in Event /\ s \in Shadow
      /\ graph \in Graph /\ WellFormed(graph)
  BY <1>0 DEF IInv, TypeOK, TraceInv, ReplayInv, GraphWellFormed
<1>2. /\ graph.attr = s.attr /\ Links(graph) = s.links
      /\ Keys(graph) \cap LogKeys = {} /\ ReplayableUpTo(cursor) /\ ~corrupt
  BY <1>0 DEF IInv, ReplayInv
<1>3. ev.type \in {"add_edge", "remove_edge"} => ev.key \in LogKeys
  BY <1>1 DEF LogKeys
<1>4. trace[cursor + 2] = ShadowStep(s, ev)
  <2>1. trace[(cursor + 1) + 1] = ShadowStep(s, ev)
    BY <1>1 DEF IInv, TraceInv
  <2>2. (cursor + 1) + 1 = cursor + 2
    BY <1>1
  <2> QED BY <2>1, <2>2
<1>5. ev.type = "add_edge" => CanAddEdge(graph, ev.src, ev.dst)
                              /\ k \in EdgeKey /\ k \notin Keys(graph)
                              /\ k \notin LogKeys
  BY <1>0, FreshKeyIsFresh DEF Replayable, CanAddEdge, HasNode, UsedKeys, k
<1>6. /\ graph' \in Graph /\ WellFormed(graph')
      /\ Keys(graph') \subseteq Keys(graph) \cup {k}
      /\ ev.type # "add_edge" => Keys(graph') \subseteq Keys(graph)
  BY <1>0, <1>1, <1>5, ReplayEventGraph
<1>7. TypeOK'
  BY <1>0, <1>1, <1>6 DEF IInv, TypeOK
<1>8. TraceInv' /\ RoundTripInv'
  BY <1>0 DEF IInv, TraceInv, RoundTripInv
<1>9. CleanInv' /\ ExactInv'
  BY <1>0 DEF IInv, CleanInv, ExactInv, ReplayableUpTo, LogShadow
<1>10. LiveInv' /\ CleanLogReplays'
  BY <1>0 DEF LiveInv, CleanLogReplays
<1>11. ReplayInv'
  <2>1. graph'.attr = trace[cursor + 2].attr
          /\ Links(graph') = trace[cursor + 2].links
    <3>1. ev.type = "remove_edge" => ev.key \notin Keys(graph)
      BY <1>2, <1>3
    <3> QED BY <1>0, <1>1, <1>2, <1>4, <3>1, ReplayEventStep
  <2>2. LogKeys' = LogKeys
    BY <1>0 DEF LogKeys
  <2>3. Keys(graph') \cap LogKeys = {}
    <3>1. CASE ev.type = "add_edge"
      <4>1. Keys(graph') \subseteq Keys(graph) \cup {k} /\ k \notin LogKeys
        BY <1>5, <1>6, <3>1
      <4> QED BY <1>2, <4>1
    <3>2. CASE ev.type # "add_edge"
      <4>1. Keys(graph') \subseteq Keys(graph)
        BY <1>6, <3>2
      <4> QED BY <1>2, <4>1
    <3> QED BY <3>1, <3>2
  <2>4. Replayable(s, ev)
    BY <1>0, <1>2 DEF Replayable
  <2>5. ReplayableUpTo(cursor + 1)
    <3>1. \A i \in 1..(cursor + 1) : i \in 1..cursor \/ i = cursor + 1
      BY <1>1
    <3> QED BY <1>2, <2>4, <3>1 DEF ReplayableUpTo
  <2>6. cursor' + 1 = cursor + 2 /\ cursor' \in 0..Len(log')
    BY <1>0, <1>1
  <2>7. ReplayableUpTo(cursor)'
    BY <1>0, <2>5 DEF ReplayableUpTo
  <2>8. graph'.attr = trace'[cursor' + 1].attr
          /\ Links(graph)' = trace'[cursor' + 1].links
    <3>1. Links(graph)' = Links(graph') /\ trace' = trace
      BY <1>0 DEF Links
    <3> QED BY <2>1, <2>6, <3>1
  <2>9. (Keys(graph) \cap LogKeys)' = {}
    <3>1. Keys(graph)' = Keys(graph')
      BY DEF Keys
    <3> QED BY <2>2, <2>3, <3>1
  <2>10. ~corrupt'
    BY <1>0, <1>2
  <2> QED BY <2>6, <2>7, <2>8, <2>9, <2>10 DEF ReplayInv
<1>12. GraphWellFormed'
  BY <1>0, <1>6 DEF IInv, GraphWellFormed
<1> QED BY <1>7, <1>8, <1>9, <1>10, <1>11, <1>12 DEF IInv

(* A replayed add_edge can only raise if the log was not written cleanly.  *)
LEMMA ReplayRaisesStep == IInv /\ ReplayRaises => IInv'
<1> SUFFICES ASSUME IInv, ReplayRaises PROVE IInv'
  OBVIOUS
<1> USE DEF ReplayRaises, store, history
<1>1. TypeOK'
  BY EmptyGraphFacts DEF IInv, TypeOK, Status
<1>2. TraceInv' /\ RoundTripInv'
  BY DEF IInv, TraceInv, RoundTripInv
<1>3. CleanInv' /\ ExactInv'
  BY DEF IInv, CleanInv, ExactInv, ReplayableUpTo, LogShadow
<1>4. LiveInv' /\ ReplayInv'
  BY DEF LiveInv, ReplayInv
<1>5. CleanLogReplays'
  <2>1. cursor + 1 \in 1..Len(log) /\ graph.attr = trace[cursor + 1].attr
    BY DEF IInv, ReplayInv, TypeOK
  <2>2. ~Replayable(trace[cursor + 1], log[cursor + 1])
    BY <2>1 DEF Replayable
  <2>3. ~clean
    BY <2>1, <2>2 DEF IInv, CleanInv, ReplayableUpTo
  <2> QED BY <2>3 DEF CleanLogReplays
<1>6. GraphWellFormed'
  BY EmptyGraphFacts DEF IInv, GraphWellFormed
<1> QED BY <1>1, <1>2, <1>3, <1>4, <1>5, <1>6 DEF IInv

(* When a replay completes, the graph is what the log says.                *)
LEMMA RebuiltGraph ==
    ASSUME IInv, ReplayDone
    PROVE  /\ LogShadow \in Shadow
           /\ graph.attr = LogShadow.attr
           /\ Links(graph) = LogShadow.links
           /\ Follows(graph, LogShadow)
           /\ SameNodes(graph, LogShadow)
           /\ ReplayableUpTo(Len(log))
<1>1. cursor = Len(log) /\ status = "replaying"
  BY DEF ReplayDone
<1>2. /\ Len(trace) = Len(log) + 1 /\ Len(log) \in Nat
      /\ Len(log) + 1 \in 1..Len(trace)
      /\ LogShadow \in Shadow
  BY DEF IInv, TypeOK, TraceInv, LogShadow
<1>3. /\ graph.attr = LogShadow.attr /\ Links(graph) = LogShadow.links
      /\ ReplayableUpTo(Len(log))
  BY <1>1 DEF IInv, ReplayInv, LogShadow
<1>4. \A n \in NodeId : LogShadow.attr[n] # Absent =>
         RoundTrip[LogShadow.attr[n]] = LogShadow.attr[n]
  BY <1>2 DEF IInv, RoundTripInv, LogShadow
<1> QED BY <1>2, <1>3, <1>4 DEF Follows, SameNodes, HasNode

(* The end of a replay keeps the invariant.                                *)
LEMMA ReplayDoneStep == IInv /\ ReplayDone => IInv'
<1> SUFFICES ASSUME IInv, ReplayDone PROVE IInv'
  OBVIOUS
<1>0. /\ settled' = graph /\ status' = "up" /\ clean' = TRUE
      /\ exact' = TRUE /\ cursor' = 0 /\ status = "replaying"
      /\ UNCHANGED <<graph, hd_dim, backend, log, corrupt, call, trace>>
  BY DEF ReplayDone, store
<1>1. TypeOK'
  BY <1>0 DEF IInv, TypeOK, Status
<1>2. TraceInv' /\ RoundTripInv'
  BY <1>0 DEF IInv, TraceInv, RoundTripInv
<1>3. LogShadow' = LogShadow
  BY <1>0 DEF LogShadow
<1>4. CleanInv' /\ ExactInv'
  <2>1. ~corrupt
    BY <1>0 DEF IInv, ReplayInv
  <2>2. ReplayableUpTo(Len(log))' 
    BY <1>0, RebuiltGraph DEF ReplayableUpTo
  <2> QED BY <1>0, <1>3, <2>1, <2>2, RebuiltGraph DEF CleanInv, ExactInv
<1>5. LiveInv' /\ ReplayInv' /\ CleanLogReplays'
  BY <1>0 DEF LiveInv, ReplayInv, CleanLogReplays
<1>6. GraphWellFormed'
  BY <1>0 DEF IInv, GraphWellFormed
<1> QED BY <1>1, <1>2, <1>4, <1>5, <1>6 DEF IInv
-----------------------------------------------------------------------------
(* The invariant holds at the start.                                       *)
LEMMA InitIInv == Init => IInv
<1> SUFFICES ASSUME Init PROVE IInv
  OBVIOUS
<1> USE DEF Init
<1>1. TypeOK
  <2>1. log \in Seq(Event) /\ trace \in Seq(Shadow)
    BY EmptyShadowType
  <2> QED BY <2>1, EmptyGraphFacts DEF TypeOK, Status
<1>2. Len(log) = 0 /\ Len(trace) = 1 /\ trace[1] = EmptyShadow
  OBVIOUS
<1>3. TraceInv /\ LogShadow = EmptyShadow
  BY <1>2 DEF TraceInv, LogShadow
<1>4. RoundTripInv
  BY <1>2 DEF RoundTripInv, EmptyShadow
<1>5. CleanInv /\ ExactInv
  BY <1>2, <1>3, EmptyFollows, EmptyShadowType
     DEF CleanInv, ExactInv, ReplayableUpTo
<1>6. LiveInv /\ ReplayInv /\ CleanLogReplays
  BY DEF LiveInv, ReplayInv, CleanLogReplays
<1>7. GraphWellFormed
  BY EmptyGraphFacts DEF GraphWellFormed
<1> QED BY <1>1, <1>3, <1>4, <1>5, <1>6, <1>7 DEF IInv

(* The invariant speaks of no variable outside vars.                       *)
LEMMA StutterStep == IInv /\ UNCHANGED vars => IInv'
<1> SUFFICES ASSUME IInv, UNCHANGED vars PROVE IInv'
  OBVIOUS
<1> USE DEF vars, store, history
<1>1. TypeOK' /\ TraceInv' /\ RoundTripInv' /\ GraphWellFormed'
  BY DEF IInv, TypeOK, TraceInv, RoundTripInv, GraphWellFormed
<1>2. CleanInv' /\ ExactInv'
  BY DEF IInv, CleanInv, ExactInv, ReplayableUpTo, LogShadow
<1>3. LiveInv' /\ CleanLogReplays'
  BY DEF IInv, LiveInv, CleanLogReplays
<1>4. ReplayInv'
  BY DEF IInv, ReplayInv, ReplayableUpTo, LogKeys
<1> QED BY <1>1, <1>2, <1>3, <1>4 DEF IInv

(* Every step keeps the invariant.                                         *)
LEMMA NextIInv == IInv /\ [Next]_vars => IInv'
<1> SUFFICES ASSUME IInv, [Next]_vars PROVE IInv'
  OBVIOUS
<1>1. CASE Mutate
  BY <1>1, MutateStep
<1>2. CASE AppendEvent
  BY <1>2, AppendEventStep
<1>3. CASE \E torn \in BOOLEAN : AppendFails(torn)
  BY <1>3, AppendFailsStep
<1>4. CASE \E torn \in BOOLEAN : Crash(torn)
  BY <1>4, CrashStep
<1>5. CASE ClearLog
  BY <1>5, ClearLogStep
<1>6. CASE StartFresh
  BY <1>6, StartFreshStep
<1>7. CASE StartReplay
  BY <1>7, StartReplayStep
<1>8. CASE ReplayStep
  BY <1>8, ReplayStepStep
<1>9. CASE ReplayRaises
  BY <1>9, ReplayRaisesStep
<1>10. CASE ReplayDone
  BY <1>10, ReplayDoneStep
<1>11. CASE UNCHANGED vars
  BY <1>11, StutterStep
<1> QED BY <1>1, <1>2, <1>3, <1>4, <1>5, <1>6, <1>7, <1>8, <1>9, <1>10, <1>11
        DEF Next, Replay

(* The inductive invariant holds in every reachable state.                 *)
THEOREM Invariance == Spec => []IInv
BY InitIInv, NextIInv, PTL DEF Spec

(* Every variable keeps its type.                                          *)
THEOREM TypeCorrect == Spec => []TypeOK
<1>1. IInv => TypeOK
  BY DEF IInv
<1> QED BY <1>1, Invariance, PTL

(* A cleanly written log always replays: replay_from never lets a KeyError *)
(* out and never meets a line it cannot parse.                             *)
THEOREM CleanLogReplaysAlways == Spec => []CleanLogReplays
<1>1. IInv => CleanLogReplays
  BY DEF IInv
<1> QED BY <1>1, Invariance, PTL

(* The live graph is well formed, before and after every recovery.         *)
THEOREM WellFormedAlways == Spec => []GraphWellFormed
<1>1. IInv => GraphWellFormed
  BY DEF IInv
<1> QED BY <1>1, Invariance, PTL

(* A completed replay of a cleanly written log has kept every acknowledged *)
(* node and link.                                                          *)
THEOREM RecoveryKeepsAcknowledgedWork == Spec => RecoveryKeepsWork
<1>1. ASSUME IInv, [Next]_vars, ReplayDone, clean
      PROVE  /\ \A n \in NodeId : HasNode(settled, n) =>
                   graph'.attr[n] = RoundTrip[settled.attr[n]]
             /\ Links(settled) \subseteq Links(graph')
  <2>1. graph' = graph
    BY <1>1 DEF ReplayDone
  <2>2. Follows(settled, LogShadow)
    BY <1>1 DEF IInv, CleanInv
  <2>3. graph.attr = LogShadow.attr /\ Links(graph) = LogShadow.links
    BY <1>1, RebuiltGraph
  <2> QED BY <2>1, <2>2, <2>3 DEF Follows
<1>2. IInv /\ [Next]_vars =>
        [ReplayDone /\ clean =>
          /\ \A n \in NodeId : HasNode(settled, n) =>
                graph'.attr[n] = RoundTrip[settled.attr[n]]
          /\ Links(settled) \subseteq Links(graph')]_vars
  BY <1>1
<1> QED BY <1>2, Invariance, PTL DEF Spec, RecoveryKeepsWork

(* A completed replay brings no removed node back.                         *)
THEOREM RecoveryRestoresNodeSet == Spec => RecoveryNodesExact
<1>1. ASSUME IInv, [Next]_vars, ReplayDone, exact
      PROVE  Nodes(graph') = Nodes(settled)
  <2>1. graph' = graph
    BY <1>1 DEF ReplayDone
  <2>2. SameNodes(settled, LogShadow) /\ SameNodes(graph, LogShadow)
    BY <1>1, RebuiltGraph DEF IInv, ExactInv
  <2> QED BY <2>1, <2>2 DEF SameNodes, Nodes
<1>2. IInv /\ [Next]_vars =>
        [ReplayDone /\ exact => Nodes(graph') = Nodes(settled)]_vars
  BY <1>1
<1> QED BY <1>2, Invariance, PTL DEF Spec, RecoveryNodesExact
=============================================================================
