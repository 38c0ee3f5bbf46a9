------------------------- MODULE EventSourcedGraph -------------------------
(***************************************************************************)
(* EventLog and EventSourcedGraph (src/smgp/memory/event_log.py): a live   *)
(* graph in one process, and the log it appends every mutation to, in a    *)
(* JSONL file or a SQLite table.                                           *)
(*                                                                         *)
(* A mutator first changes the graph and then appends the event, so a call *)
(* is two steps (the "appending" status lies between them) and the process *)
(* may stop, or the append may raise, in the middle.  The log survives the *)
(* process; the graph is lost and rebuilt by replay_from, which re-executes*)
(* the events one after the other and draws a new uuid for every edge.     *)
(***************************************************************************)
EXTENDS MemoryGraph, Naturals, Sequences, FiniteSets

CONSTANTS
    RoundTrip,   \* what an attribute becomes through JSON and int8
    Dim, DimOf,  \* dimensions, and the dimension of an attribute's vector
    DefaultDim,  \* the hd_dim replay_from passes: 10000
    Backend,     \* the storage backends a log may be opened with
    MaxLog,      \* bound: number of events in the log
    MaxEdges,    \* bound: number of edges in the graph
    Faults,      \* what may go wrong: see Fault
    NoCall       \* no mutator call is in flight

ASSUME RoundTripAssumption ==
    /\ RoundTrip \in [Attr -> Attr]
    /\ \A a \in Attr : RoundTrip[RoundTrip[a]] = RoundTrip[a]

ASSUME DimAssumption == DimOf \in [Attr -> Dim] /\ DefaultDim \in Dim

ASSUME BackendAssumption == Backend \subseteq {"jsonl", "sqlite"}

ASSUME BoundAssumption == MaxLog \in Nat /\ MaxEdges \in Nat

(* "tear": a write stops inside a line; "append_error": append raises;     *)
(* "clear": the log is cleared beside a live graph or between sessions.    *)
Fault == {"tear", "append_error", "clear"}

ASSUME FaultsAssumption == Faults \subseteq Fault

AddNodeEvent == [type : {"add_node"}, node : NodeId, attr : Attr]
AddEdgeEvent == [type : {"add_edge"}, key : EdgeKey, src : NodeId,
                 dst : NodeId, rel : Relation]
RemoveNodeEvent == [type : {"remove_node"}, node : NodeId]
RemoveEdgeEvent == [type : {"remove_edge"}, key : EdgeKey]

Event == AddNodeEvent \cup AddEdgeEvent \cup RemoveNodeEvent
           \cup RemoveEdgeEvent

ASSUME NoCallAssumption == NoCall \notin Event

VARIABLES
    graph,     \* self.graph of the live EventSourcedGraph
    hd_dim,    \* hd.dim of the live graph
    backend,   \* EventLog.backend
    log,       \* the stored events, in order
    corrupt,   \* some stored JSONL line is not a JSON document
    status,    \* what the process is doing
    call,      \* the event of the mutator call in flight
    cursor     \* events replay_from has processed

\* History variables: no action reads them.
VARIABLES
    settled,   \* the live graph when no call was in flight
    clean,     \* no append has failed, no line was torn, no log was cleared
               \* since the graph was last known to follow from the log
    exact,     \* moreover the graph was not started beside an older log
    trace      \* trace[i + 1]: what a replay of the first i events builds

store == <<backend, log, corrupt>>
history == <<settled, clean, exact, trace>>
vars == <<graph, hd_dim, store, status, call, cursor, history>>

Status == {"up", "appending", "down", "replaying", "failed"}

LogKeys == {log[i].key : i \in {j \in 1..Len(log) :
                                   log[j].type \in {"add_edge", "remove_edge"}}}

(* A fresh uuid4: in no edge of the graph and in no event of the log.      *)
UsedKeys == Keys(graph) \cup LogKeys

FreshKey == CHOOSE k \in EdgeKey : k \notin UsedKeys

HasFreshKey == \E k \in EdgeKey : k \notin UsedKeys
-----------------------------------------------------------------------------
(* What replaying one event does to the nodes and links of a graph.  The   *)
(* key that remove_edge names was drawn before the replay, so it is never  *)
(* the key of a replayed edge, and the KeyError is swallowed.              *)
Shadow == [attr : [NodeId -> Attr \cup {Absent}], links : SUBSET Link]

EmptyShadow == [attr |-> [n \in NodeId |-> Absent], links |-> {}]

ShadowStep(s, ev) ==
    CASE ev.type = "add_node" ->
           [s EXCEPT !.attr = [@ EXCEPT ![ev.node] = RoundTrip[ev.attr]]]
      [] ev.type = "add_edge" ->
           [s EXCEPT !.links = @ \cup {LinkOf(ev)}]
      [] ev.type = "remove_node" ->
           [attr  |-> [s.attr EXCEPT ![ev.node] = Absent],
            links |-> {l \in s.links : ev.node # l.src /\ ev.node # l.dst}]
      [] ev.type = "remove_edge" -> s

(* add_edge is the one replayed call whose KeyError is not caught.         *)
Replayable(s, ev) ==
    ev.type = "add_edge" =>
        s.attr[ev.src] # Absent /\ s.attr[ev.dst] # Absent

LogShadow == trace[Len(log) + 1]
-----------------------------------------------------------------------------
Init ==
    /\ graph = EmptyGraph
    /\ hd_dim \in Dim
    /\ backend \in Backend
    /\ log = <<>>
    /\ corrupt = FALSE
    /\ status = "up"
    /\ call = NoCall
    /\ cursor = 0
    /\ settled = EmptyGraph
    /\ clean = TRUE
    /\ exact = TRUE
    /\ trace = <<EmptyShadow>>

(* The first half of a mutator: the inner graph is changed and the event   *)
(* record is built.                                                        *)
Begin(ev, g) ==
    /\ status = "up"
    /\ Len(log) < MaxLog
    /\ graph' = g
    /\ call' = ev
    /\ status' = "appending"
    /\ UNCHANGED <<hd_dim, store, cursor, history>>

(* The vector has the dimension of the live graph: generated by it, or     *)
(* supplied by a caller who compares it with the others.                   *)
BeginAddNode(n, a) ==
    /\ DimOf[a] = hd_dim
    /\ Begin([type |-> "add_node", node |-> n, attr |-> a],
             AddNode(graph, n, a))

(* Mutant: the endpoints of the new edge are not looked up.                *)
BeginAddEdgeUnchecked(s, t, r) ==
    /\ Cardinality(graph.edges) < MaxEdges
    /\ HasFreshKey
    /\ Begin([type |-> "add_edge", key |-> FreshKey,
              src |-> s, dst |-> t, rel |-> r],
             AddEdge(graph, FreshKey, s, t, r))

BeginAddEdge(s, t, r) ==
    /\ CanAddEdge(graph, s, t)
    /\ Cardinality(graph.edges) < MaxEdges
    /\ HasFreshKey
    /\ Begin([type |-> "add_edge", key |-> FreshKey,
              src |-> s, dst |-> t, rel |-> r],
             AddEdge(graph, FreshKey, s, t, r))

BeginRemoveNode(n) ==
    /\ HasNode(graph, n)
    /\ Begin([type |-> "remove_node", node |-> n], RemoveNode(graph, n))

BeginRemoveEdge(k) ==
    /\ k \in Keys(graph)
    /\ Begin([type |-> "remove_edge", key |-> k], RemoveEdge(graph, k))

(* EventLog.append succeeds and the mutator returns.                       *)
AppendEvent ==
    /\ status = "appending"
    /\ log' = Append(log, call)
    /\ trace' = Append(trace, ShadowStep(LogShadow, call))
    /\ settled' = graph
    /\ status' = "up"
    /\ call' = NoCall
    /\ UNCHANGED <<graph, hd_dim, backend, corrupt, cursor, clean, exact>>

(* EventLog.append raises (disk full, locked database): the caller gets    *)
(* the exception, the graph keeps the mutation.  An INSERT leaves nothing  *)
(* behind; a JSONL write may leave the beginning of a line.                *)
AppendFails(torn) ==
    /\ status = "appending"
    /\ "append_error" \in Faults
    /\ torn => "tear" \in Faults /\ backend = "jsonl"
    /\ corrupt' = (corrupt \/ torn)
    /\ settled' = graph
    /\ clean' = FALSE
    /\ exact' = FALSE
    /\ status' = "up"
    /\ call' = NoCall
    /\ UNCHANGED <<graph, hd_dim, backend, log, cursor, trace>>

(* The process stops, at any point; in the middle of a JSONL write it      *)
(* leaves the beginning of a line (a node event with its vector is longer  *)
(* than the file object's buffer, so it is not written at once).           *)
Crash(torn) ==
    /\ status # "down"
    /\ torn => /\ status = "appending"
               /\ "tear" \in Faults /\ backend = "jsonl"
    /\ corrupt' = (corrupt \/ torn)
    /\ clean' = (clean /\ ~torn)
    /\ exact' = (exact /\ ~torn)
    /\ graph' = EmptyGraph
    /\ call' = NoCall
    /\ cursor' = 0
    /\ status' = "down"
    /\ UNCHANGED <<hd_dim, backend, log, settled, trace>>

(* EventLog.clear, from the live process or by an operator.                *)
ClearLog ==
    /\ "clear" \in Faults
    /\ status \in {"up", "down", "failed"}
    /\ log' = <<>>
    /\ corrupt' = FALSE
    /\ trace' = <<EmptyShadow>>
    /\ clean' = FALSE
    /\ exact' = FALSE
    /\ UNCHANGED <<graph, hd_dim, backend, status, call, cursor, settled>>

(* EventSourcedGraph(...) beside the stored log, without a replay.  The    *)
(* default log is one file in the package directory, so this is what the   *)
(* constructor does in every process after the first.                      *)
StartFresh ==
    /\ status \in {"down", "failed"}
    /\ graph' = EmptyGraph
    /\ hd_dim' \in Dim
    /\ settled' = EmptyGraph
    /\ exact' = (clean /\ log = <<>>)
    /\ status' = "up"
    /\ UNCHANGED <<store, call, cursor, clean, trace>>

(* replay_from: read_all parses the whole log before anything is applied.  *)
StartReplay ==
    /\ status \in {"down", "failed"}
    /\ graph' = EmptyGraph
    /\ hd_dim' = DefaultDim
    /\ cursor' = 0
    /\ status' = IF corrupt THEN "failed" ELSE "replaying"
    /\ UNCHANGED <<store, call, history>>

(* Mutant: remove_node events are passed over.                             *)
ReplayEventKeepsNodes(g, ev, k) ==
    CASE ev.type = "add_node" -> AddNode(g, ev.node, RoundTrip[ev.attr])
      [] ev.type = "add_edge" -> AddEdge(g, k, ev.src, ev.dst, ev.rel)
      [] ev.type = "remove_node" -> g
      [] ev.type = "remove_edge" -> RemoveEdge(g, ev.key)

(* The effect of one event on the graph being rebuilt.                     *)
ReplayEvent(g, ev, k) ==
    CASE ev.type = "add_node" -> AddNode(g, ev.node, RoundTrip[ev.attr])
      [] ev.type = "add_edge" -> AddEdge(g, k, ev.src, ev.dst, ev.rel)
      [] ev.type = "remove_node" -> RemoveNode(g, ev.node)
      [] ev.type = "remove_edge" -> RemoveEdge(g, ev.key)

(* Mutant: the event is read and applied again and again.                  *)
ReplayStepStuck ==
    /\ status = "replaying"
    /\ cursor < Len(log)
    /\ Replayable(graph, log[cursor + 1])
    /\ cursor' = cursor
    /\ UNCHANGED <<graph, hd_dim, store, status, call, history>>

ReplayStep ==
    /\ status = "replaying"
    /\ cursor < Len(log)
    /\ LET ev == log[cursor + 1]
       IN  /\ Replayable(graph, ev)
           /\ ev.type = "add_edge" => HasFreshKey
           /\ graph' = ReplayEvent(graph, ev, FreshKey)
    /\ cursor' = cursor + 1
    /\ UNCHANGED <<hd_dim, store, status, call, history>>

(* add_edge raises KeyError and replay_from lets it out.                   *)
ReplayRaises ==
    /\ status = "replaying"
    /\ cursor < Len(log)
    /\ ~Replayable(graph, log[cursor + 1])
    /\ graph' = EmptyGraph
    /\ cursor' = 0
    /\ status' = "failed"
    /\ UNCHANGED <<hd_dim, store, call, history>>

(* Mutant: the loop ends one event early.                                  *)
ReplayDoneEarly ==
    /\ status = "replaying"
    /\ cursor + 1 >= Len(log)
    /\ status' = "up"
    /\ cursor' = 0
    /\ settled' = graph
    /\ clean' = TRUE
    /\ exact' = TRUE
    /\ UNCHANGED <<graph, hd_dim, store, call, trace>>

ReplayDone ==
    /\ status = "replaying"
    /\ cursor = Len(log)
    /\ status' = "up"
    /\ cursor' = 0
    /\ settled' = graph
    /\ clean' = TRUE
    /\ exact' = TRUE
    /\ UNCHANGED <<graph, hd_dim, store, call, trace>>

Mutate ==
    \/ \E n \in NodeId, a \in Attr : BeginAddNode(n, a)
    \/ \E s, t \in NodeId, r \in Relation : BeginAddEdge(s, t, r)
    \/ \E n \in NodeId : BeginRemoveNode(n)
    \/ \E k \in EdgeKey : BeginRemoveEdge(k)

Replay == StartReplay \/ ReplayStep \/ ReplayRaises \/ ReplayDone

Next ==
    \/ Mutate
    \/ AppendEvent
    \/ \E torn \in BOOLEAN : AppendFails(torn)
    \/ \E torn \in BOOLEAN : Crash(torn)
    \/ ClearLog
    \/ StartFresh
    \/ Replay

Spec == Init /\ [][Next]_vars

(* replay_from is a loop over a list, run by the caller's thread: once     *)
(* started it keeps going unless the process stops.                        *)
FairSpec == Spec /\ WF_vars(ReplayStep \/ ReplayRaises \/ ReplayDone)
-----------------------------------------------------------------------------
TypeOK ==
    /\ graph \in Graph /\ settled \in Graph
    /\ hd_dim \in Dim
    /\ backend \in Backend
    /\ log \in Seq(Event)
    /\ corrupt \in BOOLEAN
    /\ status \in Status
    /\ call \in Event \cup {NoCall}
    /\ cursor \in Nat
    /\ clean \in BOOLEAN /\ exact \in BOOLEAN
    /\ trace \in Seq(Shadow)

(* g could have come out of the log: every node of g is in s as it reads   *)
(* after a round trip, and every link of g is in s.                        *)
Follows(g, s) ==
    /\ \A n \in NodeId : HasNode(g, n) => s.attr[n] = RoundTrip[g.attr[n]]
    /\ Links(g) \subseteq s.links

SameNodes(g, s) == \A n \in NodeId : HasNode(g, n) <=> s.attr[n] # Absent

(* A log that was only ever appended to, cleanly, always replays: whatever *)
(* calls were made, in however many sessions with crashes between them,    *)
(* and also when a fresh graph was started beside an older log, no replayed*)
(* add_edge finds an endpoint missing (the KeyError replay_from lets out). *)
CleanLogReplays == status = "failed" => ~clean

(* Recovery keeps what was acknowledged.  When a replay of a cleanly       *)
(* written log completes, every node of the graph that was lost is there   *)
(* with the attributes that survive serialisation, and every link too,     *)
(* although replay gives the edges new keys and ignores their old ones.    *)
RecoveryKeepsWork ==
    [][ReplayDone /\ clean =>
          /\ \A n \in NodeId : HasNode(settled, n) =>
                graph'.attr[n] = RoundTrip[settled.attr[n]]
          /\ Links(settled) \subseteq Links(graph')]_vars

(* Recovery brings no removed node back: if moreover the graph was not     *)
(* started beside an older log, the rebuilt node set is exactly the node   *)
(* set that was lost.                                                      *)
RecoveryNodesExact ==
    [][ReplayDone /\ exact => Nodes(graph') = Nodes(settled)]_vars

(* The live graph, rebuilt or not, never has a dangling edge or two edges  *)
(* under one key, although keys of earlier sessions are still in the log.  *)
GraphWellFormed == WellFormed(graph) /\ WellFormed(settled)

(* A replay does not run for ever: it completes, raises, or is interrupted *)
(* by the end of the process.                                              *)
ReplayEnds == status = "replaying" ~> status # "replaying"
-----------------------------------------------------------------------------
(* The inductive invariant behind the properties above, in named parts.    *)

(* The history variable trace is the left fold of ShadowStep over the log. *)
TraceInv ==
    /\ Len(trace) = Len(log) + 1
    /\ trace[1] = EmptyShadow
    /\ \A i \in 1..Len(log) : trace[i + 1] = ShadowStep(trace[i], log[i])

ReplayableUpTo(c) == \A i \in 1..c : Replayable(trace[i], log[i])

CleanInv ==
    clean => /\ ~corrupt
             /\ ReplayableUpTo(Len(log))
             /\ Follows(settled, LogShadow)

ExactInv == exact => clean /\ SameNodes(settled, LogShadow)

(* What a mutator call did to the graph, read off its event.               *)
Effect(g, ev) ==
    CASE ev.type = "add_node" -> AddNode(g, ev.node, ev.attr)
      [] ev.type = "add_edge" -> AddEdge(g, ev.key, ev.src, ev.dst, ev.rel)
      [] ev.type = "remove_node" -> RemoveNode(g, ev.node)
      [] ev.type = "remove_edge" -> RemoveEdge(g, ev.key)

LiveInv ==
    /\ status = "up" => settled = graph
    /\ status = "appending" =>
          /\ call \in Event
          /\ graph = Effect(settled, call)
          /\ call.type = "add_edge" => CanAddEdge(settled, call.src, call.dst)

(* A replay has rebuilt what the prefix it has read says, every edge under *)
(* a key that no event of the log mentions.                                *)
ReplayInv ==
    status = "replaying" =>
        /\ ~corrupt
        /\ cursor \in 0..Len(log)
        /\ graph.attr = trace[cursor + 1].attr
        /\ Links(graph) = trace[cursor + 1].links
        /\ Keys(graph) \cap LogKeys = {}
        /\ ReplayableUpTo(cursor)

(* Every attribute a replay can store has been through a round trip.       *)
RoundTripInv ==
    \A i \in 1..Len(trace), n \in NodeId :
        trace[i].attr[n] # Absent =>
            RoundTrip[trace[i].attr[n]] = trace[i].attr[n]

IInv ==
    /\ TypeOK
    /\ TraceInv
    /\ CleanInv
    /\ ExactInv
    /\ LiveInv
    /\ ReplayInv
    /\ RoundTripInv
    /\ CleanLogReplays
    /\ GraphWellFormed
-----------------------------------------------------------------------------
(* What the documentation promises and the code does not do.               *)

(* event_log.py:3-5 "enabling full state reconstruction via replay": every *)
(* log the class has written can be replayed, also after a torn write or an*)
(* append that raised.                                                     *)
LogAlwaysReplays == status # "failed"
=============================================================================
