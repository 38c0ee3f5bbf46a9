---------------------------- MODULE MemoryGraph ----------------------------
(***************************************************************************)
(* The values of a SpectralMemoryGraph (src/smgp/core/graph.py) and the    *)
(* pure effect of its mutators.  A graph is the networkx MultiDiGraph the  *)
(* class wraps: a partial map from node ids to attributes (label,          *)
(* properties and vector, kept together as one value) and a set of keyed,  *)
(* typed, directed edges.  Methods that raise are modelled by their        *)
(* precondition, which the calling modules use as a guard.                 *)
(***************************************************************************)
CONSTANTS
    NodeId,      \* node identifiers
    Attr,        \* what add_node stores for a node
    Relation,    \* relation types of edges
    EdgeKey,     \* the edge keys uuid4 can draw
    Absent       \* "no such node"

ASSUME AbsentAssumption == Absent \notin Attr

Edge == [key : EdgeKey, src : NodeId, dst : NodeId, rel : Relation]

Graph == [attr : [NodeId -> Attr \cup {Absent}], edges : SUBSET Edge]

EmptyGraph == [attr |-> [n \in NodeId |-> Absent], edges |-> {}]

HasNode(g, n) == g.attr[n] # Absent

Nodes(g) == {n \in NodeId : HasNode(g, n)}

Keys(g) == {e.key : e \in g.edges}

(* add_node: a second call with the same id replaces the attributes and    *)
(* keeps the incident edges.                                               *)
AddNode(g, n, a) ==
    [attr |-> [g.attr EXCEPT ![n] = a], edges |-> g.edges]

(* add_edge after its two KeyError checks; k is the uuid4 it drew.         *)
AddEdge(g, k, s, t, r) ==
    [attr  |-> g.attr,
     edges |-> g.edges \cup {[key |-> k, src |-> s, dst |-> t, rel |-> r]}]

CanAddEdge(g, s, t) == HasNode(g, s) /\ HasNode(g, t)

(* remove_node drops the node and every incident edge.                     *)
RemoveNode(g, n) ==
    [attr  |-> [g.attr EXCEPT ![n] = Absent],
     edges |-> {e \in g.edges : n # e.src /\ n # e.dst}]

(* remove_edge looks the key up among all edges.                           *)
RemoveEdge(g, k) ==
    [attr |-> g.attr, edges |-> {e \in g.edges : e.key # k}]

(* An edge without its key: what a user of the graph can recognise.        *)
Link == [src : NodeId, dst : NodeId, rel : Relation]

LinkOf(e) == [src |-> e.src, dst |-> e.dst, rel |-> e.rel]

Links(g) == {LinkOf(e) : e \in g.edges}

(* No edge dangles and no key names two edges.                             *)
WellFormed(g) ==
    /\ \A e \in g.edges : HasNode(g, e.src) /\ HasNode(g, e.dst)
    /\ \A e, f \in g.edges : e.key = f.key => e = f
=============================================================================
