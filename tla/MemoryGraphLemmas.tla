------------------------- MODULE MemoryGraphLemmas -------------------------
(***************************************************************************)
(* What the operations of MemoryGraph preserve and what they do to the     *)
(* links and the keys of a graph.                                          *)
(***************************************************************************)
EXTENDS MemoryGraph, TLAPS

(* The mutators of SpectralMemoryGraph map graphs to graphs.               *)
LEMMA OperationTypes ==
    ASSUME NEW g \in Graph, NEW n \in NodeId, NEW m \in NodeId,
           NEW a \in Attr, NEW k \in EdgeKey, NEW r \in Relation
    PROVE  /\ AddNode(g, n, a) \in Graph
           /\ AddEdge(g, k, n, m, r) \in Graph
           /\ RemoveNode(g, n) \in Graph
           /\ RemoveEdge(g, k) \in Graph
<1>1. AddNode(g, n, a) \in Graph
  BY DEF AddNode, Graph
<1>2. AddEdge(g, k, n, m, r) \in Graph
  BY DEF AddEdge, Graph, Edge
<1>3. RemoveNode(g, n) \in Graph
  BY DEF RemoveNode, Graph
<1>4. RemoveEdge(g, k) \in Graph
  BY DEF RemoveEdge, Graph
<1> QED BY <1>1, <1>2, <1>3, <1>4

(* The constructor's graph is a well-formed graph without nodes or links.  *)
LEMMA EmptyGraphFacts ==
    /\ EmptyGraph \in Graph
    /\ WellFormed(EmptyGraph)
    /\ Links(EmptyGraph) = {}
    /\ Keys(EmptyGraph) = {}
    /\ \A n \in NodeId : ~HasNode(EmptyGraph, n)
BY DEF EmptyGraph, Graph, WellFormed, Links, Keys, HasNode

(* add_node never makes an edge dangle.                                    *)
LEMMA AddNodeWellFormed ==
    ASSUME NEW g \in Graph, NEW n \in NodeId, NEW a \in Attr, WellFormed(g)
    PROVE  WellFormed(AddNode(g, n, a))
<1>1. \A m \in NodeId : HasNode(g, m) => HasNode(AddNode(g, n, a), m)
  BY AbsentAssumption DEF AddNode, HasNode, Graph
<1>2. \A e \in g.edges : e.src \in NodeId /\ e.dst \in NodeId
  BY DEF Graph, Edge
<1> QED BY <1>1, <1>2 DEF WellFormed, AddNode

(* add_edge keeps the graph well formed when its endpoints exist (the two  *)
(* KeyError checks) and its key is fresh (uuid4).                          *)
LEMMA AddEdgeWellFormed ==
    ASSUME NEW g \in Graph, NEW s \in NodeId, NEW t \in NodeId,
           NEW r \in Relation, NEW k \in EdgeKey,
           WellFormed(g), CanAddEdge(g, s, t), k \notin Keys(g)
    PROVE  WellFormed(AddEdge(g, k, s, t, r))
<1> DEFINE new == [key |-> k, src |-> s, dst |-> t, rel |-> r]
           h == AddEdge(g, k, s, t, r)
<1>1. h.edges = g.edges \cup {new} /\ h.attr = g.attr
  BY DEF AddEdge
<1>2. \A e \in h.edges : HasNode(h, e.src) /\ HasNode(h, e.dst)
  BY <1>1 DEF WellFormed, CanAddEdge, HasNode
<1>3. \A e \in g.edges : e.key # k
  BY DEF Keys
<1>4. \A e, f \in h.edges : e.key = f.key => e = f
  BY <1>1, <1>3 DEF WellFormed
<1> QED BY <1>2, <1>4 DEF WellFormed

(* remove_node takes the incident edges with the node.                     *)
LEMMA RemoveNodeWellFormed ==
    ASSUME NEW g \in Graph, NEW n \in NodeId, WellFormed(g)
    PROVE  WellFormed(RemoveNode(g, n))
<1>1. \A e \in g.edges : e.src \in NodeId /\ e.dst \in NodeId
  BY DEF Graph, Edge
<1>2. \A m \in NodeId : m # n /\ HasNode(g, m) => HasNode(RemoveNode(g, n), m)
  BY DEF RemoveNode, HasNode, Graph
<1> QED BY <1>1, <1>2 DEF WellFormed, RemoveNode

(* remove_edge keeps a graph well formed, whatever key it is given.        *)
LEMMA RemoveEdgeWellFormed ==
    ASSUME NEW g \in Graph, NEW k, WellFormed(g)
    PROVE  WellFormed(RemoveEdge(g, k))
BY DEF WellFormed, RemoveEdge, HasNode

(* The links of a graph after each operation.                              *)
LEMMA LinksAddNode ==
    ASSUME NEW g, NEW n, NEW a
    PROVE  /\ Links(AddNode(g, n, a)) = Links(g)
           /\ Keys(AddNode(g, n, a)) = Keys(g)
BY DEF Links, AddNode, Keys

(* add_edge adds the link of its edge and no other.                        *)
LEMMA LinksAddEdge ==
    ASSUME NEW g, NEW k, NEW s, NEW t, NEW r
    PROVE  /\ Links(AddEdge(g, k, s, t, r))
                = Links(g) \cup {[src |-> s, dst |-> t, rel |-> r]}
           /\ Keys(AddEdge(g, k, s, t, r)) = Keys(g) \cup {k}
<1> DEFINE new == [key |-> k, src |-> s, dst |-> t, rel |-> r]
           h == AddEdge(g, k, s, t, r)
<1>1. h.edges = g.edges \cup {new}
  BY DEF AddEdge
<1>2. LinkOf(new) = [src |-> s, dst |-> t, rel |-> r] /\ new.key = k
  BY DEF LinkOf
<1> HIDE DEF new, h
<1>3. Links(h) = Links(g) \cup {LinkOf(new)}
  BY <1>1 DEF Links
<1>4. Keys(h) = Keys(g) \cup {new.key}
  BY <1>1 DEF Keys
<1> QED BY <1>2, <1>3, <1>4 DEF h

(* remove_node drops the links at the node and no other.                   *)
LEMMA LinksRemoveNode ==
    ASSUME NEW g, NEW n
    PROVE  /\ Links(RemoveNode(g, n))
                = {l \in Links(g) : n # l.src /\ n # l.dst}
           /\ Keys(RemoveNode(g, n)) \subseteq Keys(g)
<1>1. \A e : LinkOf(e).src = e.src /\ LinkOf(e).dst = e.dst
  BY DEF LinkOf
<1>2. RemoveNode(g, n).edges = {e \in g.edges : n # e.src /\ n # e.dst}
  BY DEF RemoveNode
<1>3. Links(RemoveNode(g, n)) = {l \in Links(g) : n # l.src /\ n # l.dst}
  BY <1>1, <1>2 DEF Links
<1>4. Keys(RemoveNode(g, n)) \subseteq Keys(g)
  BY <1>2 DEF Keys
<1> QED BY <1>3, <1>4

(* remove_edge adds no link.                                               *)
LEMMA LinksRemoveEdge ==
    ASSUME NEW g, NEW k
    PROVE  /\ Links(RemoveEdge(g, k)) \subseteq Links(g)
           /\ Keys(RemoveEdge(g, k)) \subseteq Keys(g)
BY DEF Links, RemoveEdge, Keys

(* remove_edge with a key no edge has finds nothing to remove.             *)
LEMMA RemoveUnknownKey ==
    ASSUME NEW g \in Graph, NEW k, k \notin Keys(g)
    PROVE  RemoveEdge(g, k) = g
<1>1. {e \in g.edges : e.key # k} = g.edges
  BY DEF Keys
<1>2. g = [attr |-> g.attr, edges |-> g.edges]
  BY DEF Graph
<1> QED BY <1>1, <1>2 DEF RemoveEdge
=============================================================================
