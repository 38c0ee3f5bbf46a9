-------------------------- MODULE DistributedGraph --------------------------
(***************************************************************************)
(* DistributedGraphBackend (src/smgp/core/distributed.py): a graph spread  *)
(* over several SpectralMemoryGraph shards.  Every node has a home shard   *)
(* (the MD5 of its id modulo num_shards).  An edge between two homes is    *)
(* stored in both, under two different keys, and add_edge copies the       *)
(* missing endpoint into each of them so that the edge does not dangle.    *)
(* Neither add_node nor remove_node looks for these copies again.          *)
(***************************************************************************)
EXTENDS MemoryGraph, Naturals, FiniteSets

CONSTANTS
    Shard,       \* the indices of self.shards
    Home,        \* _get_shard: the shard a node id hashes to
    TopK,        \* the k query_similar is asked for
    Score,       \* similarity of an attribute's vector to a fixed query
    MaxEdges     \* bound: number of edges in one shard

ASSUME HomeAssumption == Home \in [NodeId -> Shard]

ASSUME ScoreAssumption == Score \in [Attr -> Nat]

ASSUME BoundAssumption == MaxEdges \in Nat /\ TopK \in Nat

VARIABLES
    shards,      \* self.shards
    ideal        \* history: one SpectralMemoryGraph given the same calls

vars == <<shards, ideal>>

UsedKeys == (UNION {Keys(shards[s]) : s \in Shard}) \cup Keys(ideal)

(* Two uuid4 draws, different from each other and from every key in use.   *)
FreshPairs ==
    {p \in EdgeKey \X EdgeKey : p[1] # p[2] /\ {p[1], p[2]} \cap UsedKeys = {}}

FreshPair == CHOOSE p \in EdgeKey \X EdgeKey : p \in FreshPairs

Primary(n) == shards[Home[n]].attr[n]
-----------------------------------------------------------------------------
Init ==
    /\ shards = [s \in Shard |-> EmptyGraph]
    /\ ideal = EmptyGraph

AddNodeTo(n, a) ==
    /\ shards' = [shards EXCEPT ![Home[n]] = AddNode(@, n, a)]
    /\ ideal' = AddNode(ideal, n, a)

(* A shard that is about to hold an edge of n gets a copy of n, unless it  *)
(* already knows n.                                                        *)
WithNode(g, n, a) == IF HasNode(g, n) THEN g ELSE AddNode(g, n, a)

(* Mutant: the edge is stored in the source's shard only.                  *)
AddEdgeOneSided(u, v, r) ==
    /\ Primary(u) # Absent /\ Primary(v) # Absent
    /\ Cardinality(shards[Home[u]].edges) < MaxEdges
    /\ FreshPairs # {}
    /\ shards' = [shards EXCEPT ![Home[u]] =
           AddEdge(WithNode(@, v, Primary(v)), FreshPair[1], u, v, r)]
    /\ ideal' = AddEdge(ideal, FreshPair[1], u, v, r)

(* Mutant: an unknown endpoint is created and not refused.                 *)
AddEdgeCreatingNodes(u, v, r) ==
    /\ Home[u] = Home[v]
    /\ Cardinality(shards[Home[u]].edges) < MaxEdges
    /\ FreshPairs # {}
    /\ LET a == CHOOSE a \in Attr : TRUE
           k == FreshPair[1]
       IN  shards' = [shards EXCEPT ![Home[u]] =
               AddEdge(WithNode(WithNode(@, u, a), v, a), k, u, v, r)]
    /\ ideal' = AddEdge(ideal, FreshPair[1], u, v, r)

AddEdgeBetween(u, v, r) ==
    /\ Primary(u) # Absent /\ Primary(v) # Absent
    /\ \A s \in {Home[u], Home[v]} : Cardinality(shards[s].edges) < MaxEdges
    /\ FreshPairs # {}
    /\ LET k == FreshPair[1]
           l == FreshPair[2]
       IN /\ shards' =
               IF Home[u] = Home[v]
               THEN [shards EXCEPT ![Home[u]] = AddEdge(@, k, u, v, r)]
               ELSE [shards EXCEPT
                       ![Home[u]] = AddEdge(WithNode(@, v, Primary(v)), k, u, v, r),
                       ![Home[v]] = AddEdge(WithNode(@, u, Primary(u)), l, u, v, r)]
          /\ ideal' = AddEdge(ideal, k, u, v, r)

RemoveNodeFrom(n) ==
    /\ Primary(n) # Absent
    /\ shards' = [shards EXCEPT ![Home[n]] = RemoveNode(@, n)]
    /\ ideal' = RemoveNode(ideal, n)

Next ==
    \/ \E n \in NodeId, a \in Attr : AddNodeTo(n, a)
    \/ \E u, v \in NodeId, r \in Relation : AddEdgeBetween(u, v, r)
    \/ \E n \in NodeId : RemoveNodeFrom(n)

Spec == Init /\ [][Next]_vars
-----------------------------------------------------------------------------
(* query_similar: the k best of the k best of every shard.  A result is a  *)
(* copy, a node in a shard; ties may be broken either way.                 *)
Copies == {c \in Shard \X NodeId : HasNode(shards[c[1]], c[2])}

CopyScore(c) == Score[shards[c[1]].attr[c[2]]]

Best(C, k) ==
    {T \in SUBSET C :
        /\ Cardinality(T) = IF Cardinality(C) < k THEN Cardinality(C) ELSE k
        /\ \A c \in T, d \in C \ T : CopyScore(c) >= CopyScore(d)}

(* Mutant: the shards divide k among them.                                 *)
ShardResultsDivided(s, k) ==
    Best({c \in Copies : c[1] = s}, k \div Cardinality(Shard))

ShardResults(s, k) == Best({c \in Copies : c[1] = s}, k)

(* One result of every shard put together, in every way it may turn out.   *)
AllResults(k) ==
    {R \in SUBSET Copies :
        \A s \in Shard : {c \in R : c[1] = s} \in ShardResults(s, k)}

QuerySimilar(k) == UNION {Best(R, k) : R \in AllResults(k)}

(* The aggregates.  nodes() drops an id it has seen and edges() an edge of *)
(* the same endpoints and key; the counts add up what every shard holds.   *)
AllNodes == {c[2] : c \in Copies}

AllEdges == UNION {shards[s].edges : s \in Shard}

NumNodes == Cardinality(Copies)

EdgeCopies == {c \in Shard \X AllEdges : c[2] \in shards[c[1]].edges}

NumEdges == Cardinality(EdgeCopies)

ShardDistribution == [s \in Shard |-> Cardinality({c \in Copies : c[1] = s})]
-----------------------------------------------------------------------------
TypeOK ==
    /\ shards \in [Shard -> Graph]
    /\ ideal \in Graph

(* Whatever copies are made, left behind and reused, no shard ever holds   *)
(* an edge with a missing endpoint or two edges under one key, and every   *)
(* edge it holds has an endpoint that lives there: local traversal in a    *)
(* shard never meets a node it cannot look up.                             *)
ShardsWellFormed ==
    \A s \in Shard :
        /\ WellFormed(shards[s])
        /\ \A e \in shards[s].edges : Home[e.src] = s \/ Home[e.dst] = s

(* get_node answers as a single graph would: copying a node for an edge    *)
(* never changes what its home shard says about it, and a copy that        *)
(* remove_node left behind is never taken for the node.                    *)
PrimaryIsCurrent == \A n \in NodeId : Primary(n) = ideal.attr[n]

(* No edge is lost: one a single graph would still hold is found from both *)
(* of its endpoints' shards, and under the key add_edge returned in the    *)
(* source's.                                                               *)
EdgesFoundLocally ==
    \A e \in ideal.edges :
        /\ e \in shards[Home[e.src]].edges
        /\ LinkOf(e) \in Links(shards[Home[e.dst]])

(* Asking every shard for its k best before merging loses nothing: the     *)
(* result is a k best of all the copies in all the shards.                 *)
MergeIsTopK ==
    QuerySimilar(TopK) \subseteq Best(Copies, TopK)

(* What the aggregates may be relied on for: no live node and no live edge *)
(* is missing from the lists, and the counts are of no less than is listed.*)
(* An edge between two homes is listed under both of its keys, and no edge *)
(* is in two shards, so edges() finds nothing to drop and num_edges counts *)
(* such an edge twice.                                                     *)
AggregatesCover ==
    /\ Nodes(ideal) \subseteq AllNodes
    /\ Cardinality(AllNodes) <= NumNodes
    /\ \A s \in Shard :
          Cardinality({n \in Nodes(ideal) : Home[n] = s}) <= ShardDistribution[s]
    /\ ideal.edges \subseteq AllEdges
    /\ NumEdges = Cardinality(AllEdges)
    /\ \A e \in ideal.edges : Home[e.src] # Home[e.dst] =>
          \E f \in AllEdges \ {e} : LinkOf(f) = LinkOf(e)

(* To get_node, add_node and remove_node the backend is a node store.      *)
Store == INSTANCE NodeStore WITH attr <- [n \in NodeId |-> Primary(n)]

ImplementsNodeStore == Store!Spec
=============================================================================
