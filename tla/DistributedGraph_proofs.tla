---------------------- MODULE DistributedGraph_proofs ----------------------
(***************************************************************************)
(* Proofs about DistributedGraph, for any number of shards, any hash and   *)
(* any nodes: the shards stay well formed, get_node is always current, no  *)
(* edge is lost, and the backend implements NodeStore.                     *)
(***************************************************************************)
EXTENDS DistributedGraph, MemoryGraphLemmas, FiniteSetTheorems

DInv ==
    /\ TypeOK
    /\ ShardsWellFormed
    /\ PrimaryIsCurrent
    /\ EdgesFoundLocally

(* The two keys add_edge draws are new and differ.                         *)
LEMMA FreshPairIsFresh ==
    ASSUME FreshPairs # {}
    PROVE  /\ FreshPair[1] \in EdgeKey /\ FreshPair[2] \in EdgeKey
           /\ FreshPair[1] # FreshPair[2]
           /\ FreshPair[1] \notin UsedKeys /\ FreshPair[2] \notin UsedKeys
<1>1. FreshPair \in EdgeKey \X EdgeKey /\ FreshPair \in FreshPairs
  <2>1. \E p \in EdgeKey \X EdgeKey : p \in FreshPairs
    BY DEF FreshPairs
  <2> QED BY <2>1 DEF FreshPair
<1> QED BY <1>1 DEF FreshPairs

(* Copying a missing endpoint into a shard only adds one node to it.       *)
LEMMA WithNodeFacts ==
    ASSUME NEW g \in Graph, NEW n \in NodeId, NEW a \in Attr, WellFormed(g)
    PROVE  /\ WithNode(g, n, a) \in Graph
           /\ WellFormed(WithNode(g, n, a))
           /\ WithNode(g, n, a).edges = g.edges
           /\ HasNode(WithNode(g, n, a), n)
           /\ \A m \in NodeId : m # n => WithNode(g, n, a).attr[m] = g.attr[m]
           /\ \A m \in NodeId : HasNode(g, m) => HasNode(WithNode(g, n, a), m)
<1>1. CASE HasNode(g, n)
  BY <1>1 DEF WithNode
<1>2. CASE ~HasNode(g, n)
  <2> DEFINE h == AddNode(g, n, a)
  <2>1. WithNode(g, n, a) = h
    BY <1>2 DEF WithNode
  <2>2. h \in Graph /\ WellFormed(h)
    <3>1. h \in Graph
      BY DEF AddNode, Graph
    <3> QED BY <3>1, AddNodeWellFormed
  <2>3. h.edges = g.edges /\ h.attr = [g.attr EXCEPT ![n] = a]
    BY DEF AddNode
  <2>4. \A m \in NodeId : m # n => h.attr[m] = g.attr[m]
    BY <2>3 DEF Graph
  <2>5. h.attr[n] = a
    BY <2>3 DEF Graph
  <2>6. HasNode(h, n)
    BY <2>5, AbsentAssumption DEF HasNode
  <2>7. \A m \in NodeId : HasNode(g, m) => HasNode(h, m)
    BY <2>4, <2>6 DEF HasNode
  <2> QED BY <2>1, <2>2, <2>3, <2>4, <2>6, <2>7
<1> QED BY <1>1, <1>2

(* One half of add_edge: shard s takes the edge, after copying the far     *)
(* endpoint if it has to.                                                  *)
LEMMA TakeEdge ==
    ASSUME NEW g \in Graph, WellFormed(g),
           NEW u \in NodeId, NEW v \in NodeId, NEW far \in {u, v},
           NEW a \in Attr, NEW k \in EdgeKey, NEW r \in Relation,
           k \notin Keys(g),
           \A n \in {u, v} : n # far => HasNode(g, n)
    PROVE  LET h == AddEdge(WithNode(g, far, a), k, u, v, r)
           IN  /\ h \in Graph
               /\ WellFormed(h)
               /\ h.edges = g.edges \cup
                              {[key |-> k, src |-> u, dst |-> v, rel |-> r]}
               /\ \A m \in NodeId : m # far => h.attr[m] = g.attr[m]
<1> DEFINE w == WithNode(g, far, a)
           h == AddEdge(w, k, u, v, r)
<1>1. far \in NodeId
  OBVIOUS
<1>2. /\ w \in Graph /\ WellFormed(w) /\ w.edges = g.edges
      /\ HasNode(w, far)
      /\ \A m \in NodeId : m # far => w.attr[m] = g.attr[m]
      /\ \A m \in NodeId : HasNode(g, m) => HasNode(w, m)
  BY <1>1, WithNodeFacts
<1> HIDE DEF w
<1>3. CanAddEdge(w, u, v)
  BY <1>2 DEF CanAddEdge
<1>4. k \notin Keys(w)
  BY <1>2 DEF Keys
<1>5. h \in Graph
  BY <1>2 DEF AddEdge, Graph, Edge
<1>6. WellFormed(h)
  BY <1>2, <1>3, <1>4, AddEdgeWellFormed
<1>7. h.edges = w.edges \cup {[key |-> k, src |-> u, dst |-> v, rel |-> r]}
        /\ h.attr = w.attr
  BY DEF AddEdge
<1> QED BY <1>2, <1>5, <1>6, <1>7 DEF w

(* The invariant holds at the start.                                       *)
LEMMA InitDInv == Init => DInv
<1> SUFFICES ASSUME Init PROVE DInv
  OBVIOUS
<1> USE DEF Init
<1>1. TypeOK
  BY EmptyGraphFacts DEF TypeOK
<1>2. ShardsWellFormed
  BY EmptyGraphFacts DEF ShardsWellFormed, EmptyGraph
<1>3. PrimaryIsCurrent
  BY HomeAssumption DEF PrimaryIsCurrent, Primary
<1>4. EdgesFoundLocally
  BY DEF EdgesFoundLocally, EmptyGraph
<1> QED BY <1>1, <1>2, <1>3, <1>4 DEF DInv

(* add_node keeps the invariant.                                           *)
LEMMA AddNodeToStep ==
    ASSUME DInv, NEW n \in NodeId, NEW a \in Attr, AddNodeTo(n, a)
    PROVE  DInv'
<1> DEFINE h == Home[n]
           g == AddNode(shards[h], n, a)
<1>1. h \in Shard /\ shards \in [Shard -> Graph] /\ ideal \in Graph
  BY HomeAssumption DEF DInv, TypeOK
<1>2. shards' = [shards EXCEPT ![h] = g] /\ ideal' = AddNode(ideal, n, a)
  BY DEF AddNodeTo
<1>3. g \in Graph /\ WellFormed(g) /\ g.edges = shards[h].edges
  <2>1. shards[h] \in Graph /\ WellFormed(shards[h])
    BY <1>1 DEF DInv, ShardsWellFormed
  <2>2. g \in Graph /\ g.edges = shards[h].edges
    BY <2>1 DEF AddNode, Graph
  <2> QED BY <2>1, <2>2, AddNodeWellFormed
<1>4. shards' \in [Shard -> Graph] /\ shards'[h] = g
      /\ \A s \in Shard : s # h => shards'[s] = shards[s]
  BY <1>1, <1>2, <1>3
<1>5. ideal' \in Graph /\ ideal'.edges = ideal.edges
  BY <1>1, <1>2 DEF AddNode, Graph
<1>6. TypeOK'
  BY <1>4, <1>5 DEF TypeOK
<1>7. ShardsWellFormed'
  BY <1>1, <1>3, <1>4 DEF DInv, ShardsWellFormed
<1>8. PrimaryIsCurrent'
  <2> SUFFICES ASSUME NEW m \in NodeId
               PROVE  shards'[Home[m]].attr[m] = ideal'.attr[m]
    BY DEF PrimaryIsCurrent, Primary
  <2>1. shards[Home[m]].attr[m] = ideal.attr[m] /\ Home[m] \in Shard
    BY HomeAssumption DEF DInv, PrimaryIsCurrent, Primary
  <2>2. g.attr = [shards[h].attr EXCEPT ![n] = a]
        /\ ideal'.attr = [ideal.attr EXCEPT ![n] = a]
    BY <1>2 DEF AddNode
  <2>3. shards[h].attr \in [NodeId -> Attr \cup {Absent}]
        /\ ideal.attr \in [NodeId -> Attr \cup {Absent}]
    BY <1>1 DEF Graph
  <2> QED BY <1>4, <2>1, <2>2, <2>3
<1>9. EdgesFoundLocally'
  <2>1. \A s \in Shard : shards'[s].edges = shards[s].edges
    BY <1>3, <1>4
  <2>2. \A s \in Shard : Links(shards'[s]) = Links(shards[s])
    BY <2>1 DEF Links
  <2>3. \A e \in ideal.edges : Home[e.src] \in Shard /\ Home[e.dst] \in Shard
    BY <1>1, HomeAssumption DEF Graph, Edge
  <2>4. ASSUME NEW e \in ideal'.edges
        PROVE  /\ e \in shards'[Home[e.src]].edges
               /\ LinkOf(e) \in Links(shards'[Home[e.dst]])
    <3>1. e \in ideal.edges
      BY <1>5
    <3> QED BY <2>1, <2>2, <2>3, <3>1 DEF DInv, EdgesFoundLocally
  <2> QED BY <2>4 DEF EdgesFoundLocally
<1> QED BY <1>6, <1>7, <1>8, <1>9 DEF DInv

(* remove_node keeps the invariant, although it leaves copies behind.      *)
LEMMA RemoveNodeFromStep ==
    ASSUME DInv, NEW n \in NodeId, RemoveNodeFrom(n)
    PROVE  DInv'
<1> DEFINE h == Home[n]
           g == RemoveNode(shards[h], n)
<1>1. h \in Shard /\ shards \in [Shard -> Graph] /\ ideal \in Graph
  BY HomeAssumption DEF DInv, TypeOK
<1>2. shards' = [shards EXCEPT ![h] = g] /\ ideal' = RemoveNode(ideal, n)
  BY DEF RemoveNodeFrom
<1>3. /\ g \in Graph /\ WellFormed(g)
      /\ g.edges = {e \in shards[h].edges : n # e.src /\ n # e.dst}
  <2>1. shards[h] \in Graph /\ WellFormed(shards[h])
    BY <1>1 DEF DInv, ShardsWellFormed
  <2>2. g \in Graph /\ g.edges = {e \in shards[h].edges : n # e.src /\ n # e.dst}
    BY <2>1 DEF RemoveNode, Graph
  <2> QED BY <2>1, <2>2, RemoveNodeWellFormed
<1>4. shards' \in [Shard -> Graph] /\ shards'[h] = g
      /\ \A s \in Shard : s # h => shards'[s] = shards[s]
  BY <1>1, <1>2, <1>3
<1>5. /\ ideal' \in Graph
      /\ ideal'.edges = {e \in ideal.edges : n # e.src /\ n # e.dst}
  BY <1>1, <1>2 DEF RemoveNode, Graph
<1>6. TypeOK'
  BY <1>4, <1>5 DEF TypeOK
<1>7. ShardsWellFormed'
  BY <1>1, <1>3, <1>4 DEF DInv, ShardsWellFormed
<1>8. PrimaryIsCurrent'
  <2> SUFFICES ASSUME NEW m \in NodeId
               PROVE  shards'[Home[m]].attr[m] = ideal'.attr[m]
    BY DEF PrimaryIsCurrent, Primary
  <2>1. shards[Home[m]].attr[m] = ideal.attr[m] /\ Home[m] \in Shard
    BY HomeAssumption DEF DInv, PrimaryIsCurrent, Primary
  <2>2. g.attr = [shards[h].attr EXCEPT ![n] = Absent]
        /\ ideal'.attr = [ideal.attr EXCEPT ![n] = Absent]
    BY <1>2 DEF RemoveNode
  <2>3. shards[h].attr \in [NodeId -> Attr \cup {Absent}]
        /\ ideal.attr \in [NodeId -> Attr \cup {Absent}]
    BY <1>1 DEF Graph
  <2> QED BY <1>4, <2>1, <2>2, <2>3
<1>9. EdgesFoundLocally'
  <2> SUFFICES ASSUME NEW e \in ideal'.edges
               PROVE  /\ e \in shards'[Home[e.src]].edges
                      /\ LinkOf(e) \in Links(shards'[Home[e.dst]])
    BY DEF EdgesFoundLocally
  <2>1. e \in ideal.edges /\ n # e.src /\ n # e.dst
    BY <1>5
  <2>2. Home[e.src] \in Shard /\ Home[e.dst] \in Shard
    BY <1>1, <2>1, HomeAssumption DEF Graph, Edge
  <2>3. /\ e \in shards[Home[e.src]].edges
        /\ LinkOf(e) \in Links(shards[Home[e.dst]])
    BY <2>1 DEF DInv, EdgesFoundLocally
  <2>4. e \in shards'[Home[e.src]].edges
    BY <1>3, <1>4, <2>1, <2>2, <2>3
  <2>5. PICK f \in shards[Home[e.dst]].edges : LinkOf(f) = LinkOf(e)
    BY <2>3 DEF Links
  <2>6. f.src = e.src /\ f.dst = e.dst
    BY <2>5 DEF LinkOf
  <2>7. f \in shards'[Home[e.dst]].edges
    BY <1>3, <1>4, <2>1, <2>2, <2>5, <2>6
  <2> QED BY <2>4, <2>5, <2>7 DEF Links
<1> QED BY <1>6, <1>7, <1>8, <1>9 DEF DInv

(* add_edge within one shard and across two, in the same terms: su and sv  *)
(* are the homes' graphs afterwards.                                       *)
LEMMA AddEdgeBetweenStep ==
    ASSUME DInv, NEW u \in NodeId, NEW v \in NodeId, NEW r \in Relation,
           AddEdgeBetween(u, v, r)
    PROVE  /\ DInv'
           /\ \A m \in NodeId : Primary(m)' = Primary(m)
<1> DEFINE k == FreshPair[1]
           l == FreshPair[2]
           hu == Home[u]
           hv == Home[v]
           new == [key |-> k, src |-> u, dst |-> v, rel |-> r]
           copy == [key |-> l, src |-> u, dst |-> v, rel |-> r]
<1>1. /\ k \in EdgeKey /\ l \in EdgeKey /\ k # l
      /\ k \notin UsedKeys /\ l \notin UsedKeys
  BY FreshPairIsFresh DEF AddEdgeBetween
<1>2. /\ hu \in Shard /\ hv \in Shard
      /\ shards \in [Shard -> Graph] /\ ideal \in Graph
  BY HomeAssumption DEF DInv, TypeOK
<1>3. /\ Primary(u) \in Attr /\ HasNode(shards[hu], u)
      /\ Primary(v) \in Attr /\ HasNode(shards[hv], v)
  BY <1>2 DEF AddEdgeBetween, Primary, HasNode, Graph
<1>4. \A s \in Shard : k \notin Keys(shards[s]) /\ l \notin Keys(shards[s])
  BY <1>1 DEF UsedKeys
<1>5. \A s \in Shard : shards[s] \in Graph /\ WellFormed(shards[s])
  BY <1>2 DEF DInv, ShardsWellFormed
<1>6. ideal' = AddEdge(ideal, k, u, v, r)
  BY DEF AddEdgeBetween
<1>7. /\ ideal' \in Graph /\ ideal'.attr = ideal.attr
      /\ ideal'.edges = ideal.edges \cup {new}
  BY <1>1, <1>2, <1>6 DEF AddEdge, Graph, Edge
<1>8. /\ shards' \in [Shard -> Graph]
      /\ \A s \in Shard : WellFormed(shards'[s])
      /\ \A s \in Shard : s \notin {hu, hv} => shards'[s] = shards[s]
      /\ shards'[hu].edges = shards[hu].edges \cup {new}
      /\ hu # hv => shards'[hv].edges = shards[hv].edges \cup {copy}
      /\ \A m \in NodeId : shards'[Home[m]].attr[m] = shards[Home[m]].attr[m]
  <2> HIDE DEF k, l
  <2>1. CASE hu = hv
    <3> DEFINE g == AddEdge(shards[hu], k, u, v, r)
    <3>1. shards' = [shards EXCEPT ![hu] = g]
      BY <2>1 DEF AddEdgeBetween, k
    <3>2. g \in Graph /\ g.edges = shards[hu].edges \cup {new}
          /\ g.attr = shards[hu].attr
      BY <1>1, <1>2, <1>5 DEF AddEdge, Graph, Edge
    <3>3. WellFormed(g)
      <4>1. CanAddEdge(shards[hu], u, v)
        BY <1>3, <2>1 DEF CanAddEdge
      <4> QED BY <1>1, <1>2, <1>4, <1>5, <4>1, AddEdgeWellFormed
    <3> HIDE DEF g
    <3> QED BY <1>2, <1>5, <2>1, <3>1, <3>2, <3>3, HomeAssumption
  <2>2. CASE hu # hv
    <3> DEFINE gu == AddEdge(WithNode(shards[hu], v, Primary(v)), k, u, v, r)
               gv == AddEdge(WithNode(shards[hv], u, Primary(u)), l, u, v, r)
    <3>1. shards' = [shards EXCEPT ![hu] = gu, ![hv] = gv]
      BY <2>2 DEF AddEdgeBetween, k, l
    <3>2. /\ gu \in Graph /\ WellFormed(gu)
          /\ gu.edges = shards[hu].edges \cup {new}
          /\ \A m \in NodeId : m # v => gu.attr[m] = shards[hu].attr[m]
      <4>1. \A n \in {u, v} : n # v => HasNode(shards[hu], n)
        BY <1>3
      <4> QED BY <1>1, <1>2, <1>3, <1>4, <1>5, <4>1, TakeEdge
    <3>3. /\ gv \in Graph /\ WellFormed(gv)
          /\ gv.edges = shards[hv].edges \cup {copy}
          /\ \A m \in NodeId : m # u => gv.attr[m] = shards[hv].attr[m]
      <4>1. \A n \in {u, v} : n # u => HasNode(shards[hv], n)
        BY <1>3
      <4> QED BY <1>1, <1>2, <1>3, <1>4, <1>5, <4>1, TakeEdge
    <3> HIDE DEF gu, gv
    <3>4. /\ shards'[hu] = gu /\ shards'[hv] = gv
          /\ shards' \in [Shard -> Graph]
          /\ \A s \in Shard : s \notin {hu, hv} => shards'[s] = shards[s]
      BY <1>2, <2>2, <3>1, <3>2, <3>3
    <3>5. ASSUME NEW m \in NodeId
          PROVE  shards'[Home[m]].attr[m] = shards[Home[m]].attr[m]
      <4>1. Home[m] \in Shard
        BY HomeAssumption
      <4>2. CASE Home[m] = hu
        BY <2>2, <3>2, <3>4, <4>2
      <4>3. CASE Home[m] = hv
        BY <2>2, <3>3, <3>4, <4>3
      <4>4. CASE Home[m] \notin {hu, hv}
        BY <3>4, <4>1, <4>4
      <4> QED BY <4>2, <4>3, <4>4
    <3>6. \A s \in Shard : WellFormed(shards'[s])
      BY <1>5, <3>2, <3>3, <3>4
    <3> QED BY <3>2, <3>3, <3>4, <3>5, <3>6
  <2> QED BY <2>1, <2>2
<1> HIDE DEF k, l
<1>9. TypeOK'
  BY <1>7, <1>8 DEF TypeOK
<1>10. ShardsWellFormed'
  <2> SUFFICES ASSUME NEW s \in Shard, NEW e \in shards'[s].edges
               PROVE  Home[e.src] = s \/ Home[e.dst] = s
    BY <1>8 DEF ShardsWellFormed
  <2>1. e \in shards[s].edges => Home[e.src] = s \/ Home[e.dst] = s
    BY DEF DInv, ShardsWellFormed
  <2>2. new.src = u /\ new.dst = v /\ copy.src = u /\ copy.dst = v
    OBVIOUS
  <2>3. e \in shards[s].edges \/ (s = hu /\ e = new) \/ (s = hv /\ e = copy)
    BY <1>8
  <2> QED BY <2>1, <2>2, <2>3
<1>11. PrimaryIsCurrent'
  BY <1>7, <1>8 DEF DInv, PrimaryIsCurrent, Primary
<1>12. EdgesFoundLocally'
  <2>1. \A s \in Shard : shards[s].edges \subseteq shards'[s].edges
    BY <1>8
  <2>2. \A s \in Shard : Links(shards[s]) \subseteq Links(shards'[s])
    BY <2>1 DEF Links
  <2> SUFFICES ASSUME NEW e \in ideal'.edges
               PROVE  /\ e \in shards'[Home[e.src]].edges
                      /\ LinkOf(e) \in Links(shards'[Home[e.dst]])
    BY DEF EdgesFoundLocally
  <2>3. CASE e \in ideal.edges
    <3>1. Home[e.src] \in Shard /\ Home[e.dst] \in Shard
      BY <1>2, <2>3, HomeAssumption DEF Graph, Edge
    <3>2. /\ e \in shards[Home[e.src]].edges
          /\ LinkOf(e) \in Links(shards[Home[e.dst]])
      BY <2>3 DEF DInv, EdgesFoundLocally
    <3> QED BY <2>1, <2>2, <3>1, <3>2
  <2>4. CASE e = new
    <3>1. e.src = u /\ e.dst = v /\ LinkOf(copy) = LinkOf(e)
      BY <2>4 DEF LinkOf
    <3>2. e \in shards'[hu].edges
      BY <1>8, <2>4
    <3>3. \E f \in shards'[hv].edges : LinkOf(f) = LinkOf(e)
      BY <1>8, <3>1, <3>2
    <3> QED BY <3>1, <3>2, <3>3 DEF Links
  <2> QED BY <1>7, <2>3, <2>4
<1>13. \A m \in NodeId : Primary(m)' = Primary(m)
  BY <1>8 DEF Primary
<1> QED BY <1>9, <1>10, <1>11, <1>12, <1>13 DEF DInv

(* Every step keeps the invariant.                                         *)
LEMMA NextDInv == DInv /\ [Next]_vars => DInv'
<1> SUFFICES ASSUME DInv, [Next]_vars PROVE DInv'
  OBVIOUS
<1>1. CASE \E n \in NodeId, a \in Attr : AddNodeTo(n, a)
  BY <1>1, AddNodeToStep
<1>2. CASE \E u, v \in NodeId, r \in Relation : AddEdgeBetween(u, v, r)
  BY <1>2, AddEdgeBetweenStep
<1>3. CASE \E n \in NodeId : RemoveNodeFrom(n)
  BY <1>3, RemoveNodeFromStep
<1>4. CASE UNCHANGED vars
  BY <1>4 DEF vars, DInv, TypeOK, ShardsWellFormed, PrimaryIsCurrent, Primary,
              EdgesFoundLocally
<1> QED BY <1>1, <1>2, <1>3, <1>4 DEF Next

(* The inductive invariant of the backend.                                 *)
THEOREM DistributedInvariance == Spec => []DInv
BY InitDInv, NextDInv, PTL DEF Spec

(* No shard ever holds a dangling edge, a duplicate key or a foreign edge. *)
THEOREM ShardsAlwaysWellFormed == Spec => []ShardsWellFormed
<1>1. DInv => ShardsWellFormed
  BY DEF DInv
<1> QED BY <1>1, DistributedInvariance, PTL

(* No edge is lost, and the key add_edge returned stays valid.             *)
THEOREM EdgesAlwaysFound == Spec => []EdgesFoundLocally
<1>1. DInv => EdgesFoundLocally
  BY DEF DInv
<1> QED BY <1>1, DistributedInvariance, PTL

(* get_node always gives what the last add_node or remove_node left.       *)
THEOREM PrimaryAlwaysCurrent == Spec => []PrimaryIsCurrent
<1>1. DInv => PrimaryIsCurrent
  BY DEF DInv
<1> QED BY <1>1, DistributedInvariance, PTL
-----------------------------------------------------------------------------
(* Refinement: every step of the backend is a Put, a Delete or a stutter   *)
(* of NodeStore on the primary copies.                                     *)
LEMMA StoreInit == Init => Store!Init
BY HomeAssumption DEF Init, Store!Init, Primary, EmptyGraph

(* Every step of the backend is a step of the store, or none.              *)
LEMMA StoreStep == DInv /\ [Next]_vars => [Store!Next]_([n \in NodeId |-> Primary(n)])
<1> SUFFICES ASSUME DInv, [Next]_vars
             PROVE  \/ Store!Next
                    \/ [n \in NodeId |-> Primary(n)]' = [n \in NodeId |-> Primary(n)]
  OBVIOUS
<1> DEFINE attr == [n \in NodeId |-> Primary(n)]
<1>0. /\ shards \in [Shard -> Graph] /\ Home \in [NodeId -> Shard]
      /\ attr' = [n \in NodeId |-> shards'[Home[n]].attr[n]]
      /\ attr = [n \in NodeId |-> shards[Home[n]].attr[n]]
  BY HomeAssumption DEF DInv, TypeOK, Primary
<1>1. ASSUME NEW n \in NodeId, NEW a \in Attr, AddNodeTo(n, a)
      PROVE  Store!Next
  <2>1. shards' = [shards EXCEPT ![Home[n]] = AddNode(@, n, a)]
    BY <1>1 DEF AddNodeTo
  <2>2. AddNode(shards[Home[n]], n, a).attr
           = [shards[Home[n]].attr EXCEPT ![n] = a]
    BY DEF AddNode
  <2>3. shards[Home[n]].attr \in [NodeId -> Attr \cup {Absent}]
    BY <1>0 DEF Graph
  <2>4. \A m \in NodeId : shards'[Home[m]].attr[m]
           = IF m = n THEN a ELSE shards[Home[m]].attr[m]
    BY <1>0, <2>1, <2>2, <2>3
  <2>5. attr' = [attr EXCEPT ![n] = a]
    BY <1>0, <2>4
  <2> QED BY <2>5 DEF Store!Next, Store!Put
<1>2. ASSUME NEW u \in NodeId, NEW v \in NodeId, NEW r \in Relation,
             AddEdgeBetween(u, v, r)
      PROVE  attr' = attr
  <2>1. \A m \in NodeId : Primary(m)' = Primary(m)
    BY <1>2, AddEdgeBetweenStep
  <2> QED BY <2>1
<1>3. ASSUME NEW n \in NodeId, RemoveNodeFrom(n)
      PROVE  Store!Next
  <2>1. /\ shards' = [shards EXCEPT ![Home[n]] = RemoveNode(@, n)]
        /\ attr[n] # Absent
    BY <1>0, <1>3 DEF RemoveNodeFrom, Primary
  <2>2. RemoveNode(shards[Home[n]], n).attr
           = [shards[Home[n]].attr EXCEPT ![n] = Absent]
    BY DEF RemoveNode
  <2>3. shards[Home[n]].attr \in [NodeId -> Attr \cup {Absent}]
    BY <1>0 DEF Graph
  <2>4. \A m \in NodeId : shards'[Home[m]].attr[m]
           = IF m = n THEN Absent ELSE shards[Home[m]].attr[m]
    BY <1>0, <2>1, <2>2, <2>3
  <2>5. attr' = [attr EXCEPT ![n] = Absent]
    BY <1>0, <2>4
  <2> QED BY <2>1, <2>5 DEF Store!Next, Store!Delete
<1>4. CASE UNCHANGED vars
  BY <1>4 DEF vars, Primary
<1> QED BY <1>1, <1>2, <1>3, <1>4 DEF Next

(* The sharded backend implements an ordinary node store.                  *)
THEOREM Refinement == Spec => ImplementsNodeStore
<1>1. Init /\ [][Next]_vars /\ []DInv =>
         Store!Init /\ [][Store!Next]_([n \in NodeId |-> Primary(n)])
  BY StoreInit, StoreStep, PTL
<1> QED BY <1>1, DistributedInvariance, PTL
        DEF Spec, ImplementsNodeStore, Store!Spec
-----------------------------------------------------------------------------
(* query_similar: there are finitely many copies, because a step makes no  *)
(* more than two.                                                          *)
LEMMA FewNewCopies ==
    ASSUME IsFiniteSet(Copies), NEW T, IsFiniteSet(T), Copies' \subseteq Copies \cup T
    PROVE  IsFiniteSet(Copies')
<1>1. IsFiniteSet(Copies \cup T)
  BY FS_Union
<1> QED
  BY <1>1, FS_Subset

LEMMA CopyMeans ==
    ASSUME NEW c
    PROVE  /\ c \in Copies <=> /\ c \in Shard \X NodeId
                               /\ shards[c[1]].attr[c[2]] # Absent
           /\ c \in Copies' <=> /\ c \in Shard \X NodeId
                                /\ shards'[c[1]].attr[c[2]] # Absent
BY DEF Copies, HasNode

LEMMA AddNodeCopies ==
    ASSUME DInv, IsFiniteSet(Copies), NEW n \in NodeId, NEW a \in Attr, AddNodeTo(n, a)
    PROVE  IsFiniteSet(Copies')
<1> DEFINE new == <<Home[n], n>>
<1>1. IsFiniteSet({new})
  BY FS_Singleton
<1>2. Home[n] \in Shard /\ shards \in [Shard -> Graph]
  BY HomeAssumption DEF DInv, TypeOK
<1>3. \A s \in Shard : s # Home[n] => shards'[s] = shards[s]
  BY <1>2 DEF AddNodeTo
<1>4. \A m \in NodeId : m # n => shards'[Home[n]].attr[m] = shards[Home[n]].attr[m]
  <2>1. shards'[Home[n]].attr = [shards[Home[n]].attr EXCEPT ![n] = a]
    BY <1>2 DEF AddNodeTo, AddNode
  <2> QED
    BY <1>2, <2>1 DEF Graph
<1>5. \A c \in Shard \X NodeId :
         c # new => shards'[c[1]].attr[c[2]] = shards[c[1]].attr[c[2]]
  BY <1>3, <1>4
<1> HIDE DEF new
<1>6. Copies' \subseteq Copies \cup {new}
  BY <1>5, CopyMeans
<1> QED
  BY <1>1, <1>6, FewNewCopies

LEMMA RemoveNodeCopies ==
    ASSUME DInv, IsFiniteSet(Copies), NEW n \in NodeId, RemoveNodeFrom(n)
    PROVE  IsFiniteSet(Copies')
<1>1. Home[n] \in Shard /\ shards \in [Shard -> Graph]
  BY HomeAssumption DEF DInv, TypeOK
<1>2. \A s \in Shard : s # Home[n] => shards'[s] = shards[s]
  BY <1>1 DEF RemoveNodeFrom
<1>3. \A m \in NodeId :
         shards'[Home[n]].attr[m] # Absent => shards[Home[n]].attr[m] # Absent
  <2>1. shards'[Home[n]].attr = [shards[Home[n]].attr EXCEPT ![n] = Absent]
    BY <1>1 DEF RemoveNodeFrom, RemoveNode
  <2> QED
    BY <1>1, <2>1 DEF Graph
<1>4. \A c \in Shard \X NodeId :
         shards'[c[1]].attr[c[2]] # Absent => shards[c[1]].attr[c[2]] # Absent
  BY <1>2, <1>3
<1>5. Copies' \subseteq Copies
  BY <1>4, CopyMeans
<1> QED
  BY <1>5, FS_Subset

LEMMA AddEdgeCopies ==
    ASSUME DInv, IsFiniteSet(Copies), NEW u \in NodeId, NEW v \in NodeId,
           NEW r \in Relation, AddEdgeBetween(u, v, r)
    PROVE  IsFiniteSet(Copies')
<1> DEFINE hu == Home[u]
           hv == Home[v]
           new == {<<hu, v>>, <<hv, u>>}
<1>1. IsFiniteSet(new)
  <2>1. IsFiniteSet({<<hu, v>>} \cup {<<hv, u>>})
    BY FS_Singleton, FS_Union
  <2>2. new = {<<hu, v>>} \cup {<<hv, u>>}
    OBVIOUS
  <2> QED
    BY <2>1, <2>2
<1>2. hu \in Shard /\ hv \in Shard /\ shards \in [Shard -> Graph]
  BY HomeAssumption DEF DInv, TypeOK
<1>3. /\ \A s \in Shard \ {hu, hv} : shards'[s] = shards[s]
      /\ \A m \in NodeId \ {v} : shards'[hu].attr[m] = shards[hu].attr[m] \/ hu = hv
      /\ \A m \in NodeId \ {u} : shards'[hv].attr[m] = shards[hv].attr[m] \/ hu = hv
      /\ hu = hv => shards'[hu].attr = shards[hu].attr
  <2>1. CASE hu = hv
    <3>1. shards' = [shards EXCEPT ![hu] = AddEdge(shards[hu], FreshPair[1], u, v, r)]
      BY <2>1 DEF AddEdgeBetween
    <3>2. shards'[hu].attr = shards[hu].attr
      BY <1>2, <3>1 DEF AddEdge
    <3> QED
      BY <1>2, <2>1, <3>1, <3>2
  <2>2. CASE hu # hv
    <3> DEFINE gu == AddEdge(WithNode(shards[hu], v, Primary(v)), FreshPair[1], u, v, r)
               gv == AddEdge(WithNode(shards[hv], u, Primary(u)), FreshPair[2], u, v, r)
    <3>1. shards' = [shards EXCEPT ![hu] = gu, ![hv] = gv]
      BY <2>2 DEF AddEdgeBetween
    <3>2. \A m \in NodeId \ {v} : gu.attr[m] = shards[hu].attr[m]
      BY <1>2 DEF AddEdge, WithNode, AddNode, Graph
    <3>3. \A m \in NodeId \ {u} : gv.attr[m] = shards[hv].attr[m]
      BY <1>2 DEF AddEdge, WithNode, AddNode, Graph
    <3> HIDE DEF gu, gv
    <3>4. /\ shards'[hu] = gu /\ shards'[hv] = gv
          /\ \A s \in Shard \ {hu, hv} : shards'[s] = shards[s]
      BY <1>2, <2>2, <3>1
    <3> QED
      BY <2>2, <3>2, <3>3, <3>4
  <2> QED
    BY <2>1, <2>2
<1>4. \A c \in Shard \X NodeId :
         c \notin new => shards'[c[1]].attr[c[2]] = shards[c[1]].attr[c[2]]
  <2>1. ASSUME NEW s \in Shard, NEW m \in NodeId, <<s, m>> \notin new
        PROVE  shards'[s].attr[m] = shards[s].attr[m]
    <3>1. CASE s \notin {hu, hv}
      BY <1>3, <3>1
    <3>2. CASE hu = hv /\ s = hu
      BY <1>3, <3>2
    <3>3. CASE hu # hv /\ s = hu
      BY <1>3, <2>1, <3>3
    <3>4. CASE hu # hv /\ s = hv
      BY <1>3, <2>1, <3>4
    <3> QED
      BY <3>1, <3>2, <3>3, <3>4
  <2> QED
    BY <2>1
<1> HIDE DEF new
<1>5. Copies' \subseteq Copies \cup new
  BY <1>4, CopyMeans
<1> QED
  BY <1>1, <1>5, FewNewCopies

(* The k best of the whole are put together from the k best of its parts:  *)
(* of a part that lost a copy the k kept are at least as good, and k others*)
(* are then in the result whenever the lost one's better is not.           *)
LEMMA BestFacts ==
    ASSUME NEW C, IsFiniteSet(C), NEW k \in Nat, NEW T \in Best(C, k)
    PROVE  /\ T \subseteq C /\ IsFiniteSet(T)
           /\ Cardinality(T) \in Nat /\ Cardinality(C) \in Nat
           /\ Cardinality(T) <= k /\ Cardinality(T) <= Cardinality(C)
           /\ T # C => Cardinality(T) = k
           /\ \A c \in T, d \in C \ T : CopyScore(c) >= CopyScore(d)
<1>1. /\ T \in SUBSET C
      /\ Cardinality(T) = IF Cardinality(C) < k THEN Cardinality(C) ELSE k
      /\ \A c \in T, d \in C \ T : CopyScore(c) >= CopyScore(d)
  BY DEF Best
<1>2. /\ IsFiniteSet(T) /\ Cardinality(T) <= Cardinality(C)
      /\ Cardinality(C) = Cardinality(T) => C = T
  BY <1>1, FS_Subset
<1>3. Cardinality(T) \in Nat /\ Cardinality(C) \in Nat
  BY <1>2, FS_CardinalityType
<1> QED
  BY <1>1, <1>2, <1>3

LEMMA MergeLosesNothing ==
    ASSUME DInv, IsFiniteSet(Copies)
    PROVE  MergeIsTopK
<1> SUFFICES ASSUME NEW R \in AllResults(TopK), NEW T \in Best(R, TopK)
             PROVE  T \in Best(Copies, TopK)
  BY DEF MergeIsTopK, QuerySimilar
<1> DEFINE In(s) == {c \in Copies : c[1] = s}
           Of(s) == {c \in R : c[1] = s}
<1>1. TopK \in Nat
  BY BoundAssumption
<1>2. R \in SUBSET Copies /\ \A s \in Shard : Of(s) \in Best(In(s), TopK)
  BY DEF AllResults, ShardResults
<1>3. IsFiniteSet(R) /\ Cardinality(R) \in Nat /\ Cardinality(Copies) \in Nat
      /\ Cardinality(R) <= Cardinality(Copies)
      /\ (Cardinality(Copies) = Cardinality(R) => Copies = R)
  BY <1>2, FS_Subset, FS_CardinalityType
<1>4. /\ T \subseteq R /\ IsFiniteSet(T) /\ Cardinality(T) \in Nat
      /\ Cardinality(T) <= TopK /\ (T # R => Cardinality(T) = TopK)
      /\ \A c \in T, d \in R \ T : CopyScore(c) >= CopyScore(d)
  BY <1>1, <1>3, BestFacts
<1>5. \A c \in Copies : CopyScore(c) \in Nat /\ c[1] \in Shard
  <2>1. ASSUME NEW c \in Copies PROVE CopyScore(c) \in Nat /\ c[1] \in Shard
    <3>1. c[1] \in Shard /\ c[2] \in NodeId /\ shards[c[1]].attr[c[2]] # Absent
      BY DEF Copies, HasNode
    <3>2. shards[c[1]].attr[c[2]] \in Attr
      BY <3>1 DEF DInv, TypeOK, Graph
    <3> QED
      BY <3>1, <3>2, ScoreAssumption DEF CopyScore
  <2> QED
    BY <2>1
(* The best of d's shard, when d is not among them.                        *)
<1>6. ASSUME NEW d \in Copies \ R
      PROVE  \E P \in SUBSET R : /\ IsFiniteSet(P) /\ Cardinality(P) = TopK
                                 /\ \A e \in P : CopyScore(e) >= CopyScore(d)
  <2> DEFINE P == Of(d[1])
             I == In(d[1])
  <2>1. d[1] \in Shard
    BY <1>5
  <2>2. P \in Best(I, TopK) /\ d \in I \ P /\ P \in SUBSET R /\ I \in SUBSET Copies
    BY <1>2, <2>1
  <2> HIDE DEF P, I
  <2>3. IsFiniteSet(I)
    BY <2>2, FS_Subset
  <2>4. /\ IsFiniteSet(P) /\ (P # I => Cardinality(P) = TopK)
        /\ \A e \in P, x \in I \ P : CopyScore(e) >= CopyScore(x)
    BY <1>1, <2>2, <2>3, BestFacts
  <2> QED
    BY <2>2, <2>4
<1> HIDE DEF In, Of
<1>7. ASSUME NEW c \in T, NEW d \in Copies \ T
      PROVE  CopyScore(c) >= CopyScore(d)
  <2>1. CASE d \in R
    BY <1>4, <1>7, <2>1
  <2>2. CASE d \notin R
    <3>1. PICK P \in SUBSET R : /\ IsFiniteSet(P) /\ Cardinality(P) = TopK
                                /\ \A e \in P : CopyScore(e) >= CopyScore(d)
      BY <1>6, <2>2
    <3>2. CASE P \subseteq T
      <4>1. Cardinality(P) <= Cardinality(T) /\ (Cardinality(T) = Cardinality(P) => T = P)
        BY <1>4, <3>2, FS_Subset
      <4>2. T = P
        BY <1>1, <1>4, <3>1, <4>1
      <4> QED
        BY <3>1, <4>2
    <3>3. CASE \E e \in P : e \notin T
      <4>1. PICK e \in P : e \notin T
        BY <3>3
      <4>2. CopyScore(c) >= CopyScore(e) /\ CopyScore(e) >= CopyScore(d)
        BY <1>4, <3>1, <4>1
      <4>3. c \in Copies /\ e \in Copies /\ d \in Copies
        BY <1>2, <1>4, <4>1
      <4>4. CopyScore(c) \in Nat /\ CopyScore(e) \in Nat /\ CopyScore(d) \in Nat
        BY <1>5, <4>3
      <4> QED
        BY <4>2, <4>4
    <3> QED
      BY <3>2, <3>3
  <2> QED
    BY <2>1, <2>2
<1>8. Cardinality(T) = IF Cardinality(Copies) < TopK THEN Cardinality(Copies) ELSE TopK
  <2>1. CASE R = Copies
    BY <1>1, <1>3, <1>4, <2>1 DEF Best
  <2>2. CASE R # Copies
    <3>1. PICK d \in Copies \ R : TRUE
      BY <1>2, <2>2
    <3>2. PICK P \in SUBSET R : IsFiniteSet(P) /\ Cardinality(P) = TopK
      BY <1>6, <3>1
    <3>3. TopK <= Cardinality(R)
      BY <1>3, <3>2, FS_Subset
    <3>4. Cardinality(T) = TopK
      BY <1>1, <1>3, <1>4, <3>3
    <3> QED
      BY <1>1, <1>3, <3>3, <3>4
  <2> QED
    BY <2>1, <2>2
<1>9. T \in SUBSET Copies
  BY <1>2, <1>4
<1> QED
  BY <1>7, <1>8, <1>9 DEF Best

(* Asking every shard for its k best before merging loses nothing, however *)
(* many shards there are and whatever copies add_edge and remove_node have *)
(* left in them: the answer is a k best of all copies.                     *)
THEOREM MergeAlwaysTopK == Spec => []MergeIsTopK
<1> DEFINE I == DInv /\ IsFiniteSet(Copies)
<1>1. Init => I
  <2> SUFFICES ASSUME Init PROVE I
    OBVIOUS
  <2>1. Copies = {}
    BY DEF Init, Copies, EmptyGraph, HasNode
  <2> QED
    BY <2>1, InitDInv, FS_EmptySet
<1>2. I /\ [Next]_vars => I'
  <2> SUFFICES ASSUME I, [Next]_vars PROVE I'
    OBVIOUS
  <2>1. DInv'
    BY NextDInv
  <2>2. CASE UNCHANGED vars
    <3>1. Copies' = Copies
      BY <2>2 DEF vars, Copies
    <3> QED
      BY <2>1, <3>1
  <2>3. CASE Next
    BY <2>1, <2>3, AddNodeCopies, AddEdgeCopies, RemoveNodeCopies DEF Next
  <2> QED
    BY <2>2, <2>3
<1>3. I => MergeIsTopK
  BY MergeLosesNothing
<1> HIDE DEF I
<1> QED
  BY <1>1, <1>2, <1>3, PTL DEF Spec
-----------------------------------------------------------------------------
(* The aggregates.  No key is drawn twice, so no two shards share an edge. *)
KeysApart ==
    \A s, t \in Shard : s # t => Keys(shards[s]) \cap Keys(shards[t]) = {}

AInv == KeysApart /\ IsFiniteSet(Copies) /\ IsFiniteSet(EdgeCopies)

(* What a step adds to the edges of the shards: nothing, or one edge under *)
(* a new key to each of two shards.                                        *)
NoEdgeAdded == \A s \in Shard : shards'[s].edges \subseteq shards[s].edges

EdgeAdded(hu, hv, eu, ev) ==
    /\ eu.key # ev.key /\ {eu.key, ev.key} \cap UsedKeys = {}
    /\ \A s \in Shard : shards'[s].edges \subseteq
          shards[s].edges \cup (IF s = hu THEN {eu}
                                ELSE IF s = hv THEN {ev} ELSE {})

LEMMA EdgesAdded ==
    ASSUME DInv, Next
    PROVE  \/ NoEdgeAdded
           \/ \E hu, hv \in Shard : \E eu, ev \in Edge : EdgeAdded(hu, hv, eu, ev)
<1>1. shards \in [Shard -> Graph]
  BY DEF DInv, TypeOK
<1>2. ASSUME NEW n \in NodeId, NEW a \in Attr, AddNodeTo(n, a)
      PROVE  NoEdgeAdded
  <2>1. /\ shards'[Home[n]].edges = shards[Home[n]].edges
        /\ \A s \in Shard : s # Home[n] => shards'[s] = shards[s]
    BY <1>1, <1>2, HomeAssumption DEF AddNodeTo, AddNode
  <2> QED
    BY <2>1 DEF NoEdgeAdded
<1>3. ASSUME NEW n \in NodeId, RemoveNodeFrom(n)
      PROVE  NoEdgeAdded
  <2>1. /\ shards'[Home[n]].edges \subseteq shards[Home[n]].edges
        /\ \A s \in Shard : s # Home[n] => shards'[s] = shards[s]
    BY <1>1, <1>3, HomeAssumption DEF RemoveNodeFrom, RemoveNode
  <2> QED
    BY <2>1 DEF NoEdgeAdded
<1>4. ASSUME NEW u \in NodeId, NEW v \in NodeId, NEW r \in Relation,
             AddEdgeBetween(u, v, r)
      PROVE  \E hu, hv \in Shard : \E eu, ev \in Edge : EdgeAdded(hu, hv, eu, ev)
  <2> DEFINE hu == Home[u]
             hv == Home[v]
             eu == [key |-> FreshPair[1], src |-> u, dst |-> v, rel |-> r]
             ev == [key |-> FreshPair[2], src |-> u, dst |-> v, rel |-> r]
  <2>1. hu \in Shard /\ hv \in Shard
    BY HomeAssumption
  <2>2. FreshPairs # {}
    BY <1>4 DEF AddEdgeBetween
  <2>3. /\ eu \in Edge /\ ev \in Edge /\ eu.key # ev.key
        /\ {eu.key, ev.key} \cap UsedKeys = {}
    BY <2>2, FreshPairIsFresh DEF Edge
  <2>4. ASSUME NEW s \in Shard
        PROVE  shards'[s].edges \subseteq
                  shards[s].edges \cup (IF s = hu THEN {eu}
                                        ELSE IF s = hv THEN {ev} ELSE {})
    <3>1. CASE hu = hv
      <4>1. shards' = [shards EXCEPT ![hu] = AddEdge(@, FreshPair[1], u, v, r)]
        BY <1>4, <3>1 DEF AddEdgeBetween
      <4> QED
        BY <1>1, <4>1 DEF AddEdge
    <3>2. CASE hu # hv
      <4> DEFINE gu == AddEdge(WithNode(shards[hu], v, Primary(v)), FreshPair[1], u, v, r)
                 gv == AddEdge(WithNode(shards[hv], u, Primary(u)), FreshPair[2], u, v, r)
      <4>1. shards' = [shards EXCEPT ![hu] = gu, ![hv] = gv]
        BY <1>4, <3>2 DEF AddEdgeBetween
      <4>2. /\ gu.edges = shards[hu].edges \cup {eu}
            /\ gv.edges = shards[hv].edges \cup {ev}
        BY DEF AddEdge, WithNode, AddNode
      <4> HIDE DEF gu, gv
      <4>3. /\ shards'[hu] = gu /\ shards'[hv] = gv
            /\ \A t \in Shard \ {hu, hv} : shards'[t] = shards[t]
        BY <1>1, <2>1, <3>2, <4>1
      <4> QED
        BY <3>2, <4>2, <4>3
    <3> QED
      BY <3>1, <3>2
  <2> HIDE DEF eu, ev, hu, hv
  <2>5. EdgeAdded(hu, hv, eu, ev)
    BY <2>3, <2>4 DEF EdgeAdded
  <2> QED
    BY <2>1, <2>3, <2>5
<1> QED
  BY <1>2, <1>3, <1>4 DEF Next

LEMMA EdgeCopyMeans ==
    ASSUME NEW c
    PROVE  /\ c \in EdgeCopies <=>
                 \E s \in Shard : \E e \in shards[s].edges : c = <<s, e>>
           /\ c \in EdgeCopies' <=>
                 \E s \in Shard : \E e \in shards'[s].edges : c = <<s, e>>
BY DEF EdgeCopies, AllEdges

LEMMA AggregatesStep ==
    ASSUME DInv, AInv, Next, IsFiniteSet(Copies')
    PROVE  AInv'
<1>1. CASE NoEdgeAdded
  <2>1. KeysApart'
    BY <1>1 DEF NoEdgeAdded, AInv, KeysApart, Keys
  <2>2. EdgeCopies' \subseteq EdgeCopies
    BY <1>1, EdgeCopyMeans DEF NoEdgeAdded
  <2> QED
    BY <2>1, <2>2, FS_Subset DEF AInv
<1>2. ASSUME NEW hu \in Shard, NEW hv \in Shard, NEW eu \in Edge, NEW ev \in Edge,
             EdgeAdded(hu, hv, eu, ev)
      PROVE  AInv'
  <2> DEFINE new == {<<hu, eu>>, <<hv, ev>>}
  <2>1. IsFiniteSet(new)
    <3>1. IsFiniteSet({<<hu, eu>>} \cup {<<hv, ev>>})
      BY FS_Singleton, FS_Union
    <3>2. new = {<<hu, eu>>} \cup {<<hv, ev>>}
      OBVIOUS
    <3> QED
      BY <3>1, <3>2
  <2>2. EdgeCopies' \subseteq EdgeCopies \cup new
    <3> SUFFICES ASSUME NEW s \in Shard, NEW e \in shards'[s].edges,
                        <<s, e>> \notin EdgeCopies
                 PROVE  <<s, e>> \in new
      BY EdgeCopyMeans
    <3>1. e \notin shards[s].edges
      BY EdgeCopyMeans
    <3> QED
      BY <1>2, <3>1 DEF EdgeAdded
  <2> HIDE DEF new
  <2>3. IsFiniteSet(EdgeCopies')
    <3>1. IsFiniteSet(EdgeCopies \cup new)
      BY <2>1, FS_Union DEF AInv
    <3> QED
      BY <2>2, <3>1, FS_Subset
  <2>4. KeysApart'
    <3> SUFFICES ASSUME NEW s \in Shard, NEW t \in Shard, s # t,
                        NEW e \in shards'[s].edges, NEW f \in shards'[t].edges
                 PROVE  e.key # f.key
      BY DEF KeysApart, Keys
    <3>1. \A p \in Shard : \A d \in shards[p].edges :
             d.key \in Keys(shards[p]) /\ d.key \in UsedKeys
      BY DEF Keys, UsedKeys
    <3>2. \A d \in shards[s].edges, c \in shards[t].edges : d.key # c.key
      BY <3>1 DEF AInv, KeysApart
    <3>3. \/ e \in shards[s].edges
          \/ (s = hu /\ e = eu)
          \/ (s # hu /\ s = hv /\ e = ev)
      BY <1>2 DEF EdgeAdded
    <3>4. \/ f \in shards[t].edges
          \/ (t = hu /\ f = eu)
          \/ (t # hu /\ t = hv /\ f = ev)
      BY <1>2 DEF EdgeAdded
    <3>5. eu.key # ev.key /\ eu.key \notin UsedKeys /\ ev.key \notin UsedKeys
      BY <1>2 DEF EdgeAdded
    <3> QED
      BY <3>1, <3>2, <3>3, <3>4, <3>5
  <2> QED
    BY <2>3, <2>4 DEF AInv
<1> QED
  BY <1>1, <1>2, EdgesAdded

LEMMA EdgesListed ==
    ASSUME DInv, AInv
    PROVE  /\ ideal.edges \subseteq AllEdges
           /\ NumEdges = Cardinality(AllEdges)
           /\ \A e \in ideal.edges : Home[e.src] # Home[e.dst] =>
                 \E f \in AllEdges \ {e} : LinkOf(f) = LinkOf(e)
<1>1. \A e \in ideal.edges : Home[e.src] \in Shard /\ Home[e.dst] \in Shard
  BY HomeAssumption DEF DInv, TypeOK, Graph, Edge
<1>2. \A s, t \in Shard : s # t => shards[s].edges \cap shards[t].edges = {}
  BY DEF AInv, KeysApart, Keys
<1>3. ideal.edges \subseteq AllEdges
  BY <1>1 DEF DInv, EdgesFoundLocally, AllEdges
<1>4. ASSUME NEW e \in ideal.edges, Home[e.src] # Home[e.dst]
      PROVE  \E f \in AllEdges \ {e} : LinkOf(f) = LinkOf(e)
  <2>1. e \in shards[Home[e.src]].edges
    BY DEF DInv, EdgesFoundLocally
  <2>2. PICK f \in shards[Home[e.dst]].edges : LinkOf(f) = LinkOf(e)
    BY DEF DInv, EdgesFoundLocally, Links
  <2> QED
    BY <1>1, <1>2, <1>4, <2>1, <2>2 DEF AllEdges
<1>5. NumEdges = Cardinality(AllEdges)
  <2> DEFINE f == [c \in EdgeCopies |-> c[2]]
  <2>1. \A c \in EdgeCopies : c[1] \in Shard /\ c[2] \in shards[c[1]].edges
                                /\ c = <<c[1], c[2]>> /\ c[2] \in AllEdges
    BY DEF EdgeCopies
  <2>2. f \in [EdgeCopies -> AllEdges]
    BY <2>1
  <2>3. \A e \in AllEdges : \E c \in EdgeCopies : f[c] = e
    <3>1. TAKE e \in AllEdges
    <3>2. PICK s \in Shard : e \in shards[s].edges
      BY DEF AllEdges
    <3>3. <<s, e>> \in EdgeCopies
      BY <3>2, EdgeCopyMeans
    <3> QED
      BY <3>3
  <2>4. \A c, d \in EdgeCopies : f[c] = f[d] => c = d
    BY <1>2, <2>1
  <2>5. f \in Surjection(EdgeCopies, AllEdges) /\ f \in Injection(EdgeCopies, AllEdges)
    BY <2>2, <2>3, <2>4 DEF Surjection, Injection, IsInjective
  <2> HIDE DEF f
  <2>6. IsFiniteSet(EdgeCopies)
    BY DEF AInv
  <2> QED
    BY <2>5, <2>6, FS_Surjection DEF NumEdges
<1> QED
  BY <1>3, <1>4, <1>5

LEMMA NodesListed ==
    ASSUME DInv, AInv
    PROVE  /\ Nodes(ideal) \subseteq AllNodes
           /\ Cardinality(AllNodes) <= NumNodes
           /\ \A s \in Shard : Cardinality({n \in Nodes(ideal) : Home[n] = s})
                                  <= ShardDistribution[s]
<1>1. \A n \in Nodes(ideal) : <<Home[n], n>> \in Copies
  BY HomeAssumption DEF DInv, PrimaryIsCurrent, Primary, Nodes, HasNode, Copies
<1>2. Nodes(ideal) \subseteq AllNodes
  <2> SUFFICES ASSUME NEW n \in Nodes(ideal) PROVE n \in AllNodes
    OBVIOUS
  <2>1. <<Home[n], n>>[2] = n
    OBVIOUS
  <2> QED
    BY <1>1, <2>1 DEF AllNodes
<1>3. Cardinality(AllNodes) <= NumNodes
  <2> DEFINE f == [c \in Copies |-> c[2]]
  <2>1. f \in Surjection(Copies, AllNodes)
    BY DEF AllNodes, Surjection
  <2> QED
    BY <2>1, FS_Surjection DEF AInv, NumNodes
<1>4. ASSUME NEW s \in Shard
      PROVE  Cardinality({n \in Nodes(ideal) : Home[n] = s}) <= ShardDistribution[s]
  <2> DEFINE here == {n \in Nodes(ideal) : Home[n] = s}
             held == {c \in Copies : c[1] = s}
             f == [n \in here |-> <<s, n>>]
  <2>1. IsFiniteSet(held)
    BY FS_Subset DEF AInv
  <2>2. f \in [here -> held]
    BY <1>1
  <2>3. f \in Injection(here, held)
    BY <2>2 DEF Injection, IsInjective
  <2> HIDE DEF f
  <2>4. Cardinality(here) <= Cardinality(held)
    BY <2>1, <2>3, FS_Injection
  <2> QED
    BY <2>4 DEF ShardDistribution
<1> QED
  BY <1>2, <1>3, <1>4

(* What the aggregates may be relied on for, whatever copies there are and *)
(* were: the lists miss nothing, the counts are of at least what is live,  *)
(* and every edge between two homes is listed and counted twice.           *)
THEOREM AggregatesAlwaysCover == Spec => []AggregatesCover
<1> DEFINE I == DInv /\ AInv
<1>1. Init => I
  <2> SUFFICES ASSUME Init PROVE I
    OBVIOUS
  <2>1. Copies = {} /\ EdgeCopies = {} /\ KeysApart
    BY DEF Init, Copies, EdgeCopies, KeysApart, Keys, EmptyGraph, HasNode
  <2> QED
    BY <2>1, InitDInv, FS_EmptySet DEF AInv
<1>2. I /\ [Next]_vars => I'
  <2> SUFFICES ASSUME I, [Next]_vars PROVE I'
    OBVIOUS
  <2>1. DInv'
    BY NextDInv
  <2>2. CASE UNCHANGED vars
    <3>1. AInv'
      BY <2>2 DEF vars, AInv, KeysApart, Copies, EdgeCopies, AllEdges
    <3> QED
      BY <2>1, <3>1
  <2>3. CASE Next
    <3>1. IsFiniteSet(Copies')
      BY <2>3, AddNodeCopies, AddEdgeCopies, RemoveNodeCopies DEF Next, AInv
    <3> QED
      BY <2>1, <2>3, <3>1, AggregatesStep
  <2> QED
    BY <2>2, <2>3
<1>3. I => AggregatesCover
  BY NodesListed, EdgesListed DEF AggregatesCover
<1> HIDE DEF I
<1> QED
  BY <1>1, <1>2, <1>3, PTL DEF Spec
=============================================================================
