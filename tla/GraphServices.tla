--------------------------- MODULE GraphServices ---------------------------
(***************************************************************************)
(* Two services that keep state of their own beside one live graph.        *)
(* GraphFederator (src/smgp/integration/federation.py) inserts what it     *)
(* fetches from outside as nodes it means to take away again; several may  *)
(* share a graph.  VectorDBSyncer (src/smgp/integration/vectordb.py)       *)
(* copies the nodes to a vector database and searches there.  Neither is   *)
(* told what the other, or the program, does to the graph.                 *)
(*                                                                         *)
(* The graph is the sequence of its nodes in the order networkx lists      *)
(* them: the syncer numbers its points by that order.  A node's label,     *)
(* properties and vector are one value.  Calls are synchronous.            *)
(***************************************************************************)
EXTENDS Naturals, Sequences, FiniteSets, SequenceFilter

CONSTANTS
    UserId,      \* ids the program gives to its own nodes
    Fed,         \* federators on this graph
    Source,      \* names of external sources
    Default,     \* the name in the id of a query without a source
    Entity,      \* ids of entities in the sources
    Scheme,      \* URI schemes of sources
    Val,         \* what a node can store
    Bare,        \* what a fetch of a row that is not there stores
    Backend,     \* vector databases
    Over,        \* how many more results than asked a search fetches (10)
    Batch,       \* objects per flush of a Weaviate batch (100)
    MaxK,        \* bound on k of a search
    MaxObjects,  \* bound on the points of the collection
    None

EphId == (Source \cup {Default}) \X Entity

NodeId == UserId \cup EphId

Node == [id : NodeId, val : Val]

ASSUME ServicesAssumption ==
    /\ Bare \in Val
    /\ Default \notin Source
    /\ UserId \cap EphId = {}
    /\ Scheme \subseteq {"sqlite", "sparql", "neo4j", "other"}
    /\ Backend \subseteq {"qdrant", "pinecone", "weaviate"}
    /\ None \notin Seq(Node)
    /\ Over \in Nat /\ Batch \in Nat /\ MaxK \in Nat /\ MaxObjects \in Nat
    /\ Batch > 0

VARIABLES
    graph,       \* the nodes of the graph, oldest first
    sources,     \* _sources of each federator: registered names, in order
    ephemeral,   \* _ephemeral_nodes of each federator
    backend,     \* the database behind the syncer
    store,       \* the collection: its points, or None before it is made
    snapshot     \* the graph at the last complete upload (history)

vars == <<graph, sources, ephemeral, backend, store, snapshot>>
fedVars == <<sources, ephemeral>>
dbVars == <<backend, store, snapshot>>

Least(a, b) == IF a <= b THEN a ELSE b

Ids(g) == {g[i].id : i \in DOMAIN g}

-----------------------------------------------------------------------------
(* The graph: add_node keeps the place of a node it overwrites.            *)
Put(g, n, v) ==
    IF n \in Ids(g)
    THEN [i \in DOMAIN g |-> IF g[i].id = n THEN [id |-> n, val |-> v] ELSE g[i]]
    ELSE Append(g, [id |-> n, val |-> v])

Without(g, S) == Leaving(g, [id : S, val : Val])

AddNode(n, v) ==
    /\ graph' = Put(graph, n, v)
    /\ UNCHANGED <<fedVars, dbVars>>

(* Anybody may remove any node, also one that a federator made.            *)
RemoveNode(n) ==
    /\ n \in Ids(graph)
    /\ graph' = Without(graph, {n})
    /\ UNCHANGED <<fedVars, dbVars>>

-----------------------------------------------------------------------------
(* The federator.  A source registered again keeps its place.              *)
Names(f) == {sources[f][i].name : i \in DOMAIN sources[f]}

AddExternalSource(f, s, scheme) ==
    /\ sources' = [sources EXCEPT ![f] =
           IF s \in Names(f)
           THEN [i \in DOMAIN @ |-> IF @[i].name = s
                                    THEN [name |-> s, scheme |-> scheme]
                                    ELSE @[i]]
           ELSE Append(@, [name |-> s, scheme |-> scheme])]
    /\ UNCHANGED <<graph, ephemeral, dbVars>>

(* The configuration a query uses: the named one, else the first.          *)
Config(f, s) ==
    {sources[f][i] : i \in {j \in DOMAIN sources[f] :
        IF s = Default THEN j = 1 ELSE sources[f][j].name = s}}

(* Fetch of a row that is there, or not: only SQLite is implemented.       *)
Fetched(c) == IF c.scheme = "sqlite" THEN Val ELSE {}

EphemeralId(s, e) == <<s, e>>

VirtualQuery(f, s, e) ==
    \/ /\ \E c \in Config(f, s) : \E v \in Fetched(c) :
              graph' = Put(graph, EphemeralId(s, e), v)
       /\ ephemeral' = [ephemeral EXCEPT ![f] = @ \cup {EphemeralId(s, e)}]
       /\ UNCHANGED <<sources, dbVars>>
    \* No such source, no fetcher for its scheme, or the database raises.
    \/ UNCHANGED vars

(* Mutant: the set is emptied also when a removal raises.                  *)
ClearForgets(f) ==
    /\ \E S \in SUBSET ephemeral[f] :
          /\ S # ephemeral[f] => ~ephemeral[f] \subseteq Ids(graph)
          /\ S \subseteq Ids(graph)
          /\ graph' = Without(graph, S)
    /\ ephemeral' = [ephemeral EXCEPT ![f] = {}]
    /\ UNCHANGED <<sources, dbVars>>

(* clear_ephemeral walks the set in no particular order and stops with a   *)
(* KeyError at the first node that is gone: what it removed before stays   *)
(* removed, and the set is not emptied.                                    *)
ClearEphemeral(f) ==
    /\ \/ /\ ephemeral[f] \subseteq Ids(graph)
          /\ graph' = Without(graph, ephemeral[f])
          /\ ephemeral' = [ephemeral EXCEPT ![f] = {}]
       \/ /\ ~ephemeral[f] \subseteq Ids(graph)
          /\ \E S \in SUBSET (ephemeral[f] \cap Ids(graph)) :
                graph' = Without(graph, S)
          /\ UNCHANGED ephemeral
    /\ UNCHANGED <<sources, dbVars>>

-----------------------------------------------------------------------------
(* The syncer.  Qdrant and Pinecone number the points by their place in    *)
(* nodes() and overwrite the points of the same number; a point beyond the *)
(* last node stays as it was.  Weaviate gives every object a new id.       *)
Points == IF store = None THEN <<>> ELSE store

(* Mutant: an insert, which keeps a point that is already there.           *)
InsertNew(old, new) == old \o SubSeq(new, Len(old) + 1, Len(new))

Upsert(old, new) == new \o SubSeq(old, Len(new) + 1, Len(old))

Uploaded(new) ==
    IF backend = "weaviate" THEN Points \o new ELSE Upsert(Points, new)

(* Everything is uploaded, whether or not the answer gets back.            *)
Sync ==
    /\ Len(Uploaded(graph)) <= MaxObjects
    /\ store' = Uploaded(graph)
    /\ snapshot' = graph
    /\ UNCHANGED <<graph, fedVars, backend>>

(* A sync that raises before that: the collection has been made or not,    *)
(* the one upsert has not happened, some full batches of Weaviate have.    *)
SyncRaises ==
    /\ \/ UNCHANGED store
       \/ store' = Points
       \/ /\ backend = "weaviate"
          /\ \E n \in 1..Least(Len(graph), MaxObjects - Len(Points)) :
                n % Batch = 0 /\ store' = Points \o SubSeq(graph, 1, n)
    /\ UNCHANGED <<graph, fedVars, backend, snapshot>>

(* What a text filter can match in a result: Pinecone returns the id only. *)
Shows(p, text) == p.id = text \/ (backend # "pinecone" /\ p.val = text)

(* Mutant: no more results than asked are fetched before the filter.       *)
OversampleNone(k) == k

Oversample(k) == k * Over

(* The answers hybrid_search can give: the nearest Oversample(k) points, in *)
(* an order the query vector decides, filtered, and of those the first k.  *)
Nearest(k) ==
    {near \in SUBSET DOMAIN store :
         Cardinality(near) = Least(Oversample(k), Len(store))}

Matching(near, text) == {i \in near : Shows(store[i], text)}

HybridSearch(text, k) ==
    UNION {{hits \in SUBSET Matching(near, text) :
                Cardinality(hits) = Least(k, Cardinality(Matching(near, text)))}
           : near \in Nearest(k)}

-----------------------------------------------------------------------------
Init ==
    /\ graph = <<>>
    /\ sources = [f \in Fed |-> <<>>]
    /\ ephemeral = [f \in Fed |-> {}]
    /\ backend \in Backend
    /\ store = None
    /\ snapshot = None

ProgramStep ==
    \/ \E n \in UserId, v \in Val : AddNode(n, v)
    \/ \E n \in NodeId : RemoveNode(n)

FederatorStep(f) ==
    \/ \E s \in Source, c \in Scheme : AddExternalSource(f, s, c)
    \/ \E s \in Source \cup {Default}, e \in Entity : VirtualQuery(f, s, e)
    \/ ClearEphemeral(f)

SyncerStep ==
    \/ Sync
    \/ SyncRaises

Next ==
    \/ ProgramStep
    \/ \E f \in Fed : FederatorStep(f)
    \/ SyncerStep

Spec == Init /\ [][Next]_vars

-----------------------------------------------------------------------------
(* Every variable has its type, and no id is twice in the graph (the       *)
(* federators and the program write to it by id).                          *)
TypeOK ==
    /\ graph \in Seq(Node)
    /\ \A i, j \in DOMAIN graph : graph[i].id = graph[j].id => i = j
    /\ sources \in [Fed -> Seq([name : Source, scheme : Scheme])]
    /\ ephemeral \in [Fed -> SUBSET EphId]
    /\ backend \in Backend
    /\ store \in Seq(Node) \cup {None}
    /\ snapshot \in Seq(Node) \cup {None}

(* A node that a federator made and that is still in the graph is in the   *)
(* set of a federator, also after a clear that stopped half way because    *)
(* somebody else had removed a node: a later clear can still reach it.     *)
EphemeralTracked ==
    Ids(graph) \cap EphId \subseteq UNION {ephemeral[f] : f \in Fed}

(* Whatever has been left in the collection by earlier syncs, by attempts  *)
(* that raised and by nodes removed since, every node of the last complete *)
(* upload is there with the value it had; where points have numbers, it is *)
(* the point of its number, so leftovers come after it.                    *)
SyncedIsStored ==
    snapshot # None =>
        IF backend = "weaviate"
        THEN \E i \in 0..Len(store) - Len(snapshot) :
                 SubSeq(store, i + 1, i + Len(snapshot)) = snapshot
        ELSE SubSeq(store, 1, Len(snapshot)) = snapshot

(* A search finds every node of the last sync that its text matches, past  *)
(* all leftovers, when the collection is no larger than what is fetched    *)
(* and no more than k points match.                                        *)
SearchFindsSynced ==
    snapshot # None =>
        \A text \in NodeId \cup Val, k \in 1..MaxK :
            (/\ Len(store) <= k * Over
             /\ Cardinality(Matching(DOMAIN store, text)) <= k)
            => \A hits \in HybridSearch(text, k) : \A i \in DOMAIN snapshot :
                   Shows(snapshot[i], text) =>
                       \E h \in hits : store[h] = snapshot[i]
=============================================================================
