---------------------- MODULE ConversationMemory_proofs ----------------------
(***************************************************************************)
(* Proofs about ConversationMemory: IInv is inductive, and what is         *)
(* recalled, what the tool knows and what a checkpoint holds follow from   *)
(* it, for every number of turns, every window and every set of entities.  *)
(***************************************************************************)
EXTENDS ConversationMemory, TLAPS

-----------------------------------------------------------------------------
(* Nodes and graphs.                                                       *)

(* The nodes of a turn are nodes, two of them, and of no other turn.       *)
LEMMA TurnNodes ==
    ASSUME NEW k \in Message
    PROVE  /\ InputOf(k) \in NodeId /\ OutputOf(k) \in NodeId
           /\ InputOf(k) \in TurnNode /\ OutputOf(k) \in TurnNode
           /\ \A j \in Message : InputOf(k) # OutputOf(j)
           /\ \A j \in Message : InputOf(k) = InputOf(j) => k = j
           /\ \A j \in Message : OutputOf(k) = OutputOf(j) => k = j
BY DEF InputOf, OutputOf, NodeId, TurnNode

(* An attribute is never the mark of a missing node.                       *)
LEMMA AttrPresent ==
    ASSUME NEW m \in Text
    PROVE  /\ NewNode(m) \in Attr
           /\ NewNode(m) # Absent
<1>1. m \in Vector
  BY BoundAssumption DEF Text, Message, Vector, Drawn
<1> QED BY <1>1, AbsentAssumption DEF Attr, NewNode

LEMMA EmptyGraphFacts ==
    /\ EmptyGraph \in Graph
    /\ NoDangling(EmptyGraph)
    /\ \A n \in NodeId : ~Has(EmptyGraph, n)
BY DEF EmptyGraph, Graph, NoDangling, Has

(* add_node makes the node, leaves every other one and all links.          *)
LEMMA AddNodeFacts ==
    ASSUME NEW g \in Graph, NEW n \in NodeId, NEW m \in Text
    PROVE  /\ AddNode(g, n, m) \in Graph
           /\ AddNode(g, n, m).links = g.links
           /\ AddNode(g, n, m).attr[n] = NewNode(m)
           /\ \A x \in NodeId : x # n => AddNode(g, n, m).attr[x] = g.attr[x]
           /\ \A x \in NodeId : Has(g, x) => Has(AddNode(g, n, m), x)
           /\ Has(AddNode(g, n, m), n)
<1> DEFINE a == NewNode(m)
           h == AddNode(g, n, m)
<1>1. a \in Attr /\ a # Absent
  BY AttrPresent
<1>2. h.attr = [g.attr EXCEPT ![n] = a] /\ h.links = g.links
  BY DEF AddNode
<1>3. g.attr \in [NodeId -> Attr \cup {Absent}] /\ g.links \in SUBSET Link
  BY DEF Graph
<1>4. h.attr \in [NodeId -> Attr \cup {Absent}]
  BY <1>1, <1>2, <1>3
<1>5. h \in Graph
  BY <1>2, <1>3, <1>4 DEF Graph, AddNode
<1>6. h.attr[n] = a /\ \A x \in NodeId : x # n => h.attr[x] = g.attr[x]
  BY <1>2, <1>3
<1> QED BY <1>1, <1>2, <1>5, <1>6 DEF Has

(* add_edge between nodes that are there leaves no dangling link.          *)
LEMMA AddLinkFacts ==
    ASSUME NEW g \in Graph, NEW s \in NodeId, NEW d \in NodeId,
           NEW r \in {"response_to", "followed_by", "fact"},
           NoDangling(g), Has(g, s), Has(g, d)
    PROVE  /\ AddLink(g, s, r, d) \in Graph
           /\ AddLink(g, s, r, d).attr = g.attr
           /\ g.links \subseteq AddLink(g, s, r, d).links
           /\ [src |-> s, rel |-> r, dst |-> d] \in AddLink(g, s, r, d).links
           /\ NoDangling(AddLink(g, s, r, d))
<1> DEFINE l == [src |-> s, rel |-> r, dst |-> d]
           h == AddLink(g, s, r, d)
<1>1. h.attr = g.attr /\ h.links = g.links \cup {l}
  BY DEF AddLink
<1>2. l \in Link
  BY DEF Link
<1>3. h \in Graph
  BY <1>1, <1>2 DEF Graph, AddLink
<1>4. \A e \in h.links : Has(h, e.src) /\ Has(h, e.dst)
  BY <1>1 DEF NoDangling, Has
<1> QED BY <1>1, <1>3, <1>4 DEF NoDangling

(* A node added to a graph without dangling links makes none.              *)
LEMMA AddNodeNoDangling ==
    ASSUME NEW g \in Graph, NEW n \in NodeId, NEW m \in Text,
           NoDangling(g)
    PROVE  NoDangling(AddNode(g, n, m))
<1>1. \A l \in g.links : l.src \in NodeId /\ l.dst \in NodeId
  BY DEF Graph, Link
<1> QED BY <1>1, AddNodeFacts DEF NoDangling

(* What save_context makes of a graph.                                     *)
TurnAdded(g, h, k, m) ==
    /\ h \in Graph /\ NoDangling(h) /\ g.links \subseteq h.links
    /\ h.attr[InputOf(k)] = NewNode(m)
    /\ h.attr[OutputOf(k)] = NewNode(m)
    /\ \A n \in NodeId : n \notin {InputOf(k), OutputOf(k)} => h.attr[n] = g.attr[n]
    /\ [src |-> InputOf(k), rel |-> "response_to", dst |-> OutputOf(k)] \in h.links
    /\ (k > 1 /\ Has(g, OutputOf(k - 1))) =>
          [src |-> OutputOf(k - 1), rel |-> "followed_by", dst |-> InputOf(k)] \in h.links

LEMMA WithTurnFacts ==
    ASSUME NEW g \in Graph, NEW k \in Message, NEW m \in Message, NoDangling(g)
    PROVE  TurnAdded(g, WithTurn(g, k, m), k, m)
<1> DEFINE h == WithTurn(g, k, m)
           a == NewNode(m)
           g1 == AddNode(g, InputOf(k), m)
           g2 == AddNode(g1, OutputOf(k), m)
           g3 == AddLink(g2, InputOf(k), "response_to", OutputOf(k))
           g4 == AddLink(g3, OutputOf(k - 1), "followed_by", InputOf(k))
           follows == k > 1 /\ Has(g3, OutputOf(k - 1))
<1> SUFFICES TurnAdded(g, h, k, m)
  OBVIOUS
<1>1. /\ InputOf(k) \in NodeId /\ OutputOf(k) \in NodeId
      /\ InputOf(k) # OutputOf(k) /\ m \in Text
  BY TurnNodes DEF Text
<1>2. /\ g1 \in Graph /\ NoDangling(g1) /\ g1.links = g.links
      /\ g1.attr[InputOf(k)] = a
      /\ \A n \in NodeId : n # InputOf(k) => g1.attr[n] = g.attr[n]
      /\ Has(g1, InputOf(k))
  BY <1>1, AddNodeFacts, AddNodeNoDangling
<1>3. /\ g2 \in Graph /\ NoDangling(g2) /\ g2.links = g1.links
      /\ g2.attr[OutputOf(k)] = a
      /\ \A n \in NodeId : n # OutputOf(k) => g2.attr[n] = g1.attr[n]
      /\ Has(g2, OutputOf(k)) /\ Has(g2, InputOf(k))
  <2> HIDE DEF g1
  <2> QED BY <1>1, <1>2, AddNodeFacts, AddNodeNoDangling
<1>4. /\ g3 \in Graph /\ NoDangling(g3) /\ g2.links \subseteq g3.links
      /\ g3.attr = g2.attr
      /\ [src |-> InputOf(k), rel |-> "response_to", dst |-> OutputOf(k)]
            \in g3.links
  <2> HIDE DEF g2
  <2> QED BY <1>1, <1>3, AddLinkFacts
<1>5. h = IF follows THEN g4 ELSE g3
  BY DEF WithTurn
<1>6. /\ g3.attr[InputOf(k)] = a /\ g3.attr[OutputOf(k)] = a
      /\ \A n \in NodeId : n \notin {InputOf(k), OutputOf(k)}
                              => g3.attr[n] = g.attr[n]
  <2> HIDE DEF g1, g2, g3
  <2> QED BY <1>1, <1>2, <1>3, <1>4
<1>7. CASE follows
  <2>1. k - 1 \in Message /\ k - 1 # k
    BY <1>7, BoundAssumption DEF Message
  <2>2. OutputOf(k - 1) \in NodeId
    BY <2>1, TurnNodes
  <2>3. Has(g3, OutputOf(k - 1)) /\ Has(g3, InputOf(k))
    <3> HIDE DEF g3, g2
    <3> QED BY <1>7, <1>3, <1>4 DEF Has
  <2>4. /\ g4 \in Graph /\ NoDangling(g4) /\ g3.links \subseteq g4.links
        /\ g4.attr = g3.attr
        /\ [src |-> OutputOf(k - 1), rel |-> "followed_by", dst |-> InputOf(k)]
              \in g4.links
    <3> HIDE DEF g3
    <3> QED BY <1>1, <1>4, <2>2, <2>3, AddLinkFacts
  <2>5. h = g4
    BY <1>5, <1>7
  <2> HIDE DEF g1, g2, g3, g4, h
  <2> QED BY <1>2, <1>3, <1>4, <1>6, <2>4, <2>5 DEF TurnAdded
<1>8. CASE ~follows
  <2>1. h = g3
    BY <1>5, <1>8
  <2>2. ~(k > 1 /\ Has(g, OutputOf(k - 1)))
    <3>1. SUFFICES ASSUME k > 1 PROVE ~Has(g, OutputOf(k - 1))
      OBVIOUS
    <3>2. k - 1 \in Message /\ k - 1 # k
      BY <3>1, BoundAssumption DEF Message
    <3>3. /\ OutputOf(k - 1) \in NodeId
          /\ OutputOf(k - 1) \notin {InputOf(k), OutputOf(k)}
      BY <3>2, TurnNodes
    <3> HIDE DEF g1, g2, g3
    <3> QED BY <1>6, <1>8, <3>1, <3>3 DEF Has
  <2> HIDE DEF g1, g2, g3, g4, h
  <2> QED BY <1>2, <1>3, <1>4, <1>6, <2>1, <2>2 DEF TurnAdded
<1> QED BY <1>7, <1>8

(* What add_knowledge makes of a graph.                                    *)
LEMMA WithEntityFacts ==
    ASSUME NEW g \in Graph, NEW e \in Entity, NEW h, h = WithEntity(g, e),
           NoDangling(g)
    PROVE  /\ h \in Graph /\ NoDangling(h) /\ h.links = g.links
           /\ Has(h, e)
           /\ \A n \in NodeId : Has(g, n) => Has(h, n)
           /\ \A n \in TurnNode : h.attr[n] = g.attr[n]
<1>1. e \in NodeId /\ e \notin TurnNode /\ TurnNode \subseteq NodeId
  BY EntityAssumption DEF NodeId
<1>2. CASE Has(g, e)
  BY <1>2 DEF WithEntity
<1>3. CASE ~Has(g, e)
  <2>1. h = AddNode(g, e, 0) /\ 0 \in Text
    BY <1>3 DEF WithEntity, Text
  <2>2. /\ h \in Graph /\ h.links = g.links /\ Has(h, e)
        /\ \A n \in NodeId : n # e => h.attr[n] = g.attr[n]
        /\ \A n \in NodeId : Has(g, n) => Has(h, n)
    BY <1>1, <2>1, AddNodeFacts
  <2>3. NoDangling(h)
    BY <1>1, <2>1, AddNodeNoDangling
  <2>4. \A n \in TurnNode : h.attr[n] = g.attr[n]
    BY <1>1, <2>2
  <2> QED BY <2>2, <2>3, <2>4
<1> QED BY <1>2, <1>3

LEMMA WithFactFacts ==
    ASSUME NEW g \in Graph, NEW s \in Entity, NEW d \in Entity, NEW h,
           h = AddLink(WithEntity(WithEntity(g, s), d), s, "fact", d),
           NoDangling(g)
    PROVE  /\ h \in Graph /\ NoDangling(h) /\ g.links \subseteq h.links
           /\ [src |-> s, rel |-> "fact", dst |-> d] \in h.links
           /\ \A n \in TurnNode : h.attr[n] = g.attr[n]
<1> DEFINE g1 == WithEntity(g, s)
           g2 == WithEntity(g1, d)
<1>1. s \in NodeId /\ d \in NodeId
  BY DEF NodeId
<1>2. /\ g1 \in Graph /\ NoDangling(g1) /\ g1.links = g.links /\ Has(g1, s)
      /\ \A n \in TurnNode : g1.attr[n] = g.attr[n]
  BY WithEntityFacts
<1>3. /\ g2 \in Graph /\ NoDangling(g2) /\ g2.links = g1.links /\ Has(g2, d)
      /\ Has(g2, s)
      /\ \A n \in TurnNode : g2.attr[n] = g1.attr[n]
  <2> HIDE DEF g1
  <2> QED BY <1>1, <1>2, WithEntityFacts
<1>4. /\ h \in Graph /\ NoDangling(h) /\ g2.links \subseteq h.links
      /\ h.attr = g2.attr
      /\ [src |-> s, rel |-> "fact", dst |-> d] \in h.links
  <2>1. h = AddLink(g2, s, "fact", d)
    OBVIOUS
  <2> HIDE DEF g2
  <2>2. "fact" \in {"response_to", "followed_by", "fact"}
    OBVIOUS
  <2>3. /\ AddLink(g2, s, "fact", d) \in Graph
        /\ AddLink(g2, s, "fact", d).attr = g2.attr
        /\ g2.links \subseteq AddLink(g2, s, "fact", d).links
        /\ [src |-> s, rel |-> "fact", dst |-> d]
              \in AddLink(g2, s, "fact", d).links
        /\ NoDangling(AddLink(g2, s, "fact", d))
    BY ONLY <1>1, <1>3, <2>2, AddLinkFacts
  <2> QED BY <2>1, <2>3
<1>5. g.links \subseteq h.links
  <2> HIDE DEF g1, g2
  <2> QED BY <1>2, <1>3, <1>4
<1>6. \A n \in TurnNode : h.attr[n] = g.attr[n]
  <2> HIDE DEF g1, g2
  <2> QED BY <1>2, <1>3, <1>4
<1> QED BY <1>4, <1>5, <1>6

-----------------------------------------------------------------------------
(* The files.                                                              *)

(* What save_graph writes of a graph is of the type of the files.          *)
LEMMA WrittenTypes ==
    ASSUME NEW g \in Graph
    PROVE  /\ VectorsOf(g) \in Vectors
           /\ StructureOf(g) \in Structure /\ WholeOf(g) \in Structure
<1>1. \A n \in NodeId : Has(g, n) => g.attr[n] \in Attr
  BY DEF Graph, Has
<1>2. \A n \in NodeId : Has(g, n) =>
          g.attr[n].vec \in Vector /\ g.attr[n].text \in Text
  BY <1>1 DEF Attr
<1>3. VectorsOf(g) \in Vectors
  BY <1>2 DEF VectorsOf, Vectors
<1>4. [n \in NodeId |-> IF Has(g, n) THEN g.attr[n].text ELSE Absent]
          \in [NodeId -> Text \cup {Absent}]
  BY <1>2
<1>5. g.links \in SUBSET Link
  BY DEF Graph
<1>6. [n \in NodeId |-> Absent] \in Vectors
  BY DEF Vectors
<1> QED BY <1>3, <1>4, <1>5, <1>6 DEF StructureOf, WholeOf, Structure

(* What both formats write into the json file.                             *)
LEMMA WrittenFields ==
    ASSUME NEW g, NEW w \in {StructureOf(g), WholeOf(g)}
    PROVE  /\ w.links = g.links
           /\ \A n \in NodeId :
                 w.text[n] = IF Has(g, n) THEN g.attr[n].text ELSE Absent
           /\ \A n \in NodeId : w.vec[n] # Absent => w.vec[n] = VectorsOf(g)[n]
<1> DEFINE text == [n \in NodeId |-> IF Has(g, n) THEN g.attr[n].text ELSE Absent]
           none == [n \in NodeId |-> Absent]
           vecs == VectorsOf(g)
<1>1. StructureOf(g) = [text |-> text, vec |-> none, links |-> g.links]
  BY DEF StructureOf
<1> HIDE DEF text, none, vecs
<1>2. WholeOf(g) = [text |-> text, vec |-> vecs, links |-> g.links]
  BY <1>1 DEF WholeOf, vecs
<1>3. w.text = text /\ w.links = g.links /\ w.vec \in {none, vecs}
  BY <1>1, <1>2
<1> QED BY <1>3 DEF text, none, vecs

(* Two whole files make a graph; if its links do not dangle in the file,   *)
(* they do not dangle in it.                                               *)
LEMMA LoadedFacts ==
    ASSUME npz \in Vectors, json \in Structure,
           \A l \in json.links :
               json.text[l.src] # Absent /\ json.text[l.dst] # Absent
    PROVE  Loaded \in Graph /\ NoDangling(Loaded)
<1>1. \A n \in NodeId : json.text[n] \in Text \cup {Absent}
  BY DEF Structure
<1>2. \A n \in NodeId : npz[n] \in Vector \cup {Absent}
  BY DEF Vectors
<1>3. Drawn \in Vector
  BY BoundAssumption DEF Drawn, Vector
<1>4. \A n \in NodeId : json.text[n] # Absent =>
          LoadedNode(n) \in Attr /\ LoadedNode(n) # Absent
  <2>1. SUFFICES ASSUME NEW n \in NodeId, json.text[n] # Absent
                 PROVE  LoadedNode(n) \in Attr
    BY AbsentAssumption
  <2> DEFINE v == IF npz[n] = Absent THEN Drawn ELSE npz[n]
  <2>2. v \in Vector
    BY <1>2, <1>3
  <2>3. LoadedNode(n) = [text |-> json.text[n], vec |-> v]
    BY <2>1 DEF LoadedNode
  <2>4. json.text[n] \in Text
    BY <1>1, <2>1
  <2> HIDE DEF v
  <2> QED BY <2>2, <2>3, <2>4 DEF Attr
<1>5. \A n \in NodeId : json.text[n] = Absent => LoadedNode(n) = Absent
  BY DEF LoadedNode
<1>6. [n \in NodeId |-> LoadedNode(n)] \in [NodeId -> Attr \cup {Absent}]
  BY <1>4, <1>5
<1>7. json.links \in SUBSET Link
  BY DEF Structure
<1>8. Loaded \in Graph
  BY <1>6, <1>7 DEF Loaded, Graph
<1>9. \A l \in json.links : l.src \in NodeId /\ l.dst \in NodeId
  BY <1>7 DEF Link
<1>10. Loaded.links = json.links /\ \A n \in NodeId : Loaded.attr[n] = LoadedNode(n)
  BY DEF Loaded
<1> QED BY <1>4, <1>8, <1>9, <1>10 DEF NoDangling, Has

(* Loading what was written of one graph gives that graph.                 *)
LEMMA LoadedIsSaved ==
    ASSUME NEW g \in Graph, npz = VectorsOf(g), json = StructureOf(g)
    PROVE  Loaded = g
<1>1. \A n \in NodeId : LoadedNode(n) = g.attr[n]
  <2>1. TAKE n \in NodeId
  <2>2. CASE Has(g, n)
    <3>1. g.attr[n] \in Attr
      BY <2>2 DEF Graph, Has
    <3>2. g.attr[n] = [text |-> g.attr[n].text, vec |-> g.attr[n].vec]
      BY <3>1 DEF Attr
    <3>3. g.attr[n].text # Absent /\ g.attr[n].vec # Absent
      BY <3>1, AbsentAssumption DEF Attr
    <3>4. json.text[n] = g.attr[n].text /\ npz[n] = g.attr[n].vec
      BY <2>2 DEF StructureOf, VectorsOf
    <3> QED BY <3>2, <3>3, <3>4 DEF LoadedNode
  <2>3. CASE ~Has(g, n)
    <3>1. json.text[n] = Absent
      BY <2>3 DEF StructureOf
    <3> QED BY <2>3, <3>1 DEF LoadedNode, Has
  <2> QED BY <2>2, <2>3
<1>2. g.attr \in [NodeId -> Attr \cup {Absent}]
  BY DEF Graph
<1>3. [n \in NodeId |-> LoadedNode(n)] = g.attr
  BY <1>1, <1>2
<1>4. json.links = g.links
  BY DEF StructureOf
<1>5. g = [attr |-> g.attr, links |-> g.links]
  BY DEF Graph
<1> QED BY <1>3, <1>4, <1>5 DEF Loaded

(* The one file of the other format makes a graph too.                     *)
LEMMA WholeFacts ==
    ASSUME json \in Structure, LoadsWhole,
           \A l \in json.links :
               json.text[l.src] # Absent /\ json.text[l.dst] # Absent
    PROVE  LoadedWhole \in Graph /\ NoDangling(LoadedWhole)
<1> DEFINE node(n) == IF json.text[n] = Absent THEN Absent
                      ELSE [text |-> json.text[n], vec |-> json.vec[n]]
<1>1. \A n \in NodeId : json.text[n] # Absent => node(n) \in Attr
  <2>1. SUFFICES ASSUME NEW n \in NodeId, json.text[n] # Absent
                 PROVE  node(n) \in Attr
    OBVIOUS
  <2>2. json.text[n] \in Text
    BY <2>1 DEF Structure
  <2>3. json.vec[n] \in Vector
    BY <2>1 DEF Structure, Vectors, LoadsWhole
  <2> QED BY <2>1, <2>2, <2>3 DEF Attr
<1>2. [n \in NodeId |-> node(n)] \in [NodeId -> Attr \cup {Absent}]
  BY <1>1
<1>3. json.links \in SUBSET Link
  BY DEF Structure
<1>4. \A l \in json.links : l.src \in NodeId /\ l.dst \in NodeId
  BY <1>3 DEF Link
<1>5. LoadedWhole = [attr |-> [n \in NodeId |-> node(n)], links |-> json.links]
  BY DEF LoadedWhole
<1>6. \A n \in NodeId : json.text[n] # Absent => node(n) # Absent
  BY <1>1, AbsentAssumption
<1> HIDE DEF node
<1>7. LoadedWhole \in Graph
  BY <1>2, <1>3, <1>5 DEF Graph
<1> QED BY <1>4, <1>5, <1>6, <1>7 DEF NoDangling, Has

(* Whichever format wrote the json file of a graph, it gives that graph or *)
(* does not load.                                                          *)
LEMMA WholeIsSaved ==
    ASSUME NEW g \in Graph, json \in {StructureOf(g), WholeOf(g)}, LoadsWhole
    PROVE  LoadedWhole = g
<1> DEFINE node(n) == IF json.text[n] = Absent THEN Absent
                      ELSE [text |-> json.text[n], vec |-> json.vec[n]]
<1>1. /\ json.links = g.links
      /\ \A n \in NodeId : json.text[n] = IF Has(g, n) THEN g.attr[n].text ELSE Absent
  BY WrittenFields
<1>2. \A n \in NodeId : json.vec[n] # Absent => json.vec[n] = VectorsOf(g)[n]
  BY WrittenFields
<1>3. \A n \in NodeId : node(n) = g.attr[n]
  <2>1. TAKE n \in NodeId
  <2>2. CASE Has(g, n)
    <3>1. g.attr[n] \in Attr
      BY <2>2 DEF Graph, Has
    <3>2. g.attr[n] = [text |-> g.attr[n].text, vec |-> g.attr[n].vec]
      BY <3>1 DEF Attr
    <3>3. json.text[n] = g.attr[n].text /\ json.text[n] # Absent
      BY <1>1, <2>2, <3>1, AbsentAssumption DEF Attr
    <3>4. json.vec[n] = VectorsOf(g)[n]
      BY <1>2, <3>3 DEF LoadsWhole
    <3>5. json.vec[n] = g.attr[n].vec
      BY <2>2, <3>4 DEF VectorsOf
    <3> QED BY <3>2, <3>3, <3>5
  <2>3. CASE ~Has(g, n)
    BY <1>1, <2>3 DEF Has
  <2> QED BY <2>2, <2>3
<1>4. LoadedWhole = [attr |-> [n \in NodeId |-> node(n)], links |-> json.links]
  BY DEF LoadedWhole
<1> HIDE DEF node
<1>5. g.attr \in [NodeId -> Attr \cup {Absent}] /\ g = [attr |-> g.attr, links |-> g.links]
  BY DEF Graph
<1>6. [n \in NodeId |-> node(n)] = g.attr
  BY <1>3, <1>5
<1> QED BY <1>1, <1>4, <1>5, <1>6

-----------------------------------------------------------------------------
(* The invariant, action by action.                                        *)

(* The nodes and links of one turn.                                        *)
LEMMA MemoryGraphType ==
    ASSUME TypeOK
    PROVE  /\ MemoryGraph \in Graph /\ memory.graph \in 1..2
           /\ \A o \in 1..2 : graphs[o] \in Graph
           /\ memory.count \in 0..MaxTurns /\ Len(said) \in Nat
           /\ \A k \in 1..Len(said) : said[k] \in Message
BY DEF TypeOK, MemoryGraph

(* Nothing has been said: a session or a conversation begins.              *)
LEMMA FreshTurns ==
    ASSUME said' = << >>, memory'.count = 0,
           base' = StoredTurns(MemoryGraph') \/
             \A n \in NodeId : ~Has(MemoryGraph', n)
    PROVE  TurnsInv' /\ ThreadUnbroken' /\ memory'.count = Len(said')
<1>1. Len(said') = 0 /\ 1..Len(said') = {}
  OBVIOUS
<1>2. ASSUME NEW k \in Message, Has(MemoryGraph', InputOf(k))
      PROVE  TurnAt(MemoryGraph', k) \in base'
  BY <1>2, TurnNodes DEF StoredTurns
<1>3. TurnsInv'
  BY <1>1, <1>2 DEF TurnsInv
<1>4. ThreadUnbroken'
  BY <1>1 DEF ThreadUnbroken
<1> QED BY <1>1, <1>3, <1>4

LEMMA InitInv == Init => IInv
<1> SUFFICES ASSUME Init PROVE IInv
  OBVIOUS
<1> USE DEF Init
<1>1. TypeOK
  <2>1. << >> \in Seq(Message) /\ 0 \in 0..MaxTurns
    BY BoundAssumption
  <2>2. graphs \in [1..2 -> Graph]
    BY EmptyGraphFacts
  <2>3. memory \in [graph : 1..2, count : 0..MaxTurns]
    BY <2>1
  <2> QED BY <2>1, <2>2, <2>3 DEF TypeOK
<1>2. Len(said) = 0 /\ 1..Len(said) = {}
  OBVIOUS
<1>3. MemoryGraph = EmptyGraph
  BY DEF MemoryGraph
<1>4. CountInv
  BY <1>2, BoundAssumption DEF CountInv
<1>5. TurnsInv /\ ThreadUnbroken
  BY <1>2, <1>3, EmptyGraphFacts, TurnNodes DEF TurnsInv, ThreadUnbroken
<1>6. LinksInv
  BY EmptyGraphFacts DEF LinksInv
<1>7. FilesInv
  BY DEF FilesInv
<1> QED BY <1>1, <1>4, <1>5, <1>6, <1>7 DEF IInv

(* save_context: the new turn is the last, and the others keep their nodes.*)
LEMMA SaveContextInv ==
    ASSUME IInv, SaveContext PROVE IInv'
<1> DEFINE k == memory.count + 1
           m == used + 1
           g == MemoryGraph
           h == WithTurn(g, k, m)
<1>1. /\ up /\ saving = "no" /\ used < MaxTurns
      /\ memory' = [memory EXCEPT !.count = k]
      /\ graphs' = [graphs EXCEPT ![memory.graph] = h]
      /\ used' = m /\ said' = Append(said, m)
      /\ tool' = tool /\ up' = up /\ base' = base /\ facts' = facts
      /\ saving' = saving /\ npz' = npz /\ json' = json
      /\ saved' = saved /\ mixed' = mixed
  BY DEF SaveContext, Calling, files, MemoryGraph
<1>2. TypeOK /\ CountInv /\ TurnsInv /\ ThreadUnbroken /\ LinksInv /\ FilesInv
  BY DEF IInv
<1>3. /\ g \in Graph /\ memory.graph \in 1..2 /\ graphs \in [1..2 -> Graph]
      /\ memory \in [graph : 1..2, count : 0..MaxTurns]
      /\ NoDangling(g) /\ said \in Seq(Message) /\ used \in 0..MaxTurns
  BY <1>2, MemoryGraphType DEF TypeOK, LinksInv, MemoryGraph
<1>4. /\ Len(said) \in Nat /\ k = Len(said) + 1
      /\ k \in Message /\ m \in Message /\ k <= m
  BY <1>1, <1>2, <1>3, BoundAssumption DEF CountInv, Message
<1>5. /\ h \in Graph /\ NoDangling(h) /\ g.links \subseteq h.links
      /\ h.attr[InputOf(k)] = NewNode(m) /\ h.attr[OutputOf(k)] = NewNode(m)
      /\ \A n \in NodeId : n \notin {InputOf(k), OutputOf(k)}
                              => h.attr[n] = g.attr[n]
      /\ [src |-> InputOf(k), rel |-> "response_to", dst |-> OutputOf(k)]
            \in h.links
      /\ (k > 1 /\ Has(g, OutputOf(k - 1))) =>
            [src |-> OutputOf(k - 1), rel |-> "followed_by", dst |-> InputOf(k)]
               \in h.links
  <2> HIDE DEF g, k, m
  <2>1. TurnAdded(g, h, k, m)
    BY <1>3, <1>4, WithTurnFacts
  <2> HIDE DEF h
  <2> QED BY <2>1 DEF TurnAdded
<1>6. NewNode(m).text = m /\ NewNode(m) # Absent
  <2>1. m \in Text
    BY <1>4 DEF Text
  <2> HIDE DEF m
  <2> QED BY <2>1, AttrPresent DEF NewNode
<1> HIDE DEF g, h, k, m
<1>7. /\ memory'.graph = memory.graph /\ memory'.count = k
      /\ memory' \in [graph : 1..2, count : 0..MaxTurns]
  <2>1. k \in 0..MaxTurns
    BY <1>4, BoundAssumption DEF Message
  <2>2. memory' = [graph |-> memory.graph, count |-> k]
    BY <1>1, <1>3
  <2> QED BY <1>3, <2>1, <2>2
<1>8. /\ graphs' \in [1..2 -> Graph] /\ MemoryGraph' = h
      /\ \A o \in 1..2 : o # memory.graph => graphs'[o] = graphs[o]
  BY <1>1, <1>3, <1>5, <1>7 DEF MemoryGraph
<1>9. /\ said' \in Seq(Message) /\ Len(said') = k /\ said'[k] = m
      /\ \A j \in 1..Len(said) : said'[j] = said[j] /\ j \in Message
      /\ 1..Len(said') = 1..Len(said) \cup {k}
      /\ k \notin 1..Len(said)
  BY <1>1, <1>3, <1>4, BoundAssumption DEF Message
<1>10. \A j \in Message : j # k =>
          /\ h.attr[InputOf(j)] = g.attr[InputOf(j)]
          /\ h.attr[OutputOf(j)] = g.attr[OutputOf(j)]
  BY <1>4, <1>5, TurnNodes
<1>11. TypeOK'
  <2>1. used' \in 0..MaxTurns
    BY <1>1, <1>4, BoundAssumption DEF Message
  <2> QED BY <1>1, <1>2, <1>7, <1>8, <1>9, <2>1 DEF TypeOK
<1>12. CountInv'
  BY <1>1, <1>2, <1>4, <1>7, <1>9 DEF CountInv
<1>13. TurnsInv'
  <2>1. ASSUME NEW j \in 1..Len(said')
        PROVE  /\ Has(h, InputOf(j)) /\ Has(h, OutputOf(j))
               /\ h.attr[InputOf(j)].text = said'[j]
               /\ h.attr[OutputOf(j)].text = said'[j]
    <3>1. CASE j = k
      BY <1>5, <1>6, <1>9, <3>1 DEF Has
    <3>2. CASE j # k
      <4>1. j \in 1..Len(said) /\ j \in Message
        BY <1>9, <3>2
      <4>2. /\ Has(g, InputOf(j)) /\ Has(g, OutputOf(j))
            /\ g.attr[InputOf(j)].text = said[j]
            /\ g.attr[OutputOf(j)].text = said[j]
        BY <1>2, <4>1 DEF TurnsInv, g
      <4> QED BY <1>9, <1>10, <3>2, <4>1, <4>2 DEF Has
    <3> QED BY <3>1, <3>2
  <2>2. ASSUME NEW j \in Message, j > Len(said'), Has(h, InputOf(j))
        PROVE  TurnAt(h, j) \in base'
    <3>1. j # k /\ j > Len(said)
      BY <1>4, <1>9, <2>2 DEF Message
    <3>2. /\ h.attr[InputOf(j)] = g.attr[InputOf(j)]
          /\ h.attr[OutputOf(j)] = g.attr[OutputOf(j)]
      BY <1>10, <3>1
    <3>3. TurnAt(h, j) = TurnAt(g, j) /\ Has(g, InputOf(j))
      BY <2>2, <3>2 DEF TurnAt, Has
    <3> QED BY <1>1, <1>2, <3>1, <3>3 DEF TurnsInv, g
  <2> QED BY <1>8, <2>1, <2>2 DEF TurnsInv
<1>14. ThreadUnbroken'
  <2>1. ASSUME NEW j \in 1..Len(said')
        PROVE  /\ [src |-> InputOf(j), rel |-> "response_to",
                    dst |-> OutputOf(j)] \in h.links
               /\ j > 1 => [src |-> OutputOf(j - 1), rel |-> "followed_by",
                            dst |-> InputOf(j)] \in h.links
    <3>1. CASE j = k
      <4>1. j > 1 => Has(g, OutputOf(k - 1))
        <5>1. SUFFICES ASSUME j > 1 PROVE Has(g, OutputOf(k - 1))
          OBVIOUS
        <5>2. k - 1 \in 1..Len(said)
          BY <1>4, <3>1, <5>1
        <5> QED BY <1>2, <5>2 DEF TurnsInv, g
      <4> QED BY <1>5, <3>1, <4>1
    <3>2. CASE j # k
      <4>1. j \in 1..Len(said)
        BY <1>9, <3>2
      <4> QED BY <1>2, <1>5, <4>1 DEF ThreadUnbroken, g
    <3> QED BY <3>1, <3>2
  <2> QED BY <1>8, <2>1 DEF ThreadUnbroken
<1>15. LinksInv'
  <2>1. \A o \in 1..2 : NoDangling(graphs'[o]) /\ graphs[o].links \subseteq graphs'[o].links
    BY <1>1, <1>2, <1>3, <1>5, <1>8 DEF LinksInv, g, MemoryGraph
  <2>2. tool \in 1..2
    BY <1>2 DEF TypeOK
  <2> QED BY <1>1, <1>2, <2>1, <2>2 DEF LinksInv
<1>16. FilesInv'
  BY <1>1, <1>2 DEF FilesInv
<1> QED BY <1>11, <1>12, <1>13, <1>14, <1>15, <1>16 DEF IInv

(* clear: the memory's new graph is an object the tool does not have.      *)
LEMMA ClearInv ==
    ASSUME IInv, Clear PROVE IInv'
<1> DEFINE o == 3 - tool
<1>1. /\ up /\ saving = "no"
      /\ memory' = [graph |-> o, count |-> 0]
      /\ graphs' = [graphs EXCEPT ![o] = EmptyGraph]
      /\ said' = << >> /\ base' = {}
      /\ tool' = tool /\ up' = up /\ used' = used /\ facts' = facts
      /\ saving' = saving /\ npz' = npz /\ json' = json
      /\ saved' = saved /\ mixed' = mixed
  BY DEF Clear, Calling, files
<1>2. TypeOK /\ CountInv /\ LinksInv /\ FilesInv
  BY DEF IInv
<1>3. tool \in 1..2 /\ o \in 1..2 /\ o # tool /\ graphs \in [1..2 -> Graph]
  BY <1>2 DEF TypeOK
<1> HIDE DEF o
<1>4. /\ graphs' \in [1..2 -> Graph] /\ graphs'[o] = EmptyGraph
      /\ \A p \in 1..2 : p # o => graphs'[p] = graphs[p]
  BY <1>1, <1>3, EmptyGraphFacts
<1>5. memory'.graph = o /\ memory'.count = 0 /\ MemoryGraph' = EmptyGraph
  BY <1>1, <1>4 DEF MemoryGraph
<1>6. TurnsInv' /\ ThreadUnbroken' /\ memory'.count = Len(said')
  BY <1>1, <1>5, EmptyGraphFacts, FreshTurns
<1>7. TypeOK'
  <2>1. << >> \in Seq(Message) /\ 0 \in 0..MaxTurns
    BY BoundAssumption
  <2>2. memory' \in [graph : 1..2, count : 0..MaxTurns]
    BY <1>1, <1>3, <2>1
  <2> QED BY <1>1, <1>2, <1>4, <2>1, <2>2 DEF TypeOK
<1>8. CountInv'
  BY <1>1, <1>2, <1>6 DEF CountInv, TypeOK
<1>9. LinksInv'
  BY <1>1, <1>2, <1>3, <1>4, EmptyGraphFacts DEF LinksInv
<1>10. FilesInv'
  BY <1>1, <1>2 DEF FilesInv
<1> QED BY <1>6, <1>7, <1>8, <1>9, <1>10 DEF IInv

(* add_knowledge touches no node of a turn and takes no link away.         *)
LEMMA AddKnowledgeInv ==
    ASSUME IInv, NEW s \in Entity, NEW d \in Entity, AddKnowledge(s, d)
    PROVE  IInv'
<1> DEFINE g == graphs[tool]
           h == AddLink(WithEntity(WithEntity(g, s), d), s, "fact", d)
           fact == [src |-> s, rel |-> "fact", dst |-> d]
<1>1. /\ up /\ saving = "no"
      /\ graphs' = [graphs EXCEPT ![tool] = h]
      /\ facts' = facts \cup {fact}
      /\ memory' = memory /\ tool' = tool /\ up' = up /\ used' = used
      /\ said' = said /\ base' = base
      /\ saving' = saving /\ npz' = npz /\ json' = json
      /\ saved' = saved /\ mixed' = mixed
  BY DEF AddKnowledge, Calling, files
<1>2. TypeOK /\ CountInv /\ TurnsInv /\ ThreadUnbroken /\ LinksInv /\ FilesInv
  BY DEF IInv
<1>3. /\ tool \in 1..2 /\ memory.graph \in 1..2 /\ graphs \in [1..2 -> Graph]
      /\ g \in Graph /\ NoDangling(g)
  BY <1>2 DEF TypeOK, LinksInv
<1>4. /\ h \in Graph /\ NoDangling(h) /\ g.links \subseteq h.links
      /\ fact \in h.links
      /\ \A n \in TurnNode : h.attr[n] = g.attr[n]
  <2> HIDE DEF g
  <2> QED BY <1>3, WithFactFacts
<1> HIDE DEF g, h, fact
<1>5. /\ graphs' \in [1..2 -> Graph] /\ graphs'[tool] = h
      /\ \A o \in 1..2 : o # tool => graphs'[o] = graphs[o]
  BY <1>1, <1>3, <1>4
<1>6. \A o \in 1..2 : /\ graphs[o].links \subseteq graphs'[o].links
                      /\ \A n \in TurnNode : graphs'[o].attr[n] = graphs[o].attr[n]
  BY <1>4, <1>5 DEF g
<1>7. /\ MemoryGraph.links \subseteq MemoryGraph'.links
      /\ \A n \in TurnNode : MemoryGraph'.attr[n] = MemoryGraph.attr[n]
  BY <1>1, <1>3, <1>6 DEF MemoryGraph
<1>8. \A k \in Message :
          /\ MemoryGraph'.attr[InputOf(k)] = MemoryGraph.attr[InputOf(k)]
          /\ MemoryGraph'.attr[OutputOf(k)] = MemoryGraph.attr[OutputOf(k)]
  BY <1>7, TurnNodes
<1>9. 1..Len(said) \subseteq Message
  <2>1. Len(said) \in Nat /\ Len(said) <= used /\ used \in 0..MaxTurns
    BY <1>2, MemoryGraphType DEF CountInv, TypeOK
  <2> QED BY <2>1, BoundAssumption DEF Message
<1>10. TypeOK'
  BY <1>1, <1>2, <1>5 DEF TypeOK
<1>11. CountInv'
  BY <1>1, <1>2 DEF CountInv
<1>12. TurnsInv'
  <2>1. ASSUME NEW k \in 1..Len(said')
        PROVE  /\ Has(MemoryGraph', InputOf(k)) /\ Has(MemoryGraph', OutputOf(k))
               /\ MemoryGraph'.attr[InputOf(k)].text = said'[k]
               /\ MemoryGraph'.attr[OutputOf(k)].text = said'[k]
    BY <1>1, <1>2, <1>8, <1>9 DEF TurnsInv, Has
  <2>2. ASSUME NEW k \in Message, k > Len(said'), Has(MemoryGraph', InputOf(k))
        PROVE  TurnAt(MemoryGraph', k) \in base'
    <3>1. TurnAt(MemoryGraph', k) = TurnAt(MemoryGraph, k)
             /\ Has(MemoryGraph, InputOf(k))
      BY <1>8, <2>2 DEF TurnAt, Has
    <3> QED BY <1>1, <1>2, <2>2, <3>1 DEF TurnsInv
  <2> QED BY <2>1, <2>2 DEF TurnsInv
<1>13. ThreadUnbroken'
  BY <1>1, <1>2, <1>7 DEF ThreadUnbroken
<1>14. LinksInv'
  <2>1. \A o \in 1..2 : NoDangling(graphs'[o])
    BY <1>2, <1>4, <1>5 DEF LinksInv
  <2>2. facts' \subseteq graphs'[tool'].links
    BY <1>1, <1>2, <1>4, <1>5 DEF LinksInv, g
  <2> QED BY <1>1, <1>2, <2>1, <2>2 DEF LinksInv
<1>15. FilesInv'
  BY <1>1, <1>2 DEF FilesInv
<1> QED BY <1>10, <1>11, <1>12, <1>13, <1>14, <1>15 DEF IInv

(* What the steps of a save have in common: the session stays.             *)
LEMMA SessionStays ==
    ASSUME IInv, UNCHANGED session,
           npz' \in {NoFile, Torn} \/ npz' \in Vectors,
           json' \in {NoFile, Torn} \/ json' \in Structure,
           saving' \in {"no", "vectors", "between", "structure", "whole"},
           saved' \in Graph \cup {NoGraph}, mixed' \in BOOLEAN, up,
           json' \notin {NoFile, Torn} =>
              \A l \in json'.links :
                  json'.text[l.src] # Absent /\ json'.text[l.dst] # Absent
    PROVE  /\ TypeOK' /\ CountInv' /\ TurnsInv' /\ ThreadUnbroken' /\ LinksInv'
           /\ MemoryGraph' = MemoryGraph
<1>1. TypeOK /\ CountInv /\ TurnsInv /\ ThreadUnbroken /\ LinksInv
  BY DEF IInv
<1>2. /\ graphs' = graphs /\ memory' = memory /\ tool' = tool /\ up' = up
      /\ used' = used /\ said' = said /\ base' = base /\ facts' = facts
  BY DEF session
<1>3. MemoryGraph' = MemoryGraph
  BY <1>2 DEF MemoryGraph
<1>4. TypeOK'
  BY <1>1, <1>2 DEF TypeOK
<1>5. CountInv'
  BY <1>1, <1>2 DEF CountInv
<1>6. TurnsInv'
  BY <1>1, <1>2, <1>3 DEF TurnsInv
<1>7. ThreadUnbroken'
  BY <1>1, <1>2, <1>3 DEF ThreadUnbroken
<1>8. LinksInv'
  BY <1>1, <1>2 DEF LinksInv
<1> QED BY <1>3, <1>4, <1>5, <1>6, <1>7, <1>8

(* Neither format writes a dangling link.                                  *)
LEMMA WrittenLinks ==
    ASSUME TypeOK, LinksInv, json' \in {StructureOf(MemoryGraph), WholeOf(MemoryGraph)}
    PROVE  \A l \in json'.links :
               json'.text[l.src] # Absent /\ json'.text[l.dst] # Absent
<1>1. MemoryGraph \in Graph
  BY MemoryGraphType
<1>2. NoDangling(MemoryGraph)
  BY DEF LinksInv, MemoryGraph, TypeOK
<1>3. \A n \in NodeId : Has(MemoryGraph, n) => MemoryGraph.attr[n].text # Absent
  BY <1>1, AbsentAssumption DEF Graph, Has, Attr
<1>4. \A l \in MemoryGraph.links : l.src \in NodeId /\ l.dst \in NodeId
  BY <1>1 DEF Graph, Link
<1>5. /\ json'.links = MemoryGraph.links
      /\ \A n \in NodeId : Has(MemoryGraph, n) =>
            json'.text[n] = MemoryGraph.attr[n].text
  BY WrittenFields
<1> QED BY <1>2, <1>3, <1>4, <1>5 DEF NoDangling

(* save_graph opens and closes its files.                                  *)
LEMMA SaveInv ==
    ASSUME IInv, \/ OpenVectors \/ CloseVectors \/ OpenStructure \/ CloseStructure
                 \/ OpenWhole \/ CloseWhole \/ SaveFails
    PROVE  IInv'
<1>1. TypeOK /\ LinksInv /\ FilesInv /\ MemoryGraph \in Graph
  BY MemoryGraphType DEF IInv
<1>2. CASE OpenVectors
  <2>1. /\ UNCHANGED session /\ up /\ saving' = "vectors" /\ npz' = Torn
        /\ json' = json /\ saved' = saved /\ mixed' = mixed
    BY <1>2 DEF OpenVectors, Calling
  <2>2. TypeOK' /\ CountInv' /\ TurnsInv' /\ ThreadUnbroken' /\ LinksInv'
    BY <1>1, <2>1, SessionStays DEF TypeOK, LinksInv
  <2>3. FilesInv'
    BY <1>1, <2>1 DEF FilesInv
  <2> QED BY <2>2, <2>3 DEF IInv
<1>3. CASE CloseVectors
  <2>1. /\ UNCHANGED session /\ up /\ saving' = "between"
        /\ npz' = VectorsOf(MemoryGraph) /\ mixed' = TRUE
        /\ json' = json /\ saved' = saved
    BY <1>3 DEF CloseVectors
  <2>2. npz' \in Vectors
    BY <1>1, <2>1, WrittenTypes
  <2>3. /\ TypeOK' /\ CountInv' /\ TurnsInv' /\ ThreadUnbroken' /\ LinksInv'
        /\ MemoryGraph' = MemoryGraph
    BY <1>1, <2>1, <2>2, SessionStays DEF TypeOK, LinksInv
  <2>4. FilesInv'
    BY <1>1, <2>1, <2>3 DEF FilesInv
  <2> QED BY <2>3, <2>4 DEF IInv
<1>4. CASE OpenStructure
  <2>1. /\ UNCHANGED session /\ up /\ saving = "between"
        /\ saving' = "structure" /\ json' = Torn
        /\ npz' = npz /\ saved' = saved /\ mixed' = mixed
    BY <1>4 DEF OpenStructure
  <2>2. /\ TypeOK' /\ CountInv' /\ TurnsInv' /\ ThreadUnbroken' /\ LinksInv'
        /\ MemoryGraph' = MemoryGraph
    BY <1>1, <2>1, SessionStays DEF TypeOK, LinksInv
  <2>3. FilesInv'
    BY <1>1, <2>1, <2>2 DEF FilesInv
  <2> QED BY <2>2, <2>3 DEF IInv
<1>5. CASE CloseStructure
  <2>1. /\ UNCHANGED session /\ up /\ saving = "structure" /\ saving' = "no"
        /\ json' = StructureOf(MemoryGraph) /\ saved' = MemoryGraph
        /\ mixed' = FALSE /\ npz' = npz
    BY <1>5 DEF CloseStructure
  <2>2. json' \in Structure
    BY <1>1, <2>1, WrittenTypes
  <2>3. \A l \in json'.links :
            json'.text[l.src] # Absent /\ json'.text[l.dst] # Absent
    BY <1>1, <2>1, WrittenLinks
  <2>4. /\ TypeOK' /\ CountInv' /\ TurnsInv' /\ ThreadUnbroken' /\ LinksInv'
        /\ MemoryGraph' = MemoryGraph
    BY <1>1, <2>1, <2>2, <2>3, SessionStays DEF TypeOK
  <2>5. saved' # NoGraph
    BY <1>1, <2>1, NoGraphAssumption
  <2>6. npz' = VectorsOf(saved') /\ json' = StructureOf(saved')
    BY <1>1, <2>1 DEF FilesInv
  <2>7. FilesInv'
    BY <2>1, <2>5, <2>6 DEF FilesInv
  <2> QED BY <2>4, <2>7 DEF IInv
<1>6. CASE OpenWhole
  <2>1. /\ UNCHANGED session /\ up /\ saving' = "whole" /\ json' = Torn
        /\ npz' = npz /\ saved' = saved /\ mixed' = mixed
    BY <1>6 DEF OpenWhole, Calling
  <2>2. TypeOK' /\ CountInv' /\ TurnsInv' /\ ThreadUnbroken' /\ LinksInv'
    BY <1>1, <2>1, SessionStays DEF TypeOK, LinksInv
  <2>3. FilesInv'
    BY <2>1 DEF FilesInv
  <2> QED BY <2>2, <2>3 DEF IInv
<1>7. CASE CloseWhole
  <2>1. /\ UNCHANGED session /\ up /\ saving' = "no"
        /\ json' = WholeOf(MemoryGraph) /\ saved' = MemoryGraph
        /\ mixed' = TRUE /\ npz' = npz
    BY <1>7 DEF CloseWhole
  <2>2. json' \in Structure
    BY <1>1, <2>1, WrittenTypes
  <2>3. \A l \in json'.links :
            json'.text[l.src] # Absent /\ json'.text[l.dst] # Absent
    BY <1>1, <2>1, WrittenLinks
  <2>4. TypeOK' /\ CountInv' /\ TurnsInv' /\ ThreadUnbroken' /\ LinksInv'
    BY <1>1, <2>1, <2>2, <2>3, SessionStays DEF TypeOK
  <2>5. saved' # NoGraph
    BY <1>1, <2>1, NoGraphAssumption
  <2>6. json' = WholeOf(saved')
    BY <2>1
  <2>7. FilesInv'
    BY <2>1, <2>5, <2>6 DEF FilesInv
  <2> QED BY <2>4, <2>7 DEF IInv
<1>8. CASE SaveFails
  <2>1. /\ UNCHANGED session /\ up /\ saving' = "no"
        /\ npz' = npz /\ json' = json /\ saved' = saved /\ mixed' = mixed
    BY <1>8 DEF SaveFails
  <2>2. TypeOK' /\ CountInv' /\ TurnsInv' /\ ThreadUnbroken' /\ LinksInv'
    BY <1>1, <2>1, SessionStays DEF TypeOK, LinksInv
  <2>3. FilesInv'
    BY <1>1, <2>1 DEF FilesInv
  <2> QED BY <2>2, <2>3 DEF IInv
<1> QED BY <1>2, <1>3, <1>4, <1>5, <1>6, <1>7, <1>8

(* A process ends or begins: nothing has been said in the session.         *)
LEMMA NewSessionInv ==
    ASSUME IInv, NEW g \in Graph, NoDangling(g),
           graphs' \in [1..2 -> Graph], graphs'[1] = g, graphs'[2] = EmptyGraph,
           memory' = [graph |-> 1, count |-> 0], tool' \in 1..2,
           up' \in BOOLEAN, said' = << >>, facts' = {},
           base' = StoredTurns(g) \/ g = EmptyGraph,
           saving' = "no", npz' = npz, json' = json, used' = used,
           saved' = saved, mixed' = mixed
    PROVE  IInv'
<1>1. TypeOK /\ LinksInv /\ FilesInv
  BY DEF IInv
<1>2. /\ graphs' \in [1..2 -> Graph] /\ graphs'[1] = g
      /\ \A o \in 1..2 : NoDangling(graphs'[o])
  BY EmptyGraphFacts
<1>3. MemoryGraph' = g /\ memory'.count = 0
  BY <1>2 DEF MemoryGraph
<1>4. TurnsInv' /\ ThreadUnbroken' /\ memory'.count = Len(said')
  BY <1>3, EmptyGraphFacts, FreshTurns
<1>5. TypeOK'
  <2>1. << >> \in Seq(Message) /\ 0 \in 0..MaxTurns
    BY BoundAssumption
  <2>2. memory' \in [graph : 1..2, count : 0..MaxTurns]
    BY <2>1
  <2> QED BY <1>1, <1>2, <2>1, <2>2 DEF TypeOK
<1>6. CountInv'
  BY <1>1, <1>4 DEF CountInv, TypeOK
<1>7. LinksInv'
  BY <1>1, <1>2 DEF LinksInv
<1>8. FilesInv'
  BY <1>1 DEF FilesInv
<1> QED BY <1>4, <1>5, <1>6, <1>7, <1>8 DEF IInv

LEMMA RestartInv ==
    ASSUME IInv, Crash \/ Resume \/ ResumeWhole \/ StartNew PROVE IInv'
<1>1. TypeOK /\ LinksInv /\ CountInv
  BY DEF IInv
<1>2. CASE Crash
  <2>1. /\ graphs' \in [1..2 -> Graph]
        /\ graphs'[1] = EmptyGraph /\ graphs'[2] = EmptyGraph
    BY <1>2, EmptyGraphFacts DEF Crash
  <2>2. /\ memory' = [graph |-> 1, count |-> 0] /\ tool' \in 1..2
        /\ said' = << >> /\ facts' = {} /\ saving' = "no"
        /\ npz' = npz /\ json' = json /\ used' = used /\ saved' = saved
        /\ mixed' = mixed
    BY <1>2 DEF Crash
  <2>3. up' \in BOOLEAN
    BY <1>2 DEF Crash
  <2>4. EmptyGraph \in Graph /\ NoDangling(EmptyGraph)
    BY EmptyGraphFacts
  <2> QED BY ONLY IInv, <2>1, <2>2, <2>3, <2>4, NewSessionInv
<1>3. CASE StartNew
  <2>1. ~up /\ saving = "no"
    BY <1>1, <1>3 DEF StartNew, CountInv
  <2>2. PICK o \in 1..2 : Session(EmptyGraph, o)
    BY <1>3 DEF StartNew
  <2>3. /\ graphs' \in [1..2 -> Graph]
        /\ graphs'[1] = EmptyGraph /\ graphs'[2] = EmptyGraph
    BY <2>2, EmptyGraphFacts DEF Session
  <2> QED BY <1>3, <2>1, <2>2, <2>3, EmptyGraphFacts, NewSessionInv
          DEF StartNew, Session, files
<1>4. CASE Resume
  <2>1. ~up /\ saving = "no"
    BY <1>1, <1>4 DEF Resume, CountInv
  <2>2. npz \in Vectors /\ json \in Structure /\ json \notin {NoFile, Torn}
    BY <1>1, <1>4 DEF Resume, Loads, TypeOK
  <2>3. Loaded \in Graph /\ NoDangling(Loaded)
    BY <1>1, <2>2, LoadedFacts DEF LinksInv
  <2>4. PICK o \in 1..2 : Session(Loaded, o)
    BY <1>4 DEF Resume
  <2>5. /\ graphs' \in [1..2 -> Graph]
        /\ graphs'[1] = Loaded /\ graphs'[2] = EmptyGraph
    BY <2>3, <2>4, EmptyGraphFacts DEF Session
  <2> QED BY <1>4, <2>1, <2>3, <2>4, <2>5, NewSessionInv DEF Resume, Session, files
<1>5. CASE ResumeWhole
  <2>1. ~up /\ saving = "no"
    BY <1>1, <1>5 DEF ResumeWhole, CountInv
  <2>2. LoadsWhole /\ json \in Structure /\ json \notin {NoFile, Torn}
    BY <1>1, <1>5 DEF ResumeWhole, LoadsWhole, TypeOK
  <2>3. LoadedWhole \in Graph /\ NoDangling(LoadedWhole)
    BY <1>1, <2>2, WholeFacts DEF LinksInv
  <2>4. PICK o \in 1..2 : Session(LoadedWhole, o)
    BY <1>5 DEF ResumeWhole
  <2>5. /\ graphs' \in [1..2 -> Graph]
        /\ graphs'[1] = LoadedWhole /\ graphs'[2] = EmptyGraph
    BY <2>3, <2>4, EmptyGraphFacts DEF Session
  <2> QED BY <1>5, <2>1, <2>3, <2>4, <2>5, NewSessionInv DEF ResumeWhole, Session, files
<1> QED BY <1>2, <1>3, <1>4, <1>5

LEMMA NextInv ==
    ASSUME IInv, [Next]_vars PROVE IInv'
<1>1. CASE SaveContext
  BY <1>1, SaveContextInv
<1>2. CASE Clear
  BY <1>2, ClearInv
<1>3. CASE \E s, d \in Entity : AddKnowledge(s, d)
  BY <1>3, AddKnowledgeInv
<1>4. CASE \/ OpenVectors \/ CloseVectors \/ OpenStructure \/ CloseStructure
           \/ OpenWhole \/ CloseWhole \/ SaveFails
  BY <1>4, SaveInv
<1>5. CASE Crash \/ Resume \/ ResumeWhole \/ StartNew
  BY <1>5, RestartInv
<1>6. CASE UNCHANGED vars
  BY <1>6 DEF vars, history, IInv, TypeOK, CountInv, TurnsInv, ThreadUnbroken,
              LinksInv, FilesInv, MemoryGraph
<1> QED BY <1>1, <1>2, <1>3, <1>4, <1>5, <1>6 DEF Next

-----------------------------------------------------------------------------
(* What the invariant implies.                                             *)

(* A turn of the session, as the graph shows it, is the turn that was said.*)
LEMMA TurnAsSaid ==
    ASSUME TypeOK, TurnsInv, NEW k \in 1..Len(said)
    PROVE  /\ Has(MemoryGraph, InputOf(k)) /\ Has(MemoryGraph, OutputOf(k))
           /\ TurnAt(MemoryGraph, k) = TurnOf(k)
BY DEF TurnsInv, TurnAt, TurnOf

LEMMA RecentLemma == IInv => RecentRecalled
<1> SUFFICES ASSUME IInv PROVE RecentRecalled
  OBVIOUS
<1>1. TypeOK /\ CountInv /\ TurnsInv
  BY DEF IInv
<1>2. Len(said) \in Nat /\ memory.count = Len(said) /\ Window \in Nat
  BY <1>1, MemoryGraphType, BoundAssumption DEF CountInv
<1> DEFINE first == IF memory.count > Window THEN memory.count - Window + 1 ELSE 1
           recent == {j \in first..memory.count :
                         Has(MemoryGraph, InputOf(j)) /\ Has(MemoryGraph, OutputOf(j))}
<1>3. first..memory.count = {j \in 1..Len(said) : j > Len(said) - Window}
  BY <1>2
<1>4. recent = {j \in 1..Len(said) : j > Len(said) - Window}
  BY <1>1, <1>3, TurnAsSaid
<1>5. \A k \in recent : TurnAt(MemoryGraph, k) = TurnOf(k)
  BY <1>1, <1>4, TurnAsSaid
<1>6. RecentTurns(MemoryGraph, memory.count) = {TurnAt(MemoryGraph, k) : k \in recent}
  BY DEF RecentTurns
<1> HIDE DEF recent
<1> QED BY <1>4, <1>5, <1>6 DEF RecentRecalled

LEMMA RecallLemma == IInv => RecallSound
<1> SUFFICES ASSUME IInv PROVE RecallSound
  OBVIOUS
<1>1. TypeOK /\ CountInv /\ TurnsInv
  BY DEF IInv
<1>2. Len(said) \in Nat /\ Len(said) <= MaxTurns
  BY <1>1, MemoryGraphType, BoundAssumption DEF CountInv, TypeOK
<1>3. RecentTurns(MemoryGraph, memory.count) \subseteq {TurnOf(k) : k \in 1..Len(said)}
  BY RecentLemma DEF RecentRecalled
<1>4. ASSUME NEW k \in Message, Has(MemoryGraph, InputOf(k))
      PROVE  TurnAt(MemoryGraph, k) \in base \cup {TurnOf(j) : j \in 1..Len(said)}
  <2>1. CASE k \in 1..Len(said)
    BY <1>1, <2>1, TurnAsSaid
  <2>2. CASE k \notin 1..Len(said)
    <3>1. k > Len(said)
      BY <1>2, <2>2, BoundAssumption DEF Message
    <3> QED BY <1>1, <1>4, <3>1 DEF TurnsInv
  <2> QED BY <2>1, <2>2
<1> QED BY <1>3, <1>4 DEF RecallSound, Recallable, StoredTurns

LEMMA ToolLemma == IInv => ToolKeepsFacts
BY DEF IInv, TypeOK, LinksInv, NoDangling, ToolKeepsFacts

LEMMA CheckpointLemma == IInv => CheckpointFaithful
<1>1. ASSUME IInv, Loads, ~mixed
      PROVE  saved # NoGraph /\ Loaded = saved
  <2>1. saved # NoGraph /\ npz = VectorsOf(saved) /\ json = StructureOf(saved)
    BY <1>1 DEF IInv, FilesInv, Loads
  <2>2. saved \in Graph
    BY <1>1, <2>1 DEF IInv, TypeOK
  <2> QED BY <2>1, <2>2, LoadedIsSaved
<1>2. ASSUME IInv, LoadsWhole
      PROVE  saved # NoGraph /\ LoadedWhole = saved
  <2>1. saved # NoGraph /\ json \in {StructureOf(saved), WholeOf(saved)}
    BY <1>2 DEF IInv, FilesInv, LoadsWhole
  <2>2. saved \in Graph
    BY <1>2, <2>1 DEF IInv, TypeOK
  <2> QED BY <1>2, <2>1, <2>2, WholeIsSaved
<1> QED BY <1>1, <1>2 DEF CheckpointFaithful

-----------------------------------------------------------------------------
(* The theorems.                                                           *)

(* The invariant holds in every reachable state.                           *)
THEOREM Invariance == Spec => []IInv
<1>1. Init => IInv
  BY InitInv
<1>2. IInv /\ [Next]_vars => IInv'
  BY NextInv
<1> QED BY <1>1, <1>2, PTL DEF Spec

(* Every variable keeps its type, the files included.                      *)
THEOREM TypeCorrect == Spec => []TypeOK
<1>1. IInv => TypeOK
  BY DEF IInv
<1> QED BY <1>1, Invariance, PTL

(* load_memory_variables recalls the last turns of its session as they were*)
(* said, on a fresh graph or on a loaded one.                              *)
THEOREM RecentAlwaysRecalled == Spec => []RecentRecalled
BY RecentLemma, Invariance, PTL

(* No search makes it show a turn that was never said.                     *)
THEOREM RecallAlwaysSound == Spec => []RecallSound
BY RecallLemma, Invariance, PTL

(* The turns of a session stay linked to one another.                      *)
THEOREM ThreadNeverBreaks == Spec => []ThreadUnbroken
<1>1. IInv => ThreadUnbroken
  BY DEF IInv
<1> QED BY <1>1, Invariance, PTL

(* Clearing the memory takes no fact from the tool.                        *)
THEOREM ToolAlwaysKeepsFacts == Spec => []ToolKeepsFacts
BY ToolLemma, Invariance, PTL

(* A checkpoint that loads is the last one saved, whatever saves failed or *)
(* were cut off, unless one stopped between its two files or one of the    *)
(* other format has replaced the second; that format's file never loads as *)
(* anything but the last save.                                             *)
THEOREM CheckpointAlwaysFaithful == Spec => []CheckpointFaithful
BY CheckpointLemma, Invariance, PTL
=============================================================================
