------------------------- MODULE ConversationMemory -------------------------
(***************************************************************************)
(* An agent's memory and its checkpoints: SMGPMemory and SMGPVerifierTool  *)
(* (src/smgp/integration/langchain.py) on graphs they may share, saved and *)
(* loaded by save_checkpoint and load_checkpoint (src/smgp/utils/io.py).   *)
(*                                                                         *)
(* A conversation turn is a pair of nodes named by the turn counter of one *)
(* SMGPMemory object.  The counter is not saved, the nodes are.  clear     *)
(* gives the memory a new graph and leaves the old one to whoever shares   *)
(* it.  A checkpoint is two files written one after the other, and the     *)
(* second has the name of the one file of the other format of save_graph.  *)
(* A message stands for the two texts of a turn, and names the vectors     *)
(* that were drawn for its nodes.                                          *)
(***************************************************************************)
EXTENDS Naturals, Sequences, FiniteSets

CONSTANTS
    Entity,      \* subjects and objects of the tool's facts
    MaxTurns,    \* bound: calls of save_context in a behaviour
    Window,      \* recent turns that load_memory_variables looks up: 5
    Torn,        \* a file whose writing has not ended
    NoFile,      \* no such file
    NoGraph,     \* nothing has been saved
    Absent       \* no such node

ASSUME BoundAssumption == MaxTurns \in Nat /\ Window \in Nat \ {0}

Message == 1..MaxTurns

TurnNode == [turn : Message, side : {"input", "output"}]

NodeId == TurnNode \cup Entity

(* No entity is called as a node of a turn.                                *)
ASSUME EntityAssumption == Entity \cap TurnNode = {}

(* An entity has its name for a text and a vector of its own; Drawn is the *)
(* vector of a node for which a loader found none.                         *)
Drawn == MaxTurns + 1

Vector == 0..Drawn

Text == Message \cup {0}

Attr == [text : Text, vec : Vector]

InputOf(k) == [turn |-> k, side |-> "input"]
OutputOf(k) == [turn |-> k, side |-> "output"]

Link == [src : NodeId, rel : {"response_to", "followed_by", "fact"},
         dst : NodeId]

ASSUME AbsentAssumption ==
    Absent \notin Attr /\ Absent \notin Text /\ Absent \notin Vector

(* A graph: what its nodes have, and its links without their random keys.  *)
Graph == [attr : [NodeId -> Attr \cup {Absent}], links : SUBSET Link]

ASSUME NoGraphAssumption == NoGraph \notin Graph

EmptyGraph == [attr |-> [n \in NodeId |-> Absent], links |-> {}]

Has(g, n) == g.attr[n] # Absent

(* add_node without a vector, which draws one.                             *)
NewNode(m) == [text |-> m, vec |-> m]

AddNode(g, n, m) ==
    [attr |-> [g.attr EXCEPT ![n] = NewNode(m)], links |-> g.links]

AddLink(g, s, r, d) ==
    [attr |-> g.attr, links |-> g.links \cup {[src |-> s, rel |-> r, dst |-> d]}]

VARIABLES
    graphs,      \* the graph objects: 1 and 2
    memory,      \* SMGPMemory: its graph object and turn_count
    tool,        \* SMGPVerifierTool.graph: an object
    up,          \* the process is running
    saving,      \* how far save_graph is
    npz, json,   \* the two files of the checkpoint
    used,        \* history: messages said so far, over all sessions
    said,        \* history: the messages of the turns since start or clear
    base,        \* history: turns that were in the loaded graph
    facts,       \* history: links the tool has added in this session
    saved,       \* history: the graph of the last completed save
    mixed        \* history: the files are of two different saves

history == <<used, said, base, facts, saved, mixed>>
vars == <<graphs, memory, tool, up, saving, npz, json, history>>

MemoryGraph == graphs[memory.graph]

-----------------------------------------------------------------------------
(* Recall.                                                                 *)

(* A turn as load_memory_variables formats it: the texts of its two nodes, *)
(* 0 for an output that is not there.                                      *)
TurnAt(g, k) ==
    [turn |-> k, human |-> g.attr[InputOf(k)].text,
     ai |-> IF Has(g, OutputOf(k)) THEN g.attr[OutputOf(k)].text ELSE 0]

(* Mutant: one turn too many.                                              *)
RecentTurnsLong(g, count) ==
    LET first == IF count > Window THEN count - Window ELSE 1 IN
    {TurnAt(g, k) : k \in {j \in first..count :
                               Has(g, InputOf(j)) /\ Has(g, OutputOf(j))}}

(* _get_recent_turns: the last Window turns the counter knows.             *)
RecentTurns(g, count) ==
    LET first == IF count > Window THEN count - Window + 1 ELSE 1 IN
    {TurnAt(g, k) : k \in {j \in first..count :
                               Has(g, InputOf(j)) /\ Has(g, OutputOf(j))}}

(* _get_similar_turns: whatever turns have a user_input node, since the    *)
(* similarities to a random query vector are arbitrary.                    *)
StoredTurns(g) == {TurnAt(g, k) : k \in {j \in Message : Has(g, InputOf(j))}}

(* What load_memory_variables may mention: every subset of the stored      *)
(* turns that a search returns, beside the recent ones.                    *)
Recallable == RecentTurns(MemoryGraph, memory.count) \cup StoredTurns(MemoryGraph)

-----------------------------------------------------------------------------
(* The objects of a session.                                               *)

(* SMGPMemory and SMGPVerifierTool are made on one graph, or on two.       *)
Session(g, toolObject) ==
    /\ graphs' = [o \in 1..2 |-> IF o = 1 THEN g ELSE EmptyGraph]
    /\ memory' = [graph |-> 1, count |-> 0]
    /\ tool' = toolObject
    /\ up' = TRUE
    /\ said' = << >>
    /\ base' = StoredTurns(g)
    /\ facts' = {}

Init ==
    /\ graphs = [o \in 1..2 |-> EmptyGraph]
    /\ memory = [graph |-> 1, count |-> 0]
    /\ tool \in 1..2
    /\ up = TRUE /\ saving = "no"
    /\ npz = NoFile /\ json = NoFile
    /\ used = 0 /\ said = << >> /\ base = {} /\ facts = {}
    /\ saved = NoGraph /\ mixed = FALSE

Calling == up /\ saving = "no"

files == <<saving, npz, json, saved, mixed>>

(* Mutant: a node that exists is left as it is.                            *)
WithTurnKept(g, k, m) ==
    LET h == AddLink(AddNode(IF Has(g, OutputOf(k)) THEN g
                             ELSE AddNode(g, OutputOf(k), m), InputOf(k), m),
                     InputOf(k), "response_to", OutputOf(k))
    IN IF k > 1 /\ Has(h, OutputOf(k - 1))
       THEN AddLink(h, OutputOf(k - 1), "followed_by", InputOf(k))
       ELSE h

(* Mutant: the second turn is not linked to the first.                     *)
WithTurnUnlinked(g, k, m) ==
    LET h == AddLink(AddNode(AddNode(g, InputOf(k), m), OutputOf(k), m),
                     InputOf(k), "response_to", OutputOf(k))
    IN IF k > 2 /\ Has(h, OutputOf(k - 1))
       THEN AddLink(h, OutputOf(k - 1), "followed_by", InputOf(k))
       ELSE h

(* save_context: the two nodes of the next turn, the link between them and *)
(* the one from the turn before, when its output is there.                 *)
WithTurn(g, k, m) ==
    LET h == AddLink(AddNode(AddNode(g, InputOf(k), m), OutputOf(k), m),
                     InputOf(k), "response_to", OutputOf(k))
    IN IF k > 1 /\ Has(h, OutputOf(k - 1))
       THEN AddLink(h, OutputOf(k - 1), "followed_by", InputOf(k))
       ELSE h

SaveContext ==
    /\ Calling /\ used < MaxTurns
    /\ LET k == memory.count + 1 IN
       /\ memory' = [memory EXCEPT !.count = k]
       /\ graphs' = [graphs EXCEPT ![memory.graph] = WithTurn(@, k, used + 1)]
    /\ used' = used + 1
    /\ said' = Append(said, used + 1)
    /\ UNCHANGED <<tool, up, base, facts, files>>

(* Mutant: the graph the memory has is emptied in place.                   *)
ClearInPlace ==
    /\ Calling
    /\ memory' = [memory EXCEPT !.count = 0]
    /\ graphs' = [graphs EXCEPT ![memory.graph] = EmptyGraph]
    /\ said' = << >> /\ base' = {}
    /\ UNCHANGED <<tool, up, used, facts, files>>

(* clear: a new graph for the memory; the tool keeps the one it has.       *)
Clear ==
    /\ Calling
    /\ LET o == 3 - tool IN
       /\ memory' = [graph |-> o, count |-> 0]
       /\ graphs' = [graphs EXCEPT ![o] = EmptyGraph]
    /\ said' = << >> /\ base' = {}
    /\ UNCHANGED <<tool, up, used, facts, files>>

(* SMGPVerifierTool.add_knowledge.                                         *)
WithEntity(g, e) == IF Has(g, e) THEN g ELSE AddNode(g, e, 0)

AddKnowledge(s, d) ==
    /\ Calling
    /\ graphs' = [graphs EXCEPT ![tool] =
           AddLink(WithEntity(WithEntity(@, s), d), s, "fact", d)]
    /\ facts' = facts \cup {[src |-> s, rel |-> "fact", dst |-> d]}
    /\ UNCHANGED <<memory, tool, up, used, said, base, files>>

-----------------------------------------------------------------------------
(* Checkpoints of the memory's graph.  save_graph computes the contents    *)
(* and writes, in the format npz, the vectors and then the structure; in   *)
(* the format json one file that has both, under the name of the structure.*)
(* Each file is open and incomplete for a while, and opening it has        *)
(* destroyed what it held.                                                 *)

Vectors == [NodeId -> Vector \cup {Absent}]

(* What the json file holds; without vectors when it is of the format npz. *)
Structure == [text : [NodeId -> Text \cup {Absent}], vec : Vectors,
              links : SUBSET Link]

VectorsOf(g) == [n \in NodeId |-> IF Has(g, n) THEN g.attr[n].vec ELSE Absent]

StructureOf(g) ==
    [text  |-> [n \in NodeId |-> IF Has(g, n) THEN g.attr[n].text ELSE Absent],
     vec   |-> [n \in NodeId |-> Absent],
     links |-> g.links]

WholeOf(g) == [StructureOf(g) EXCEPT !.vec = VectorsOf(g)]

session == <<graphs, memory, tool, up, used, said, base, facts>>

OpenVectors ==
    /\ Calling
    /\ saving' = "vectors" /\ npz' = Torn
    /\ UNCHANGED <<json, saved, mixed, session>>

CloseVectors ==
    /\ up /\ saving = "vectors"
    /\ saving' = "between" /\ npz' = VectorsOf(MemoryGraph) /\ mixed' = TRUE
    /\ UNCHANGED <<json, saved, session>>

OpenStructure ==
    /\ up /\ saving = "between"
    /\ saving' = "structure" /\ json' = Torn
    /\ UNCHANGED <<npz, saved, mixed, session>>

CloseStructure ==
    /\ up /\ saving = "structure"
    /\ saving' = "no" /\ json' = StructureOf(MemoryGraph)
    /\ saved' = MemoryGraph
    /\ mixed' = FALSE
    /\ UNCHANGED <<npz, session>>

OpenWhole ==
    /\ Calling
    /\ saving' = "whole" /\ json' = Torn
    /\ UNCHANGED <<npz, saved, mixed, session>>

CloseWhole ==
    /\ up /\ saving = "whole"
    /\ saving' = "no" /\ json' = WholeOf(MemoryGraph)
    /\ saved' = MemoryGraph
    /\ mixed' = TRUE
    /\ UNCHANGED <<npz, session>>

(* A write raises (the disk is full): save_graph is left as it stands and  *)
(* the session goes on.                                                    *)
SaveFails ==
    /\ up /\ saving # "no"
    /\ saving' = "no"
    /\ UNCHANGED <<npz, json, saved, mixed, session>>

(* The process stops, in the middle of a save or not, and its objects are  *)
(* gone; the files stay as they are.                                       *)
Crash ==
    /\ up
    /\ graphs' = [o \in 1..2 |-> EmptyGraph]
    /\ memory' = [graph |-> 1, count |-> 0] /\ tool' = 1
    /\ up' = FALSE /\ saving' = "no"
    /\ said' = << >> /\ base' = {} /\ facts' = {}
    /\ UNCHANGED <<npz, json, used, saved, mixed>>

(* load_graph raises when a file is missing or incomplete, and when the    *)
(* array of vectors is that of a graph without nodes, which has one        *)
(* dimension only.                                                         *)
Loads ==
    /\ npz \notin {NoFile, Torn} /\ json \notin {NoFile, Torn}
    /\ \E n \in NodeId : npz[n] # Absent

(* Mutant: the vectors of the file are not used.                           *)
LoadedNodeNewVector(n) ==
    IF json.text[n] = Absent THEN Absent
    ELSE [text |-> json.text[n], vec |-> Drawn]

(* Otherwise the nodes and links of one file with the vectors of the other;*)
(* a node without one gets a vector from the new graph's generator.        *)
LoadedNode(n) ==
    IF json.text[n] = Absent THEN Absent
    ELSE [text |-> json.text[n],
          vec  |-> IF npz[n] = Absent THEN Drawn ELSE npz[n]]

Loaded == [attr |-> [n \in NodeId |-> LoadedNode(n)], links |-> json.links]

Resume ==
    /\ ~up /\ Loads
    /\ \E o \in 1..2 : Session(Loaded, o)
    /\ UNCHANGED <<used, files>>

(* In the format json the one file must have a vector for every node.      *)
LoadsWhole ==
    /\ json \notin {NoFile, Torn}
    /\ \A n \in NodeId : json.text[n] # Absent => json.vec[n] # Absent

LoadedWhole ==
    [attr |-> [n \in NodeId |-> IF json.text[n] = Absent THEN Absent
                                ELSE [text |-> json.text[n], vec |-> json.vec[n]]],
     links |-> json.links]

ResumeWhole ==
    /\ ~up /\ LoadsWhole
    /\ \E o \in 1..2 : Session(LoadedWhole, o)
    /\ UNCHANGED <<used, files>>

StartNew ==
    /\ ~up
    /\ \E o \in 1..2 : Session(EmptyGraph, o)
    /\ UNCHANGED <<used, files>>

Next ==
    \/ SaveContext \/ Clear
    \/ \E s, d \in Entity : AddKnowledge(s, d)
    \/ OpenVectors \/ CloseVectors \/ OpenStructure \/ CloseStructure
    \/ OpenWhole \/ CloseWhole
    \/ SaveFails \/ Crash \/ Resume \/ ResumeWhole \/ StartNew

Spec == Init /\ [][Next]_vars

-----------------------------------------------------------------------------
(* Properties.                                                             *)

(* Every variable keeps its type: in particular the checkpoint files hold  *)
(* nothing but what save_graph writes (io.py:66-69).                       *)
TypeOK ==
    /\ graphs \in [1..2 -> Graph]
    /\ memory \in [graph : 1..2, count : 0..MaxTurns]
    /\ tool \in 1..2 /\ up \in BOOLEAN
    /\ saving \in {"no", "vectors", "between", "structure", "whole"}
    /\ npz \in {NoFile, Torn} \/ npz \in Vectors
    /\ json \in {NoFile, Torn} \/ json \in Structure
    /\ used \in 0..MaxTurns /\ said \in Seq(Message)
    /\ saved \in Graph \cup {NoGraph}
    /\ mixed \in BOOLEAN

(* The k-th turn of this session as it was said.                           *)
TurnOf(k) == [turn |-> k, human |-> said[k], ai |-> said[k]]

(* The last turns of a session are recalled, each with its own two texts,  *)
(* and no other turn is among them, although the graph may hold turns of   *)
(* the same names from before (_get_recent_turns, langchain.py:145).       *)
RecentRecalled ==
    RecentTurns(MemoryGraph, memory.count) =
        {TurnOf(k) : k \in {j \in 1..Len(said) : j > Len(said) - Window}}

(* Whatever a search finds, a turn that is recalled was said in this       *)
(* session since the last clear, or was a turn of the checkpoint that the  *)
(* session started from: a message is never shown with another's answer    *)
(* (langchain.py:177-188).                                                 *)
RecallSound ==
    Recallable \subseteq base \cup {TurnOf(k) : k \in 1..Len(said)}

(* The turns of a session hang together: every message is linked to its    *)
(* answer and every answer to the next message (save_context,              *)
(* langchain.py:87-91).                                                    *)
ThreadUnbroken ==
    \A k \in 1..Len(said) :
        /\ [src |-> InputOf(k), rel |-> "response_to", dst |-> OutputOf(k)]
               \in MemoryGraph.links
        /\ k > 1 => [src |-> OutputOf(k - 1), rel |-> "followed_by",
                     dst |-> InputOf(k)] \in MemoryGraph.links

(* Clearing the conversation takes nothing from the tool that shares its   *)
(* graph: what the tool was told in this session it still knows, and its   *)
(* links do not dangle (clear, langchain.py:132).                          *)
ToolKeepsFacts ==
    /\ facts \subseteq graphs[tool].links
    /\ \A l \in graphs[tool].links :
           Has(graphs[tool], l.src) /\ Has(graphs[tool], l.dst)

(* A checkpoint that can be loaded is the one whose save completed last,   *)
(* nodes, vectors and links, whatever saves have failed since - unless one *)
(* stopped exactly between its two files, or one of the other format has   *)
(* replaced the second (save_graph, io.py:66-69 and 92-94).  That format's *)
(* one file never loads as anything but the last save.                     *)
CheckpointFaithful ==
    /\ (Loads /\ ~mixed) => saved # NoGraph /\ Loaded = saved
    /\ LoadsWhole => saved # NoGraph /\ LoadedWhole = saved

-----------------------------------------------------------------------------
(* The inductive invariant.                                                *)

NoDangling(g) == \A l \in g.links : Has(g, l.src) /\ Has(g, l.dst)

(* The counter is the number of turns said, and there is room for more.    *)
CountInv ==
    /\ memory.count = Len(said)
    /\ Len(said) <= used
    /\ saving # "no" => up

(* The nodes of the session's turns are those of what was said; any other  *)
(* turn in the graph is one that was loaded.                               *)
TurnsInv ==
    /\ \A k \in 1..Len(said) :
          /\ Has(MemoryGraph, InputOf(k)) /\ Has(MemoryGraph, OutputOf(k))
          /\ MemoryGraph.attr[InputOf(k)].text = said[k]
          /\ MemoryGraph.attr[OutputOf(k)].text = said[k]
    /\ \A k \in Message : k > Len(said) /\ Has(MemoryGraph, InputOf(k))
                              => TurnAt(MemoryGraph, k) \in base

(* No graph has a dangling link, live or in the checkpoint.                *)
LinksInv ==
    /\ \A o \in 1..2 : NoDangling(graphs[o])
    /\ json \notin {NoFile, Torn} =>
          \A l \in json.links : json.text[l.src] # Absent /\ json.text[l.dst] # Absent
    /\ facts \subseteq graphs[tool].links

(* The json file, when it is whole, is of the last save in either format.  *)
(* Two whole files are those of the last save, unless they are mixed, which*)
(* they are until a save that has written one has written the other.       *)
FilesInv ==
    /\ json \notin {NoFile, Torn} =>
          saved # NoGraph /\ json \in {StructureOf(saved), WholeOf(saved)}
    /\ (~mixed /\ npz \notin {NoFile, Torn} /\ json \notin {NoFile, Torn}) =>
          saved # NoGraph /\ npz = VectorsOf(saved) /\ json = StructureOf(saved)
    /\ saving \in {"between", "structure"} =>
          mixed /\ npz = VectorsOf(MemoryGraph)

IInv == TypeOK /\ CountInv /\ TurnsInv /\ ThreadUnbroken /\ LinksInv /\ FilesInv
=============================================================================
