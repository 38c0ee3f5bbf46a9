--------------------------- MODULE ClaimVerifier ---------------------------
(***************************************************************************)
(* ClaimVerifier (src/smgp/reasoning/verifier.py) and the explaining       *)
(* verifier on top of it (src/smgp/reasoning/explainable.py).  A claim is  *)
(* a list of words; what matters of it is its form and the nodes and the   *)
(* relation it names:                                                      *)
(*   "triple"   "s r o", three words; "s is o" is one with r = Is          *)
(*   "natural"  "s is the r of o"                                          *)
(*   "pair"     "s o", two words                                           *)
(* The graph is the sequence of its edges, oldest first: successors and    *)
(* edges are listed in the order in which networkx first met them.         *)
(***************************************************************************)
EXTENDS Naturals, Sequences, FiniteSets, SequencesExt, SequenceFilter

CONSTANTS
    Thing,       \* words that may be nodes
    Rel,         \* relation types
    Is,          \* the relation "is"
    MaxEdges     \* bound on edges

ASSUME VerifierAssumption == Is \in Rel /\ MaxEdges \in Nat

VARIABLES
    things,      \* nodes of the graph
    facts        \* its edges, oldest first

verifierVars == <<things, facts>>

Fact == [src : Thing, dst : Thing, rel : Rel]

Claim ==
    [form : {"triple"}, s : Thing, r : Rel, o : Thing]
        \cup [form : {"natural", "pair"}, s : Thing, r : {Is}, o : Thing]

VerifierInit == things = {} /\ facts = <<>>

LearnThing(n) ==
    /\ n \notin things
    /\ things' = things \cup {n}
    /\ UNCHANGED facts

LearnFact(f) ==
    /\ f.src \in things /\ f.dst \in things
    /\ Len(facts) < MaxEdges
    /\ facts' = Append(facts, f)
    /\ UNCHANGED things

VerifierNext ==
    \/ \E n \in Thing : LearnThing(n)
    \/ \E f \in Fact : LearnFact(f)

VerifierSpec == VerifierInit /\ [][VerifierNext]_verifierVars

-----------------------------------------------------------------------------
(* The edges from one node to another.                                     *)
FactsBetween(s, o) == Leaving(facts, {f \in Fact : f.src # s \/ f.dst # o})

(* The loop over neighbors: the successors of n, in the order of their     *)
(* first edges, that were not visited before.                              *)
Met(new, n, visited, f) ==
    IF f.src = n /\ f.dst \notin visited \cup ToSet(new) THEN Append(new, f.dst) ELSE new

NewNeighbors(n, visited) ==
    LET met[i \in 0..Len(facts)] ==
            IF i = 0 THEN <<>> ELSE Met(met[i - 1], n, visited, facts[i])
    IN  met[Len(facts)]

(* Mutant: the last path in the queue is taken first.                      *)
TakeLast(q) == [path |-> q[Len(q)], rest |-> SubSeq(q, 1, Len(q) - 1)]

Take(q) == [path |-> q[1], rest |-> Tail(q)]

(* find_path: breadth first; the bound is on the paths taken from the      *)
(* queue.  No path is the empty sequence; once there is one the loop has   *)
(* returned.                                                               *)
Begun(source) == [queue |-> <<<<source>>>>, visited |-> {source}, found |-> <<>>]

Round(b, target) ==
    IF b.queue = <<>> \/ b.found # <<>> THEN b
    ELSE LET path == Take(b.queue).path
             new == NewNeighbors(Last(path), b.visited)
         IN  IF Last(path) = target THEN [b EXCEPT !.found = path]
             ELSE [queue |-> Take(b.queue).rest \o
                                 [i \in DOMAIN new |-> Append(path, new[i])],
                   visited |-> b.visited \cup ToSet(new),
                   found |-> <<>>]

FindPath(source, target, maxDepth) ==
    LET loop[k \in 0..maxDepth] ==
            IF k = 0 THEN Begun(source) ELSE Round(loop[k - 1], target)
    IN  IF source \in things /\ target \in things THEN loop[maxDepth].found ELSE <<>>

(* The edges that a triple names, and those that the patterns of           *)
(* _parse_claim, which ignore the relation, find.                          *)
Named(c) ==
    IF c.form = "triple"
    THEN Leaving(FactsBetween(c.s, c.o), {f \in Fact : f.rel # c.r})
    ELSE <<>>

Parses(c) == c.form = "natural" \/ (c.form = "triple" /\ c.r = Is)

Loose(c) == IF Parses(c) THEN FactsBetween(c.s, c.o) ELSE <<>>

(* Confidence of a verdict, in percent; 0 is "not verified".               *)
Verify(c) ==
    IF Named(c) # <<>> THEN 100 ELSE IF Loose(c) # <<>> THEN 80 ELSE 0

(* Mutant: each edge of a path is looked up in the wrong direction.        *)
PathFactsBack(path) ==
    [i \in 1..Len(path) - 1 |->
        [src |-> path[i + 1], dst |-> path[i],
         rel |-> FactsBetween(path[i], path[i + 1])[1].rel]]

PathFacts(path) ==
    [i \in 1..Len(path) - 1 |-> FactsBetween(path[i], path[i + 1])[1]]

(* _extract_proof_edges; 10 is the default depth of find_path.             *)
Proof(c) ==
    IF Named(c) # <<>> THEN Named(c)
    ELSE IF Loose(c) # <<>> THEN Loose(c)
    ELSE IF c.form # "natural" /\ Len(FindPath(c.s, c.o, 10)) > 1
         THEN PathFacts(FindPath(c.s, c.o, 10))
    ELSE <<>>

-----------------------------------------------------------------------------
(* Nodes at a distance of at most k edges, stated without a search.        *)
Wider(S) == S \cup {f.dst : f \in {g \in ToSet(facts) : g.src \in S}}

Within(n, k) ==
    LET ball[i \in 0..k] == IF i = 0 THEN {n} ELSE Wider(ball[i - 1])
    IN  ball[k]

(* find_path gives a path along edges of the graph that no other path      *)
(* between the two is shorter than, and it gives one whenever there is one *)
(* and the nodes that can be reached are no more than max_depth (which     *)
(* counts paths examined, not their length).                               *)
ShortestUpTo(Depth) ==
    \A s, t \in things : \A d \in Depth :
        LET p == FindPath(s, t, d)
            reach == Within(s, Cardinality(things))
        IN
        /\ p # <<>> =>
             /\ p[1] = s /\ Last(p) = t
             /\ \A i \in 1..Len(p) - 1 : FactsBetween(p[i], p[i + 1]) # <<>>
             /\ Len(p) >= 2 => t \notin Within(s, Len(p) - 2)
        /\ (t \in reach /\ Cardinality(reach) <= d) => p # <<>>

PathIsShortest == ShortestUpTo(0..Cardinality(things) + 1)

(* The proof of an explained verdict backs it: it is made of edges of the  *)
(* graph that lead from the subject to the object; a verified claim has    *)
(* one of single edges, and a claim that is not verified has one only when *)
(* the nodes are connected in another way than it says.                    *)
ProofBacksVerdict ==
    \A c \in Claim :
        LET p == Proof(c)
        IN  /\ ToSet(p) \subseteq ToSet(facts)
            /\ Verify(c) > 0 =>
                 p # <<>> /\ \A i \in DOMAIN p : p[i].src = c.s /\ p[i].dst = c.o
            /\ Verify(c) = 100 => \A i \in DOMAIN p : p[i].rel = c.r
            /\ (Verify(c) = 0 /\ p # <<>>) =>
                 /\ p[1].src = c.s /\ Last(p).dst = c.o
                 /\ \A i \in 1..Len(p) - 1 : p[i].dst = p[i + 1].src
=============================================================================
