--------------------------- MODULE GraphRewriter ---------------------------
(***************************************************************************)
(* GraphRewriter (src/smgp/core/category.py): matching a labelled pattern  *)
(* in a graph and rewriting the graph with a rule L <- K -> R.  Patterns   *)
(* index their nodes from 0, a match maps the indices of L to nodes, K is  *)
(* a set of indices that L and R share.  Constraints on properties are     *)
(* part of the label here.  Every rewrite copies the graph and so draws    *)
(* new edge keys: a graph is its labelled nodes and the bag of its links.  *)
(***************************************************************************)
EXTENDS Naturals, FiniteSets, Bags

CONSTANTS
    BaseId,      \* node ids that callers choose
    Label,
    Relation,
    Rule,        \* the rules in use: [lhs, rhs, interface]
    MaxNodes,    \* bound: number of nodes in a graph
    MaxLinks     \* bound: number of edges in a graph

(* f"gen_{count}_{index}"                                                  *)
GenName(count, i) == <<"gen", count, i>>

PatternEdges(p) == [src : DOMAIN p.nodes, dst : DOMAIN p.nodes, rel : Relation]

IsPattern(p) ==
    /\ \E n \in 0..4 : DOMAIN p.nodes = 0..(n - 1)
    /\ \A i \in DOMAIN p.nodes : p.nodes[i] \in Label
    /\ p.edges \subseteq PatternEdges(p) /\ IsFiniteSet(p.edges)

ASSUME RuleAssumption ==
    \A r \in Rule :
        /\ IsPattern(r.lhs) /\ IsPattern(r.rhs)
        /\ r.interface \subseteq DOMAIN r.lhs.nodes \cap DOMAIN r.rhs.nodes

ASSUME BoundAssumption == MaxNodes \in Nat \ {0} /\ MaxLinks \in Nat

EmptyGraph == [label |-> [n \in {} |-> n], links |-> EmptyBag]

Nodes(g) == DOMAIN g.label

AddNode(g, n, l) ==
    [label |-> [x \in Nodes(g) \cup {n} |-> IF x = n THEN l ELSE g.label[x]],
     links |-> g.links]

AddLink(g, l) == [label |-> g.label, links |-> g.links (+) SetToBag({l})]

Touches(l, N) == l.src \in N \/ l.dst \in N

(* Mutant: the edges of a removed node stay.                               *)
WithoutNodesOnly(g, N) ==
    [label |-> [n \in Nodes(g) \ N |-> g.label[n]], links |-> g.links]

Without(g, N) ==
    [label |-> [n \in Nodes(g) \ N |-> g.label[n]],
     links |-> [l \in {x \in BagToSet(g.links) : ~Touches(x, N)} |-> g.links[l]]]
-----------------------------------------------------------------------------
(* match_pattern: injective, label by label, every pattern edge present.   *)
Image(m, e) == [src |-> m[e.src], dst |-> m[e.dst], rel |-> e.rel]

Matches(g, p) ==
    IF DOMAIN p.nodes = {} THEN {}
    ELSE {m \in [DOMAIN p.nodes -> Nodes(g)] :
             /\ \A i, j \in DOMAIN p.nodes : m[i] = m[j] => i = j
             /\ \A i \in DOMAIN p.nodes : g.label[m[i]] = p.nodes[i]
             /\ \A e \in p.edges : BagIn(Image(m, e), g.links)}
-----------------------------------------------------------------------------
(* apply_dpo_rewrite.  The match need not be one of the current graph.     *)

DeleteIndices(r) == DOMAIN r.lhs.nodes \ r.interface

Deleted(r, m) == {m[i] : i \in DeleteIndices(r)}

Preserved(r, m) == {m[i] : i \in r.interface}

(* The gluing check: an edge from a deleted to a preserved node needs an   *)
(* edge of L between the two, in either direction and of any relation.     *)
GluingHolds(g, r, m) ==
    \A l \in BagToSet(g.links) :
        l.src \in Deleted(r, m) /\ l.dst \in Preserved(r, m) =>
            \E e \in r.lhs.edges :
                {m[e.src], m[e.dst]} = {l.src, l.dst}

(* New nodes are added in the order of their indices and named after the   *)
(* number of nodes there are by then.  An id that exists already gets the  *)
(* new label and keeps its edges.                                          *)
Adding(g, r, m) ==
    LET step[k \in 0..Cardinality(DOMAIN r.rhs.nodes)] ==
          IF k = 0 THEN [graph |-> g, ids |-> [i \in {} |-> i]]
          ELSE LET i == k - 1
                   old == step[k - 1]
                   id == IF i \in r.interface THEN m[i]
                         ELSE GenName(Cardinality(Nodes(old.graph)), i)
               IN  [graph |-> IF i \in r.interface THEN old.graph
                              ELSE AddNode(old.graph, id, r.rhs.nodes[i]),
                    ids   |-> [j \in 0..i |-> IF j = i THEN id ELSE old.ids[j]]]
    IN  step[Cardinality(DOMAIN r.rhs.nodes)]

(* What R's nodes become, and the links R adds: all of them, K's too, one  *)
(* for each edge of R.                                                     *)
RhsIds(g, r, m) == Adding(Without(g, Deleted(r, m)), r, m).ids

RhsLinks(g, r, m) ==
    LET ids == RhsIds(g, r, m)
    IN  [l \in {Image(ids, e) : e \in r.rhs.edges} |->
            Cardinality({e \in r.rhs.edges : Image(ids, e) = l})]

(* The new graph, before R's links.                                        *)
NewNodes(g, r, m) == Adding(Without(g, Deleted(r, m)), r, m).graph

(* Mutant: parallel edges of the old graph are merged by the copy.         *)
RewrittenMerged(g, r, m) ==
    [label |-> NewNodes(g, r, m).label,
     links |-> SetToBag(BagToSet(NewNodes(g, r, m).links)) (+) RhsLinks(g, r, m)]

Rewritten(g, r, m) ==
    [label |-> NewNodes(g, r, m).label,
     links |-> NewNodes(g, r, m).links (+) RhsLinks(g, r, m)]

(* How the call ends: add_edge raises KeyError when a preserved node has   *)
(* gone; the working graph is replaced only if nothing is raised.          *)
Outcome(g, r, m) ==
    IF ~GluingHolds(g, r, m) THEN "ValueError"
    ELSE IF \A l \in BagToSet(RhsLinks(g, r, m)) :
               {l.src, l.dst} \subseteq Nodes(NewNodes(g, r, m))
         THEN "ok"
         ELSE "KeyError"

Fits(g) == Cardinality(Nodes(g)) <= MaxNodes /\ BagCardinality(g.links) <= MaxLinks

(* Mutant: only the gluing condition is checked, for the first step.       *)
VerdictOfGluing(g, r, m, n) ==
    IF n > 0 /\ ~GluingHolds(g, r, m) THEN "invalid" ELSE "valid"

(* The graphs that n times the same rewrite goes through.                  *)
Sequence(g, r, m, n) ==
    LET graph[k \in 0..n] == IF k = 0 THEN g ELSE Rewritten(graph[k - 1], r, m)
    IN  graph

(* The steps that are not accepted: L has no match at all, or the rewrite  *)
(* raises an error.                                                        *)
Refused(g, r, m, n) ==
    LET graph == Sequence(g, r, m, n)
    IN  {k \in 0..n - 1 : \/ Matches(graph[k], r.lhs) = {}
                          \/ Outcome(graph[k], r, m) # "ok"}

(* verify_rewrite_sequence of n times the same rewrite, on a copy of g: a  *)
(* KeyError is not caught.                                                 *)
Verdict(g, r, m, n) ==
    LET refused == Refused(g, r, m, n)
        first == CHOOSE k \in refused : \A j \in refused : k <= j
        graph == Sequence(g, r, m, n)[first]
    IN  IF refused = {} THEN "valid"
        ELSE IF Matches(graph, r.lhs) # {} /\ Outcome(graph, r, m) = "KeyError"
             THEN "KeyError"
             ELSE "invalid"
=============================================================================
