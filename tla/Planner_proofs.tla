--------------------------- MODULE Planner_proofs ---------------------------
(***************************************************************************)
(* Proofs about the rewriter and the planner.  A rewrite does to a graph   *)
(* what HasEffect says, whatever the rule and the match; no edge loses its *)
(* end; and while a plan is executed that verify_rewrite_sequence accepts, *)
(* what is left of it is accepted too.                                     *)
(***************************************************************************)
EXTENDS Planner, FiniteSetTheorems, WellFoundedInduction, TLAPS

(* A set of numbers has a least one: the form in which the proofs below    *)
(* argue by induction, from a least counterexample.                        *)
LEMMA LeastNumber ==
    ASSUME NEW T \in SUBSET Nat, T # {}
    PROVE  \E n \in T : \A k \in T : n <= k
<1>1. IsWellFoundedOn(OpToRel(<, Nat), Nat)
  BY NatLessThanWellFounded
<1>2. PICK n \in T : \A k \in T : ~(<<k, n>> \in OpToRel(<, Nat))
  BY <1>1, WFMin
<1>3. \A k \in T : ~(k < n)
  BY <1>2 DEF OpToRel
<1> QED
  BY <1>3

-----------------------------------------------------------------------------
(* The new nodes.  AddStep is what the loop over R's nodes does with its   *)
(* k-th; Added says of f that it holds the states of the first n steps.    *)
AddStep(g, r, m, f, k) ==
    IF k = 0 THEN [graph |-> g, ids |-> [i \in {} |-> i]]
    ELSE LET i == k - 1
             old == f[k - 1]
             id == IF i \in r.interface THEN m[i]
                   ELSE GenName(Cardinality(Nodes(old.graph)), i)
         IN  [graph |-> IF i \in r.interface THEN old.graph
                        ELSE AddNode(old.graph, id, r.rhs.nodes[i]),
              ids   |-> [j \in 0..i |-> IF j = i THEN id ELSE old.ids[j]]]

Added(g, r, m, n, f) == f = [k \in 0..n |-> AddStep(g, r, m, f, k)]

AddSteps(g, r, m, n) == CHOOSE f : Added(g, r, m, n, f)

LEMMA AddingIsLast ==
    ASSUME NEW g, NEW r, NEW m
    PROVE  Adding(g, r, m) = AddSteps(g, r, m, Cardinality(DOMAIN r.rhs.nodes))
                                 [Cardinality(DOMAIN r.rhs.nodes)]
BY DEF Adding, AddSteps, Added, AddStep

LEMMA AddStepsExist ==
    ASSUME NEW g, NEW r, NEW m, NEW n \in Nat
    PROVE  \E f : Added(g, r, m, n, f)
<1> DEFINE T == {k \in Nat : ~\E f : Added(g, r, m, k, f)}
<1>1. ASSUME NEW t \in T PROVE FALSE
  <2>1. PICK least \in T : \A k \in T : least <= k
    BY <1>1, LeastNumber
  <2>2. CASE least = 0
    <3> DEFINE f == [k \in 0..0 |-> [graph |-> g, ids |-> [i \in {} |-> i]]]
    <3>1. \A k \in 0..0 : AddStep(g, r, m, f, k) = [graph |-> g, ids |-> [i \in {} |-> i]]
      BY DEF AddStep
    <3>2. f = [k \in 0..0 |-> AddStep(g, r, m, f, k)]
      BY <3>1
    <3> HIDE DEF f
    <3>3. Added(g, r, m, 0, f)
      BY <3>2 DEF Added
    <3> QED
      BY <2>1, <2>2, <3>3
  <2>3. CASE least > 0
    <3>1. least - 1 \in Nat /\ least - 1 \notin T
      BY <2>1, <2>3
    <3>2. PICK e : Added(g, r, m, least - 1, e)
      BY <3>1
    <3> DEFINE f == [k \in 0..least |-> IF k < least THEN e[k]
                                        ELSE AddStep(g, r, m, e, least)]
    <3>3. ASSUME NEW k \in 0..least PROVE f[k] = AddStep(g, r, m, f, k)
      <4>1. k \in Nat /\ least \in Nat
        BY <2>1
      <4>2. k > 0 => f[k - 1] = e[k - 1]
        BY <4>1, <3>3
      <4>3. AddStep(g, r, m, f, k) = AddStep(g, r, m, e, k)
        <5> HIDE DEF f
        <5>1. CASE k = 0
          BY <5>1 DEF AddStep
        <5>2. CASE k > 0
          BY <4>1, <4>2, <5>2 DEF AddStep
        <5> QED
          BY <4>1, <5>1, <5>2
      <4>4. CASE k < least
        <5>1. k \in 0..least - 1
          BY <4>1, <4>4
        <5>2. e[k] = AddStep(g, r, m, e, k)
          BY <3>2, <5>1 DEF Added
        <5> QED
          BY <4>3, <4>4, <5>2
      <4>5. CASE k = least
        BY <4>3, <4>5
      <4> QED
        BY <4>1, <4>4, <4>5
    <3>4. f = [k \in 0..least |-> AddStep(g, r, m, f, k)]
      <4>1. f = [k \in 0..least |-> f[k]]
        OBVIOUS
      <4> HIDE DEF f
      <4> QED
        BY <3>3, <4>1
    <3> HIDE DEF f
    <3>5. Added(g, r, m, least, f)
      BY <3>4 DEF Added
    <3> QED
      BY <2>1, <3>5
  <2> QED
    BY <2>1, <2>2, <2>3
<1> QED
  BY <1>1

LEMMA AddStepsUnfold ==
    ASSUME NEW g, NEW r, NEW m, NEW n \in Nat, NEW k \in 0..n
    PROVE  AddSteps(g, r, m, n)[k] = AddStep(g, r, m, AddSteps(g, r, m, n), k)
<1>1. Added(g, r, m, n, AddSteps(g, r, m, n))
  BY AddStepsExist DEF AddSteps
<1> HIDE DEF AddSteps
<1> QED
  BY <1>1 DEF Added

(* After k steps: the links and the old nodes are as they were, and there  *)
(* are the nodes of the indices so far that are not preserved.             *)
SoFar(g, r, s, k) ==
    /\ s.graph.links = g.links
    /\ DOMAIN s.ids = 0..k - 1
    /\ Nodes(s.graph) = Nodes(g) \cup {s.ids[i] : i \in (0..k - 1) \ r.interface}
    /\ (\A n \in Nodes(g) : g.label[n] \in Label)
         => \A n \in Nodes(s.graph) : s.graph.label[n] \in Label

LEMMA OneMore ==
    ASSUME NEW g, NEW r, NEW m, NEW f, NEW k \in Nat \ {0},
           r.rhs.nodes[k - 1] \in Label, SoFar(g, r, f[k - 1], k - 1)
    PROVE  SoFar(g, r, AddStep(g, r, m, f, k), k)
<1> DEFINE i == k - 1
           old == f[k - 1]
           id == IF i \in r.interface THEN m[i]
                 ELSE GenName(Cardinality(Nodes(old.graph)), i)
           new == AddStep(g, r, m, f, k)
<1>1. /\ new.graph = IF i \in r.interface THEN old.graph
                     ELSE AddNode(old.graph, id, r.rhs.nodes[i])
      /\ new.ids = [j \in 0..i |-> IF j = i THEN id ELSE old.ids[j]]
  BY DEF AddStep
<1>2. i \in Nat /\ k - 1 = i /\ 0..k - 1 = 0..i /\ 0..i = (0..i - 1) \cup {i}
      /\ i \notin 0..i - 1 /\ r.rhs.nodes[i] \in Label
  OBVIOUS
<1>3. SoFar(g, r, old, i)
  BY <1>2
<1> HIDE DEF i, old, id, new
<1>4. DOMAIN new.ids = 0..i /\ new.ids[i] = id
      /\ \A j \in 0..i - 1 : new.ids[j] = old.ids[j]
  BY <1>1, <1>2
<1>5. CASE i \in r.interface
  <2>1. new.graph = old.graph
    BY <1>1, <1>5
  <2>2. (0..i) \ r.interface = (0..i - 1) \ r.interface
    BY <1>2, <1>5
  <2>3. {new.ids[j] : j \in (0..i) \ r.interface}
          = {old.ids[j] : j \in (0..i - 1) \ r.interface}
    BY <1>4, <2>2
  <2>4. SoFar(g, r, new, k)
    BY <1>2, <1>3, <1>4, <2>1, <2>3 DEF SoFar
  <2> QED
    BY <2>4 DEF new
<1>6. CASE i \notin r.interface
  <2>1. new.graph = AddNode(old.graph, id, r.rhs.nodes[i])
    BY <1>1, <1>6
  <2>2. /\ new.graph.links = old.graph.links
        /\ Nodes(new.graph) = Nodes(old.graph) \cup {id}
        /\ \A x \in Nodes(new.graph) :
              new.graph.label[x] = IF x = id THEN r.rhs.nodes[i]
                                   ELSE old.graph.label[x]
    BY <2>1 DEF AddNode, Nodes
  <2>3. {new.ids[j] : j \in (0..i) \ r.interface}
          = {old.ids[j] : j \in (0..i - 1) \ r.interface} \cup {id}
    <3>1. (0..i) \ r.interface = ((0..i - 1) \ r.interface) \cup {i}
      BY <1>2, <1>6
    <3> QED
      BY <1>4, <3>1
  <2>4. Nodes(new.graph) = Nodes(g) \cup {new.ids[j] : j \in (0..i) \ r.interface}
    BY <1>3, <2>2, <2>3 DEF SoFar
  <2>5. (\A n \in Nodes(g) : g.label[n] \in Label)
          => \A n \in Nodes(new.graph) : new.graph.label[n] \in Label
    BY <1>2, <1>3, <2>2 DEF SoFar
  <2>6. SoFar(g, r, new, k)
    BY <1>2, <1>3, <1>4, <2>2, <2>4, <2>5 DEF SoFar
  <2> QED
    BY <2>6 DEF new
<1> QED
  BY <1>5, <1>6

LEMMA PatternSize ==
    ASSUME NEW p, IsPattern(p)
    PROVE  /\ Cardinality(DOMAIN p.nodes) \in Nat
           /\ DOMAIN p.nodes = 0..Cardinality(DOMAIN p.nodes) - 1
<1>1. PICK n \in 0..4 : DOMAIN p.nodes = 0..(n - 1)
  BY DEF IsPattern
<1>2. Cardinality(0..(n - 1)) = n
  <2>1. 0 \in Int /\ n - 1 \in Int /\ n \in Nat
    OBVIOUS
  <2>2. Cardinality(0..(n - 1)) = IF 0 > n - 1 THEN 0 ELSE (n - 1) - 0 + 1
    BY <2>1, FS_Interval
  <2> QED
    BY <2>1, <2>2
<1> QED
  BY <1>1, <1>2

LEMMA AddingEffect ==
    ASSUME NEW g, NEW r \in Rule, NEW m
    PROVE  SoFar(g, r, Adding(g, r, m), Cardinality(DOMAIN r.rhs.nodes))
<1> DEFINE n == Cardinality(DOMAIN r.rhs.nodes)
           f == AddSteps(g, r, m, n)
           T == {k \in 0..n : ~SoFar(g, r, f[k], k)}
<1>1. n \in Nat /\ DOMAIN r.rhs.nodes = 0..n - 1
  BY RuleAssumption, PatternSize
<1>2. \A i \in 0..n - 1 : r.rhs.nodes[i] \in Label
  BY <1>1, RuleAssumption DEF IsPattern
<1> HIDE DEF n
<1>3. \A k \in 0..n : f[k] = AddStep(g, r, m, f, k)
  BY <1>1, AddStepsUnfold
<1> HIDE DEF f
<1>4. ASSUME NEW t \in T PROVE FALSE
  <2>1. T \in SUBSET Nat
    BY <1>1
  <2>2. PICK least \in T : \A k \in T : least <= k
    BY <1>4, <2>1, LeastNumber
  <2>3. least \in 0..n /\ least \in Nat
    BY <1>1, <2>2
  <2>4. CASE least = 0
    <3>1. f[0] = [graph |-> g, ids |-> [i \in {} |-> i]]
      BY <1>3, <2>3, <2>4 DEF AddStep
    <3>2. f[0].graph = g /\ DOMAIN f[0].ids = {} /\ 0..0 - 1 = {}
      BY <3>1
    <3>3. SoFar(g, r, f[0], 0)
      BY <3>2 DEF SoFar
    <3> QED
      BY <2>2, <2>4, <3>3
  <2>5. CASE least > 0
    <3>1. least - 1 \in 0..n - 1 /\ least - 1 \in 0..n
      BY <1>1, <2>3, <2>5
    <3>2. SoFar(g, r, f[least - 1], least - 1)
      BY <1>1, <2>2, <2>3, <3>1
    <3>3. SoFar(g, r, AddStep(g, r, m, f, least), least)
      BY <1>2, <2>3, <2>5, <3>1, <3>2, OneMore
    <3> QED
      BY <1>3, <2>2, <2>3, <3>3
  <2> QED
    BY <2>3, <2>4, <2>5
<1>5. SoFar(g, r, f[n], n)
  BY <1>1, <1>4
<1>6. Adding(g, r, m) = f[n]
  BY AddingIsLast DEF f, n
<1> QED
  BY <1>5, <1>6 DEF n
-----------------------------------------------------------------------------
(* One rewrite.                                                            *)
Closed(g) == \A l \in BagToSet(g.links) : {l.src, l.dst} \subseteq Nodes(g)

(* The number of R's edges that become a link.                             *)
Becoming(r, ids, l) == Cardinality({e \in r.rhs.edges : Image(ids, e) = l})

LEMMA RhsLinksFacts ==
    ASSUME NEW g, NEW r \in Rule, NEW m
    PROVE  /\ IsABag(RhsLinks(g, r, m))
           /\ \A l \in BagToSet(RhsLinks(g, r, m)) : l.rel \in Relation
           /\ \A l : Copies(l, RhsLinks(g, r, m)) = Becoming(r, RhsIds(g, r, m), l)
           /\ \A l : Copies(l, RhsLinks(g, r, m)) \in Nat
<1> DEFINE ids == RhsIds(g, r, m)
           from(l) == {e \in r.rhs.edges : Image(ids, e) = l}
           ends == {Image(ids, e) : e \in r.rhs.edges}
           links == RhsLinks(g, r, m)
<1>1. IsFiniteSet(r.rhs.edges) /\ \A e \in r.rhs.edges : e.rel \in Relation
  BY RuleAssumption DEF IsPattern, PatternEdges
<1>2. links = [l \in ends |-> Cardinality(from(l))]
  BY DEF RhsLinks
<1>3. \A l : IsFiniteSet(from(l)) /\ Cardinality(from(l)) \in Nat
  <2>1. ASSUME NEW l PROVE IsFiniteSet(from(l)) /\ Cardinality(from(l)) \in Nat
    <3>1. from(l) \subseteq r.rhs.edges
      OBVIOUS
    <3> HIDE DEF from
    <3> QED
      BY <1>1, <3>1, FS_Subset, FS_CardinalityType
  <2> QED
    BY <2>1
<1>4. ASSUME NEW l \in ends PROVE Cardinality(from(l)) > 0 /\ l.rel \in Relation
  <2>1. PICK e \in r.rhs.edges : Image(ids, e) = l
    OBVIOUS
  <2>2. e \in from(l)
    BY <2>1
  <2>3. l.rel \in Relation
    BY <1>1, <2>1 DEF Image
  <2> HIDE DEF from
  <2>4. Cardinality(from(l)) # 0
    BY <1>3, <2>2, FS_EmptySet
  <2> QED
    BY <1>3, <2>3, <2>4
<1>5. ASSUME NEW l, l \notin ends PROVE Cardinality(from(l)) = 0
  <2>1. from(l) = {}
    BY <1>5
  <2> QED
    BY <2>1, FS_EmptySet
<1> HIDE DEF ids, from, ends, links
<1>6. DOMAIN links = ends /\ \A l \in ends : links[l] = Cardinality(from(l))
  BY <1>2
<1>7. IsABag(links)
  BY <1>2, <1>3, <1>4 DEF IsABag
<1>8. \A l : Copies(l, links) = Cardinality(from(l)) /\ Copies(l, links) \in Nat
  BY <1>3, <1>5, <1>6 DEF Copies, BagIn, BagToSet
<1>9. \A l \in BagToSet(links) : l.rel \in Relation
  BY <1>4, <1>6 DEF BagToSet
<1> QED
  BY <1>7, <1>8, <1>9 DEF ids, from, links, Becoming

LEMMA WithoutFacts ==
    ASSUME NEW g, NEW N
    PROVE  /\ Nodes(Without(g, N)) = Nodes(g) \ N
           /\ \A n \in Nodes(g) \ N : Without(g, N).label[n] = g.label[n]
           /\ BagToSet(Without(g, N).links)
                = {l \in BagToSet(g.links) : ~Touches(l, N)}
           /\ \A l \in BagToSet(Without(g, N).links) :
                Without(g, N).links[l] = g.links[l]
           /\ IsABag(g.links) => IsABag(Without(g, N).links)
<1> DEFINE kept == {l \in BagToSet(g.links) : ~Touches(l, N)}
           links == [l \in kept |-> g.links[l]]
           label == [n \in Nodes(g) \ N |-> g.label[n]]
<1>1. Without(g, N).label = label /\ Without(g, N).links = links
  BY DEF Without
<1>2. kept \subseteq DOMAIN g.links
  BY DEF BagToSet
<1>3. DOMAIN label = Nodes(g) \ N /\ DOMAIN links = kept
  OBVIOUS
<1>4. \A n \in Nodes(g) \ N : label[n] = g.label[n]
  OBVIOUS
<1>5. \A l \in kept : links[l] = g.links[l]
  OBVIOUS
<1> HIDE DEF kept, label
<1>6. IsABag(g.links) => IsABag(links)
  BY <1>2 DEF IsABag
<1> HIDE DEF links
<1> QED
  BY <1>1, <1>3, <1>4, <1>5, <1>6 DEF Nodes, BagToSet, kept

LEMMA NewNodesFacts ==
    ASSUME NEW g, NEW r \in Rule, NEW m
    PROVE  /\ NewNodes(g, r, m).links = Without(g, Deleted(r, m)).links
           /\ Nodes(NewNodes(g, r, m))
                = (Nodes(g) \ Deleted(r, m))
                    \cup {RhsIds(g, r, m)[i] :
                            i \in DOMAIN RhsIds(g, r, m) \ r.interface}
           /\ (\A n \in Nodes(g) : g.label[n] \in Label)
                => \A n \in Nodes(NewNodes(g, r, m)) :
                      NewNodes(g, r, m).label[n] \in Label
<1> DEFINE w == Without(g, Deleted(r, m))
           s == Adding(w, r, m)
           k == Cardinality(DOMAIN r.rhs.nodes)
<1>1. NewNodes(g, r, m) = s.graph /\ RhsIds(g, r, m) = s.ids
  BY DEF NewNodes, RhsIds
<1>2. /\ Nodes(w) = Nodes(g) \ Deleted(r, m)
      /\ (\A n \in Nodes(g) : g.label[n] \in Label)
            => \A n \in Nodes(w) : w.label[n] \in Label
  BY WithoutFacts
<1>3. SoFar(w, r, s, k)
  BY AddingEffect
<1> HIDE DEF s, k
<1> QED
  BY <1>1, <1>2, <1>3 DEF SoFar

LEMMA RewrittenFacts ==
    ASSUME NEW g, NEW r \in Rule, NEW m
    PROVE  /\ Nodes(Rewritten(g, r, m)) = Nodes(NewNodes(g, r, m))
           /\ BagToSet(Rewritten(g, r, m).links)
                = {l \in BagToSet(g.links) : ~Touches(l, Deleted(r, m))}
                    \cup BagToSet(RhsLinks(g, r, m))
           /\ \A l : Copies(l, Rewritten(g, r, m).links)
                = (IF l \in BagToSet(g.links) /\ ~Touches(l, Deleted(r, m))
                   THEN g.links[l] ELSE 0)
                    + Copies(l, RhsLinks(g, r, m))
<1> DEFINE h == Rewritten(g, r, m)
           old == Without(g, Deleted(r, m)).links
           new == RhsLinks(g, r, m)
<1>1. h.label = NewNodes(g, r, m).label /\ h.links = old (+) new
  BY NewNodesFacts DEF Rewritten
<1>2. /\ BagToSet(old) = {l \in BagToSet(g.links) : ~Touches(l, Deleted(r, m))}
      /\ \A l \in BagToSet(old) : old[l] = g.links[l]
  BY WithoutFacts
<1>3. \A l : Copies(l, new) \in Nat
  BY RhsLinksFacts
<1> HIDE DEF h, old, new
<1>4. DOMAIN h.links = DOMAIN old \cup DOMAIN new
      /\ \A l \in DOMAIN h.links :
            h.links[l] = (IF l \in DOMAIN old THEN old[l] ELSE 0)
                           + (IF l \in DOMAIN new THEN new[l] ELSE 0)
  BY <1>1 DEF (+)
<1>5. \A l : Copies(l, h.links) = (IF l \in DOMAIN old THEN old[l] ELSE 0)
                                    + Copies(l, new)
  BY <1>4 DEF Copies, BagIn, BagToSet
<1> QED
  BY <1>1, <1>2, <1>4, <1>5 DEF Nodes, BagToSet, h, new

(* What the property says of a rewrite holds of every one.                 *)
LEMMA RewriteHasEffect ==
    ASSUME NEW g, IsGraph(g), Closed(g), NEW r \in Rule, NEW m
    PROVE  HasEffect(g, Rewritten(g, r, m), r, m)
<1> DEFINE h == Rewritten(g, r, m)
           ids == RhsIds(g, r, m)
           rest == Nodes(g) \ Deleted(r, m)
<1>1. Nodes(h) = rest \cup {ids[i] : i \in DOMAIN ids \ r.interface}
  <2>1. Nodes(h) = Nodes(NewNodes(g, r, m))
    BY RewrittenFacts
  <2>2. Nodes(NewNodes(g, r, m)) = rest \cup {ids[i] : i \in DOMAIN ids \ r.interface}
    BY NewNodesFacts
  <2> QED
    BY <2>1, <2>2
<1> DEFINE kept(l) == l \in BagToSet(g.links) /\ ~Touches(l, Deleted(r, m))
<1>3. \A l : Copies(l, RhsLinks(g, r, m)) = Becoming(r, ids, l)
  BY RhsLinksFacts
<1>4. \A l : Copies(l, h.links) = (IF kept(l) THEN g.links[l] ELSE 0)
                                    + Copies(l, RhsLinks(g, r, m))
  BY RewrittenFacts
<1> HIDE DEF h
<1>2. ASSUME NEW l
      PROVE  Copies(l, h.links)
               = (IF {l.src, l.dst} \subseteq rest THEN Copies(l, g.links) ELSE 0)
                   + Becoming(r, ids, l)
  <2>1. CASE l \in BagToSet(g.links)
    <3>1. ~Touches(l, Deleted(r, m)) <=> {l.src, l.dst} \subseteq rest
      BY <2>1 DEF Closed, Touches
    <3>2. Copies(l, g.links) = g.links[l]
      BY <2>1 DEF Copies, BagIn
    <3> HIDE DEF rest
    <3> QED
      BY <1>3, <1>4, <2>1, <3>1, <3>2
  <2>2. CASE l \notin BagToSet(g.links)
    <3>1. Copies(l, g.links) = 0
      BY <2>2 DEF Copies, BagIn
    <3> HIDE DEF rest
    <3> QED
      BY <1>3, <1>4, <2>2, <3>1
  <2> QED
    BY <2>1, <2>2
<1> HIDE DEF ids, rest
<1> QED
  BY <1>1, <1>2 DEF HasEffect, Becoming, ids, rest, h

(* A rewrite that raises no error leaves no edge without its end.          *)
LEMMA RewriteClosed ==
    ASSUME NEW g, Closed(g), NEW r \in Rule, NEW m, Outcome(g, r, m) = "ok"
    PROVE  Closed(Rewritten(g, r, m))
<1> DEFINE h == Rewritten(g, r, m)
<1>1. \A l \in BagToSet(RhsLinks(g, r, m)) :
          {l.src, l.dst} \subseteq Nodes(NewNodes(g, r, m))
  BY DEF Outcome
<1>2. Nodes(h) = Nodes(NewNodes(g, r, m))
  BY RewrittenFacts
<1>3. BagToSet(h.links) = {l \in BagToSet(g.links) : ~Touches(l, Deleted(r, m))}
                            \cup BagToSet(RhsLinks(g, r, m))
  BY RewrittenFacts
<1>4. Nodes(g) \ Deleted(r, m) \subseteq Nodes(h)
  BY <1>2, NewNodesFacts
<1> HIDE DEF h
<1>5. ASSUME NEW l \in BagToSet(h.links) PROVE {l.src, l.dst} \subseteq Nodes(h)
  <2>1. CASE l \in BagToSet(RhsLinks(g, r, m))
    BY <1>1, <1>2, <2>1
  <2>2. CASE l \in BagToSet(g.links) /\ ~Touches(l, Deleted(r, m))
    BY <1>4, <2>2 DEF Closed, Touches
  <2> QED
    BY <1>3, <1>5, <2>1, <2>2
<1> QED
  BY <1>5 DEF Closed, h

LEMMA RewriteIsGraph ==
    ASSUME NEW g, IsGraph(g), NEW r \in Rule, NEW m
    PROVE  IsGraph(Rewritten(g, r, m))
<1> DEFINE h == Rewritten(g, r, m)
           old == Without(g, Deleted(r, m)).links
           new == RhsLinks(g, r, m)
<1>1. h.label = NewNodes(g, r, m).label /\ h.links = old (+) new
  BY NewNodesFacts DEF Rewritten
<1>2. \A n \in Nodes(h) : h.label[n] \in Label
  BY <1>1, NewNodesFacts DEF IsGraph, Nodes
<1>3. IsABag(old) /\ IsABag(new)
  BY WithoutFacts, RhsLinksFacts DEF IsGraph
<1>4. \A l \in BagToSet(h.links) : l.rel \in Relation
  <2>1. BagToSet(h.links) = {l \in BagToSet(g.links) : ~Touches(l, Deleted(r, m))}
                              \cup BagToSet(RhsLinks(g, r, m))
    BY RewrittenFacts
  <2>2. \A l \in BagToSet(RhsLinks(g, r, m)) : l.rel \in Relation
    BY RhsLinksFacts
  <2> HIDE DEF h
  <2> QED
    BY <2>1, <2>2 DEF IsGraph
<1> HIDE DEF h, old, new
<1>5. IsABag(h.links)
  <2>1. /\ \A l \in DOMAIN old : old[l] \in Nat /\ old[l] > 0
        /\ \A l \in DOMAIN new : new[l] \in Nat /\ new[l] > 0
    BY <1>3 DEF IsABag
  <2> QED
    BY <1>1, <2>1 DEF (+), IsABag
<1> QED
  BY <1>2, <1>4, <1>5 DEF IsGraph, h

-----------------------------------------------------------------------------
(* A sequence of rewrites.  Passed says of f that it holds the graphs that *)
(* n rewrites go through.                                                  *)
PassedStep(g, r, m, f, k) == IF k = 0 THEN g ELSE Rewritten(f[k - 1], r, m)

Passed(g, r, m, n, f) == f = [k \in 0..n |-> PassedStep(g, r, m, f, k)]

LEMMA PassedExists ==
    ASSUME NEW g, NEW r, NEW m, NEW n \in Nat
    PROVE  \E f : Passed(g, r, m, n, f)
<1> DEFINE T == {k \in Nat : ~\E f : Passed(g, r, m, k, f)}
<1>1. ASSUME NEW t \in T PROVE FALSE
  <2>1. PICK least \in T : \A k \in T : least <= k
    BY <1>1, LeastNumber
  <2>2. CASE least = 0
    <3> DEFINE f == [k \in 0..0 |-> g]
    <3>1. f = [k \in 0..0 |-> PassedStep(g, r, m, f, k)]
      BY DEF PassedStep
    <3> HIDE DEF f
    <3>2. Passed(g, r, m, 0, f)
      BY <3>1 DEF Passed
    <3> QED
      BY <2>1, <2>2, <3>2
  <2>3. CASE least > 0
    <3>1. least - 1 \in Nat /\ least - 1 \notin T
      BY <2>1, <2>3
    <3>2. PICK e : Passed(g, r, m, least - 1, e)
      BY <3>1
    <3> DEFINE f == [k \in 0..least |-> IF k < least THEN e[k]
                                        ELSE Rewritten(e[least - 1], r, m)]
    <3>3. ASSUME NEW k \in 0..least PROVE f[k] = PassedStep(g, r, m, f, k)
      <4>1. k \in Nat /\ least \in Nat
        BY <2>1
      <4>2. k > 0 => f[k - 1] = e[k - 1]
        BY <4>1, <3>3
      <4>3. f[k] = IF k < least THEN e[k] ELSE Rewritten(e[least - 1], r, m)
        OBVIOUS
      <4> HIDE DEF f
      <4>4. CASE k < least
        <5>1. k \in 0..least - 1
          BY <4>1, <4>4
        <5>2. e[k] = PassedStep(g, r, m, e, k)
          BY <3>2, <5>1 DEF Passed
        <5>3. PassedStep(g, r, m, e, k) = PassedStep(g, r, m, f, k)
          BY <4>1, <4>2 DEF PassedStep
        <5> QED
          BY <4>3, <4>4, <5>2, <5>3
      <4>5. CASE k = least
        BY <2>3, <4>1, <4>2, <4>3, <4>5 DEF PassedStep
      <4> QED
        BY <4>1, <4>4, <4>5
    <3>4. f = [k \in 0..least |-> PassedStep(g, r, m, f, k)]
      <4>1. f = [k \in 0..least |-> f[k]]
        OBVIOUS
      <4> HIDE DEF f
      <4> QED
        BY <3>3, <4>1
    <3> HIDE DEF f
    <3>5. Passed(g, r, m, least, f)
      BY <3>4 DEF Passed
    <3> QED
      BY <2>1, <3>5
  <2> QED
    BY <2>1, <2>2, <2>3
<1> QED
  BY <1>1

LEMMA SequenceUnfold ==
    ASSUME NEW g, NEW r, NEW m, NEW n \in Nat
    PROVE  /\ Sequence(g, r, m, n)[0] = g
           /\ \A k \in 1..n : Sequence(g, r, m, n)[k]
                = Rewritten(Sequence(g, r, m, n)[k - 1], r, m)
<1> DEFINE f == CHOOSE x : Passed(g, r, m, n, x)
<1>1. Passed(g, r, m, n, f)
  BY PassedExists
<1>2. Sequence(g, r, m, n) = f
  BY DEF Sequence, Passed, PassedStep
<1> HIDE DEF f
<1>3. \A k \in 0..n : f[k] = PassedStep(g, r, m, f, k)
  BY <1>1 DEF Passed
<1> QED
  BY <1>2, <1>3 DEF PassedStep

(* After the first rewrite come the graphs of one rewrite less.            *)
LEMMA SequenceShift ==
    ASSUME NEW g, NEW r, NEW m, NEW n \in Nat, NEW k \in 0..n
    PROVE  Sequence(Rewritten(g, r, m), r, m, n)[k] = Sequence(g, r, m, n + 1)[k + 1]
<1> DEFINE f == Sequence(g, r, m, n + 1)
           e == Sequence(Rewritten(g, r, m), r, m, n)
           T == {j \in 0..n : e[j] # f[j + 1]}
<1>1. f[0] = g /\ \A j \in 1..n + 1 : f[j] = Rewritten(f[j - 1], r, m)
  BY SequenceUnfold
<1>2. e[0] = Rewritten(g, r, m) /\ \A j \in 1..n : e[j] = Rewritten(e[j - 1], r, m)
  BY SequenceUnfold
<1> HIDE DEF e, f
<1>3. ASSUME NEW t \in T PROVE FALSE
  <2>1. T \in SUBSET Nat
    OBVIOUS
  <2>2. PICK least \in T : \A j \in T : least <= j
    BY <1>3, <2>1, LeastNumber
  <2>3. least \in 0..n /\ least \in Nat /\ least + 1 \in 1..n + 1 /\ (least + 1) - 1 = least
    BY <2>2
  <2>4. f[least + 1] = Rewritten(f[least], r, m)
    BY <1>1, <2>3
  <2>5. CASE least = 0
    BY <1>1, <1>2, <2>2, <2>4, <2>5
  <2>6. CASE least > 0
    <3>1. least - 1 \in 0..n /\ least - 1 \notin T /\ (least - 1) + 1 = least
          /\ least \in 1..n
      BY <2>2, <2>3, <2>6
    <3>2. e[least - 1] = f[least]
      BY <3>1
    <3>3. e[least] = Rewritten(e[least - 1], r, m)
      BY <1>2, <3>1
    <3> QED
      BY <2>2, <2>4, <3>2, <3>3
  <2> QED
    BY <2>3, <2>5, <2>6
<1>4. e[k] = f[k + 1]
  BY <1>3
<1> QED
  BY <1>4 DEF e, f

LEMMA VerdictValid ==
    ASSUME NEW g, NEW r, NEW m, NEW n
    PROVE  Verdict(g, r, m, n) = "valid" <=> Refused(g, r, m, n) = {}
BY DEF Verdict

(* A sequence is accepted only if its first rewrite raises no error, and   *)
(* what comes after it is accepted in the graph that it makes.             *)
LEMMA VerdictShift ==
    ASSUME NEW g, NEW r, NEW m, NEW n \in Nat, Verdict(g, r, m, n + 1) = "valid"
    PROVE  /\ Outcome(g, r, m) = "ok"
           /\ Verdict(Rewritten(g, r, m), r, m, n) = "valid"
<1> DEFINE f == Sequence(g, r, m, n + 1)
           e == Sequence(Rewritten(g, r, m), r, m, n)
<1>1. \A k \in 0..(n + 1) - 1 : Matches(f[k], r.lhs) # {} /\ Outcome(f[k], r, m) = "ok"
  BY VerdictValid DEF Refused
<1>2. f[0] = g
  BY SequenceUnfold
<1>3. \A k \in 0..n : e[k] = f[k + 1]
  BY SequenceShift
<1>4. Refused(Rewritten(g, r, m), r, m, n)
        = {k \in 0..n - 1 : Matches(e[k], r.lhs) = {} \/ Outcome(e[k], r, m) # "ok"}
  BY DEF Refused
<1> HIDE DEF e, f
<1>5. Outcome(g, r, m) = "ok"
  BY <1>1, <1>2
<1>6. ASSUME NEW k \in 0..n - 1
      PROVE  Matches(e[k], r.lhs) # {} /\ Outcome(e[k], r, m) = "ok"
  <2>1. k \in 0..n /\ k + 1 \in 0..(n + 1) - 1
    OBVIOUS
  <2> QED
    BY <1>1, <1>3, <2>1
<1>7. Refused(Rewritten(g, r, m), r, m, n) = {}
  BY <1>4, <1>6
<1> QED
  BY <1>5, <1>7, VerdictValid
-----------------------------------------------------------------------------
(* The planner.                                                            *)
PlanInv == left > 0 => plan # NoPlan

(* What is left of an accepted plan is accepted.                           *)
VerdictInv ==
    verdict = "valid" =>
        /\ ~skipped
        /\ left > 0 => Verdict(working, plan.rule, plan.match, left) = "valid"

IInv == TypeOK /\ PlanInv /\ NoDanglingLinks /\ VerdictInv

LEMMA GraphFacts ==
    ASSUME IInv
    PROVE  /\ IsGraph(host) /\ IsGraph(own) /\ IsGraph(working)
           /\ Closed(host) /\ Closed(own) /\ Closed(working)
<1>1. IsGraph(host) /\ IsGraph(own) /\ Closed(host) /\ Closed(own)
  BY DEF IInv, TypeOK, NoDanglingLinks, Closed
<1> QED
  BY <1>1 DEF working

LEMMA EmptyFacts == IsGraph(EmptyGraph) /\ Closed(EmptyGraph)
<1>1. EmptyBag = [e \in {} |-> 1]
  BY DEF EmptyBag, SetToBag
<1>2. IsABag(EmptyBag) /\ BagToSet(EmptyBag) = {}
  BY <1>1 DEF IsABag, BagToSet
<1>3. EmptyGraph.links = EmptyBag /\ Nodes(EmptyGraph) = {}
  BY DEF EmptyGraph, Nodes
<1> QED
  BY <1>2, <1>3 DEF IsGraph, Closed

LEMMA LearnNodeFacts ==
    ASSUME NEW g, IsGraph(g), Closed(g), NEW n, NEW l \in Label
    PROVE  IsGraph(AddNode(g, n, l)) /\ Closed(AddNode(g, n, l))
<1> DEFINE h == AddNode(g, n, l)
<1>1. /\ h.links = g.links /\ Nodes(h) = Nodes(g) \cup {n}
      /\ \A x \in Nodes(h) : h.label[x] = IF x = n THEN l ELSE g.label[x]
  BY DEF AddNode, Nodes
<1> HIDE DEF h
<1>2. IsGraph(h)
  BY <1>1 DEF IsGraph
<1>3. Closed(h)
  BY <1>1 DEF Closed
<1> QED
  BY <1>2, <1>3 DEF h

LEMMA LearnLinkFacts ==
    ASSUME NEW g, IsGraph(g), Closed(g),
           NEW s \in Nodes(g), NEW t \in Nodes(g), NEW r \in Relation
    PROVE  LET h == AddLink(g, [src |-> s, dst |-> t, rel |-> r])
           IN  IsGraph(h) /\ Closed(h)
<1> DEFINE new == [src |-> s, dst |-> t, rel |-> r]
           h == AddLink(g, new)
           one == SetToBag({new})
<1>1. new.src = s /\ new.dst = t /\ new.rel = r
  OBVIOUS
<1>2. DOMAIN one = {new} /\ one[new] = 1
  BY DEF SetToBag
<1>3. h.label = g.label /\ h.links = g.links (+) one
  BY DEF AddLink
<1> HIDE DEF new, h, one
<1>4. /\ DOMAIN h.links = DOMAIN g.links \cup {new}
      /\ h.links = [l \in DOMAIN g.links \cup {new} |->
                       (IF l \in DOMAIN g.links THEN g.links[l] ELSE 0)
                         + (IF l \in {new} THEN one[l] ELSE 0)]
  BY <1>2, <1>3 DEF (+)
<1>5. \A l \in DOMAIN g.links : g.links[l] \in Nat /\ g.links[l] > 0
  BY DEF IsGraph, IsABag
<1>6. IsABag(h.links)
  BY <1>2, <1>4, <1>5 DEF IsABag
<1>7. IsGraph(h)
  BY <1>1, <1>3, <1>4, <1>6 DEF IsGraph, BagToSet, Nodes
<1>8. Closed(h)
  BY <1>1, <1>3, <1>4 DEF Closed, BagToSet, Nodes
<1> QED
  BY <1>7, <1>8 DEF h, new

LEMMA VerdictType ==
    ASSUME NEW g, NEW r, NEW m, NEW n
    PROVE  Verdict(g, r, m, n) \in {"valid", "invalid", "KeyError"}
BY DEF Verdict

LEMMA PlanInit == Init => IInv
<1> SUFFICES ASSUME Init PROVE IInv
  OBVIOUS
<1>1. host = EmptyGraph /\ own = EmptyGraph /\ split = FALSE /\ plan = NoPlan
      /\ left = 0 /\ skipped = FALSE /\ verdict = "valid"
  BY DEF Init
<1>2. left \in 0..MaxSteps
  BY <1>1, PlannerAssumption
<1>3. TypeOK
  <2>1. IsGraph(host) /\ IsGraph(own)
    BY <1>1, EmptyFacts
  <2> QED
    BY <1>1, <1>2, <2>1 DEF TypeOK
<1>4. PlanInv /\ VerdictInv
  BY <1>1 DEF PlanInv, VerdictInv
<1>5. NoDanglingLinks
  BY <1>1, EmptyFacts DEF NoDanglingLinks, Closed
<1> QED
  BY <1>3, <1>4, <1>5 DEF IInv

(* Callers and plans while nothing is being executed.                      *)
LEMMA CallStep ==
    ASSUME IInv, left = 0, left' = left, skipped' = skipped, verdict' = verdict,
           split' \in BOOLEAN,
           IsGraph(host') /\ Closed(host'), IsGraph(own') /\ Closed(own'),
           plan' # NoPlan => /\ plan'.rule \in Rule
                             /\ DOMAIN plan'.match = DOMAIN plan'.rule.lhs.nodes
    PROVE  IInv'
<1>1. TypeOK'
  BY DEF IInv, TypeOK
<1>2. NoDanglingLinks'
  BY DEF NoDanglingLinks, Closed
<1>3. PlanInv' /\ VerdictInv'
  BY DEF IInv, PlanInv, VerdictInv
<1> QED
  BY <1>1, <1>2, <1>3 DEF IInv

LEMMA ExecuteKeeps ==
    ASSUME IInv, Execute
    PROVE  IInv'
<1>1. /\ plan # NoPlan /\ plan.rule \in Rule /\ left \in Nat /\ left > 0
      /\ left - 1 \in 0..MaxSteps /\ (left - 1) + 1 = left
  BY PlannerAssumption DEF IInv, TypeOK, PlanInv, Execute, ExecuteStep, SkipStep
<1>2. verdict = "valid" =>
          /\ ~skipped
          /\ Verdict(working, plan.rule, plan.match, (left - 1) + 1) = "valid"
  BY <1>1 DEF IInv, VerdictInv
<1>3. verdict = "valid" =>
          /\ Outcome(working, plan.rule, plan.match) = "ok"
          /\ Verdict(Rewritten(working, plan.rule, plan.match),
                     plan.rule, plan.match, left - 1) = "valid"
  BY <1>1, <1>2, VerdictShift
<1>4. CASE ExecuteStep
  <2> DEFINE h == Rewritten(working, plan.rule, plan.match)
  <2>1. /\ Outcome(working, plan.rule, plan.match) = "ok"
        /\ own' = h /\ split' = TRUE /\ left' = left - 1
        /\ host' = host /\ plan' = plan /\ skipped' = skipped /\ verdict' = verdict
    BY <1>4 DEF ExecuteStep, RewriteTo
  <2>2. working' = h
    BY <2>1 DEF working
  <2>3. IsGraph(h) /\ Closed(h) /\ IsGraph(host) /\ Closed(host)
    BY <1>1, <2>1, GraphFacts, RewriteClosed, RewriteIsGraph
  <2> HIDE DEF h
  <2>4. TypeOK'
    BY <1>1, <2>1, <2>3 DEF IInv, TypeOK
  <2>5. NoDanglingLinks'
    BY <2>1, <2>3 DEF NoDanglingLinks, Closed
  <2>6. PlanInv'
    BY <1>1, <2>1 DEF PlanInv
  <2>7. VerdictInv'
    BY <1>2, <1>3, <2>1, <2>2 DEF VerdictInv, h
  <2> QED
    BY <2>4, <2>5, <2>6, <2>7 DEF IInv
<1>5. CASE SkipStep
  <2>1. /\ Outcome(working, plan.rule, plan.match) # "ok"
        /\ left' = left - 1 /\ skipped' = TRUE
        /\ host' = host /\ own' = own /\ split' = split /\ plan' = plan
        /\ verdict' = verdict
    BY <1>5 DEF SkipStep
  <2>2. verdict' # "valid"
    BY <1>3, <2>1
  <2>3. TypeOK' /\ NoDanglingLinks'
    BY <1>1, <2>1 DEF IInv, TypeOK, NoDanglingLinks
  <2>4. PlanInv' /\ VerdictInv'
    BY <1>1, <2>1, <2>2 DEF PlanInv, VerdictInv
  <2> QED
    BY <2>3, <2>4 DEF IInv
<1> QED
  BY <1>4, <1>5 DEF Execute

LEMMA PlanStep == IInv /\ [Next]_vars => IInv'
<1> SUFFICES ASSUME IInv, [Next]_vars PROVE IInv'
  OBVIOUS
<1>1. /\ IsGraph(host) /\ Closed(host) /\ IsGraph(own) /\ Closed(own)
      /\ IsGraph(working) /\ Closed(working) /\ split \in BOOLEAN
      /\ plan # NoPlan => /\ plan.rule \in Rule
                          /\ DOMAIN plan.match = DOMAIN plan.rule.lhs.nodes
  BY GraphFacts DEF IInv, TypeOK
<1>2. ASSUME NEW n \in BaseId, NEW l \in Label, LearnNode(n, l) PROVE IInv'
  <2>1. /\ left = 0 /\ host' = AddNode(host, n, l) /\ own' = own /\ split' = split
        /\ plan' = plan /\ left' = left /\ skipped' = skipped /\ verdict' = verdict
    BY <1>2 DEF LearnNode
  <2>2. IsGraph(host') /\ Closed(host')
    BY <1>1, <2>1, LearnNodeFacts
  <2> QED
    BY <1>1, <2>1, <2>2, CallStep
<1>3. ASSUME NEW s \in Nodes(host), NEW t \in Nodes(host), NEW r \in Relation,
             LearnLink(s, t, r)
      PROVE  IInv'
  <2>1. /\ left = 0 /\ host' = AddLink(host, [src |-> s, dst |-> t, rel |-> r])
        /\ own' = own /\ split' = split
        /\ plan' = plan /\ left' = left /\ skipped' = skipped /\ verdict' = verdict
    BY <1>3 DEF LearnLink
  <2>2. IsGraph(host') /\ Closed(host')
    BY <1>1, <2>1, LearnLinkFacts
  <2> QED
    BY <1>1, <2>1, <2>2, CallStep
<1>4. ASSUME NEW r \in Rule, NEW m \in Matches(working, r.lhs), RewriteMatched(r, m)
      PROVE  IInv'
  <2>1. /\ left = 0 /\ own' = Rewritten(working, r, m) /\ split' = TRUE
        /\ Outcome(working, r, m) = "ok" /\ host' = host
        /\ plan' = plan /\ left' = left /\ skipped' = skipped /\ verdict' = verdict
    BY <1>4 DEF RewriteMatched, RewriteTo
  <2>2. IsGraph(own') /\ Closed(own')
    BY <1>1, <2>1, RewriteClosed, RewriteIsGraph
  <2> QED
    BY <1>1, <2>1, <2>2, CallStep
<1>5. ASSUME NEW r \in Rule, NEW m \in Matches(working, r.lhs), MakePlan(r, m)
      PROVE  IInv'
  <2>1. /\ left = 0 /\ plan' = [rule |-> r, match |-> m]
        /\ host' = host /\ own' = own /\ split' = split
        /\ left' = left /\ skipped' = skipped /\ verdict' = verdict
    BY <1>5 DEF MakePlan
  <2>2. DOMAIN m = DOMAIN r.lhs.nodes
    BY DEF Matches
  <2>3. plan'.rule = r /\ plan'.match = m
    BY <2>1
  <2> QED
    BY <1>1, <2>1, <2>2, <2>3, CallStep
<1>6. CASE MakeEmptyPlan
  <2>1. /\ left = 0 /\ plan' = NoPlan
        /\ host' = host /\ own' = own /\ split' = split
        /\ left' = left /\ skipped' = skipped /\ verdict' = verdict
    BY <1>6 DEF MakeEmptyPlan
  <2> QED
    BY <1>1, <2>1, CallStep
<1>7. CASE BeginExecution
  <2>1. /\ plan # NoPlan /\ left' = MaxSteps /\ skipped' = FALSE
        /\ verdict' = Verdict(working, plan.rule, plan.match, MaxSteps)
        /\ host' = host /\ own' = own /\ split' = split /\ plan' = plan
    BY <1>7 DEF BeginExecution
  <2>2. working' = working
    BY <2>1 DEF working
  <2>3. TypeOK'
    <3>1. MaxSteps \in 0..MaxSteps
      BY PlannerAssumption
    <3>2. verdict' \in {"valid", "invalid", "KeyError"}
      BY <2>1, VerdictType
    <3> QED
      BY <1>1, <2>1, <3>1, <3>2 DEF TypeOK
  <2>4. NoDanglingLinks'
    BY <2>1 DEF IInv, NoDanglingLinks
  <2>5. PlanInv' /\ VerdictInv'
    BY <2>1, <2>2 DEF PlanInv, VerdictInv
  <2> QED
    BY <2>3, <2>4, <2>5 DEF IInv
<1>8. CASE UNCHANGED vars
  <2>1. /\ host' = host /\ own' = own /\ split' = split /\ plan' = plan
        /\ left' = left /\ skipped' = skipped /\ verdict' = verdict
    BY <1>8 DEF vars
  <2>2. working' = working
    BY <2>1 DEF working
  <2>3. TypeOK' /\ NoDanglingLinks'
    BY <2>1 DEF IInv, TypeOK, NoDanglingLinks
  <2>4. PlanInv' /\ VerdictInv'
    BY <2>1, <2>2 DEF IInv, PlanInv, VerdictInv
  <2> QED
    BY <2>3, <2>4 DEF IInv
<1> QED
  BY <1>2, <1>3, <1>4, <1>5, <1>6, <1>7, <1>8, ExecuteKeeps DEF Next

LEMMA Inductive == Spec => []IInv
BY PlanInit, PlanStep, PTL DEF Spec

(* A rewrite of the planner's rewriter, also one with a match of an older  *)
(* graph, leaves no edge without its end, for all rules and all graphs.    *)
THEOREM NeverDangling == Spec => []NoDanglingLinks
<1>1. IInv => NoDanglingLinks
  BY DEF IInv
<1> QED
  BY <1>1, Inductive, PTL

(* A plan that verify_rewrite_sequence accepts when its execution begins   *)
(* is executed without a skipped step, however many steps it has.          *)
THEOREM VerifiedAlwaysRunsThrough == Spec => []VerifiedRunsThrough
<1>1. IInv => VerifiedRunsThrough
  BY DEF IInv, VerdictInv, VerifiedRunsThrough
<1> QED
  BY <1>1, Inductive, PTL

(* Every rewrite does to nodes and edges what HasEffect says, whatever     *)
(* names are used again.                                                   *)
THEOREM RewritesHaveEffect == Spec => RewriteEffect
<1> DEFINE E == /\ ExecuteStep => HasEffect(working, own', plan.rule, plan.match)
                /\ \A r \in Rule : \A m \in Matches(working, r.lhs) :
                      RewriteMatched(r, m) => HasEffect(working, own', r, m)
<1>1. IInv => [E]_vars
  <2> SUFFICES ASSUME IInv PROVE E
    OBVIOUS
  <2>1. IsGraph(working) /\ Closed(working)
    BY GraphFacts
  <2>2. ASSUME ExecuteStep PROVE HasEffect(working, own', plan.rule, plan.match)
    <3>1. plan.rule \in Rule /\ own' = Rewritten(working, plan.rule, plan.match)
      BY <2>2 DEF IInv, TypeOK, PlanInv, ExecuteStep, RewriteTo
    <3> QED
      BY <2>1, <3>1, RewriteHasEffect
  <2>3. ASSUME NEW r \in Rule, NEW m \in Matches(working, r.lhs), RewriteMatched(r, m)
        PROVE  HasEffect(working, own', r, m)
    <3>1. own' = Rewritten(working, r, m)
      BY <2>3 DEF RewriteMatched, RewriteTo
    <3> QED
      BY <2>1, <3>1, RewriteHasEffect
  <2> QED
    BY <2>2, <2>3
<1>2. Spec => [][E]_vars
  BY <1>1, Inductive, PTL
<1> QED
  BY <1>2 DEF RewriteEffect
=============================================================================
