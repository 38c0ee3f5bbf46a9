------------------------------ MODULE Planner ------------------------------
(***************************************************************************)
(* NeuroSymbolicPlanner (src/smgp/reasoning/planner.py) and the rewriter it*)
(* owns.  The two start with one graph object; the first rewrite gives the *)
(* rewriter a graph of its own, which the planner never sees, while callers*)
(* go on adding knowledge to the planner's.                                *)
(***************************************************************************)
EXTENDS GraphRewriter

CONSTANTS
    MaxSteps,    \* the planner's max_steps
    NoPlan

ASSUME PlannerAssumption ==
    /\ MaxSteps \in Nat
    /\ \A r \in Rule : NoPlan # r

VARIABLES
    host,        \* planner.graph
    own,         \* rewriter.graph, once it is another object
    split,       \* whether it is
    plan,        \* the plan last made: its rule and match, MaxSteps times
    left,        \* steps execute_plan still has to take
    skipped,     \* whether the execution has skipped a step
    verdict      \* history: verify_rewrite_sequence of the plan when its
                 \* execution began

vars == <<host, own, split, plan, left, skipped, verdict>>

working == IF split THEN own ELSE host

Init ==
    /\ host = EmptyGraph /\ own = EmptyGraph /\ split = FALSE
    /\ plan = NoPlan
    /\ left = 0
    /\ skipped = FALSE
    /\ verdict = "valid"

(* Callers add knowledge to the planner's graph.                           *)
LearnNode(n, l) ==
    /\ left = 0
    /\ host' = AddNode(host, n, l)
    /\ Fits(host')
    /\ UNCHANGED <<own, split, plan, left, skipped, verdict>>

LearnLink(s, t, r) ==
    /\ left = 0
    /\ host' = AddLink(host, [src |-> s, dst |-> t, rel |-> r])
    /\ Fits(host')
    /\ UNCHANGED <<own, split, plan, left, skipped, verdict>>

RewriteTo(g) == own' = g /\ split' = TRUE

(* A caller matches and rewrites with the planner's rewriter.              *)
RewriteMatched(r, m) ==
    /\ left = 0
    /\ m \in Matches(working, r.lhs)
    /\ Outcome(working, r, m) = "ok"
    /\ RewriteTo(Rewritten(working, r, m))
    /\ Fits(own')
    /\ UNCHANGED <<host, plan, left, skipped, verdict>>

(* plan: every round finds the first rule that matches and its first match,*)
(* in a graph that planning does not change: one step over and over.  The  *)
(* order of rules and matches is left open.                                *)
MakePlan(r, m) ==
    /\ left = 0
    /\ m \in Matches(working, r.lhs)
    /\ plan' = [rule |-> r, match |-> m]
    /\ UNCHANGED <<host, own, split, left, skipped, verdict>>

(* _find_path, breadth first along the edges.                              *)
Reached(g, n) ==
    LET step[k \in 0..MaxNodes] ==
          IF k = 0 THEN {n}
          ELSE step[k - 1] \cup
                 {l.dst : l \in {x \in BagToSet(g.links) : x.src \in step[k - 1]}}
    IN  step[MaxNodes]

(* The plan is empty when no rule matches, and when the goal is a path that*)
(* the planner's graph has already.                                        *)
MakeEmptyPlan ==
    /\ left = 0
    /\ \/ \A r \in Rule : Matches(working, r.lhs) = {}
       \/ \E n, k \in Nodes(host) : k \in Reached(host, n)
    /\ plan' = NoPlan
    /\ UNCHANGED <<host, own, split, left, skipped, verdict>>

(* The bound: the graph can take all the steps of the plan.                *)
RoomFor(r) ==
    /\ Cardinality(Nodes(working)) + MaxSteps
         * Cardinality(DOMAIN r.rhs.nodes \ r.interface) <= MaxNodes
    /\ BagCardinality(working.links) + MaxSteps * Cardinality(r.rhs.edges)
         <= MaxLinks

(* A plan may be executed again.                                           *)
BeginExecution ==
    /\ left = 0 /\ plan # NoPlan
    /\ RoomFor(plan.rule)
    /\ left' = MaxSteps
    /\ skipped' = FALSE
    /\ verdict' = Verdict(working, plan.rule, plan.match, MaxSteps)
    /\ UNCHANGED <<host, own, split, plan>>

ExecuteStep ==
    /\ left > 0
    /\ Outcome(working, plan.rule, plan.match) = "ok"
    /\ RewriteTo(Rewritten(working, plan.rule, plan.match))
    /\ left' = left - 1
    /\ UNCHANGED <<host, plan, skipped, verdict>>

(* ValueError and KeyError are swallowed.                                  *)
SkipStep ==
    /\ left > 0
    /\ Outcome(working, plan.rule, plan.match) # "ok"
    /\ left' = left - 1
    /\ skipped' = TRUE
    /\ UNCHANGED <<host, own, split, plan, verdict>>

Execute == ExecuteStep \/ SkipStep

Next ==
    \/ \E n \in BaseId, l \in Label : LearnNode(n, l)
    \/ \E s, t \in Nodes(host), r \in Relation : LearnLink(s, t, r)
    \/ \E r \in Rule : \E m \in Matches(working, r.lhs) :
          RewriteMatched(r, m) \/ MakePlan(r, m)
    \/ MakeEmptyPlan
    \/ BeginExecution
    \/ Execute

Spec == Init /\ [][Next]_vars
-----------------------------------------------------------------------------
IsGraph(g) ==
    /\ \A n \in Nodes(g) : g.label[n] \in Label
    /\ IsABag(g.links)
    /\ \A l \in BagToSet(g.links) : l.rel \in Relation

TypeOK ==
    /\ IsGraph(host) /\ IsGraph(own)
    /\ split \in BOOLEAN
    /\ plan # NoPlan =>
          /\ plan.rule \in Rule
          /\ DOMAIN plan.match = DOMAIN plan.rule.lhs.nodes
    /\ left \in 0..MaxSteps
    /\ skipped \in BOOLEAN
    /\ verdict \in {"valid", "invalid", "KeyError"}

(* No rewrite leaves an edge without its end, also when the match is one of*)
(* an older graph and its nodes were deleted since.                        *)
NoDanglingLinks ==
    \A g \in {host, own} : \A l \in BagToSet(g.links) :
        {l.src, l.dst} \subseteq Nodes(g)

(* What a rewrite does, whether its match still holds or not and whatever  *)
(* names are used again: the nodes outside its deleted part stay, with     *)
(* every edge between them and in their number, R's new nodes are there,   *)
(* and the only other edges are those of R, one for each.                  *)
Copies(l, links) == IF BagIn(l, links) THEN links[l] ELSE 0

HasEffect(g, h, r, m) ==
    LET ids == RhsIds(g, r, m)
        rest == Nodes(g) \ Deleted(r, m)
        kept(l) == IF {l.src, l.dst} \subseteq rest THEN Copies(l, g.links) ELSE 0
        new(l) == Cardinality({e \in r.rhs.edges : Image(ids, e) = l})
    IN  /\ Nodes(h) = rest \cup {ids[i] : i \in DOMAIN ids \ r.interface}
        /\ \A l \in BagToSet(g.links) \cup BagToSet(h.links) :
              Copies(l, h.links) = kept(l) + new(l)

RewriteEffect ==
    [][/\ ExecuteStep => HasEffect(working, own', plan.rule, plan.match)
       /\ \A r \in Rule : \A m \in Matches(working, r.lhs) :
             RewriteMatched(r, m) => HasEffect(working, own', r, m)]_vars

(* A sequence that verify_rewrite_sequence accepts is executed without a   *)
(* skipped step.                                                           *)
VerifiedRunsThrough == verdict = "valid" => ~skipped
=============================================================================
