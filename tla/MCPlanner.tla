----------------------------- MODULE MCPlanner -----------------------------
(***************************************************************************)
(* Instance of Planner for TLC.  Three rules: one changes an edge between  *)
(* two preserved nodes, one consumes a node and makes another beside a     *)
(* preserved one, one forgets a node.                                      *)
(***************************************************************************)
EXTENDS Planner, TLC

CONSTANTS a, b, A, B, p, q

Edge(s, t, r) == [src |-> s, dst |-> t, rel |-> r]

Rename ==
    [lhs |-> [nodes |-> (0 :> A @@ 1 :> B), edges |-> {Edge(0, 1, p)}],
     rhs |-> [nodes |-> (0 :> A @@ 1 :> B), edges |-> {Edge(0, 1, q)}],
     interface |-> {0, 1}]

Consume ==
    [lhs |-> [nodes |-> (0 :> A @@ 1 :> B), edges |-> {Edge(0, 1, p)}],
     rhs |-> [nodes |-> (0 :> A @@ 1 :> B), edges |-> {Edge(1, 0, p)}],
     interface |-> {1}]

Forget ==
    [lhs |-> [nodes |-> (0 :> B), edges |-> {}],
     rhs |-> [nodes |-> [i \in {} |-> B], edges |-> {}],
     interface |-> {}]

MCRule == {Rename, Consume, Forget}
=============================================================================
