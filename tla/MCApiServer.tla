---------------------------- MODULE MCApiServer ----------------------------
(* Instances of ApiServer for TLC.                                         *)
EXTENDS ApiServer

CONSTANTS n1, n2, n3, likes, t1

(* Two facts that share a node, so that a prune may drop one or both.      *)
MCFact == {[src |-> n1, dst |-> n2, rel |-> likes],
           [src |-> n2, dst |-> n3, rel |-> likes]}

(* One fact, and two nodes.                                                *)
MCOneFact == {[src |-> n1, dst |-> n2, rel |-> likes]}
=============================================================================
