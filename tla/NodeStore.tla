----------------------------- MODULE NodeStore -----------------------------
(***************************************************************************)
(* What a node store promises, whatever lies behind it: a map from node    *)
(* ids to attributes, in which add_node stores a value under one id,       *)
(* remove_node forgets one id, and nothing else changes a value.           *)
(***************************************************************************)
CONSTANTS NodeId, Attr, Absent

VARIABLE attr

TypeOK == attr \in [NodeId -> Attr \cup {Absent}]

Init == attr = [n \in NodeId |-> Absent]

Put(n, a) == attr' = [attr EXCEPT ![n] = a]

Delete(n) == attr[n] # Absent /\ attr' = [attr EXCEPT ![n] = Absent]

Next ==
    \/ \E n \in NodeId, a \in Attr : Put(n, a)
    \/ \E n \in NodeId : Delete(n)

Spec == Init /\ [][Next]_attr
=============================================================================
