------------------------ MODULE MCEventSourcedGraph ------------------------
(***************************************************************************)
(* Instance of EventSourcedGraph for TLC: two nodes, three attributes in   *)
(* two dimensions, one of which (an attribute with a real-valued vector or *)
(* a non-JSON property) does not survive a round trip unchanged.           *)
(***************************************************************************)
EXTENDS EventSourcedGraph, TLC

CONSTANTS plain, rich, small

MCRoundTrip == [a \in Attr |-> IF a = rich THEN plain ELSE a]

MCDimOf == [a \in Attr |-> IF a = small THEN 64 ELSE 10000]
=============================================================================
