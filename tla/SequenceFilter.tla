--------------------------- MODULE SequenceFilter ---------------------------
(***************************************************************************)
(* Removal from an ordered dictionary, as the graphs of networkx keep      *)
(* their nodes: the keys that stay keep their order.                       *)
(***************************************************************************)
EXTENDS Naturals, Sequences

(* s without its elements in X: a function, and not SelectSeq, because the *)
(* proofs unfold it.                                                       *)
Leaving(s, X) ==
    LET kept[i \in 0..Len(s)] ==
            IF i = 0 THEN <<>>
            ELSE IF s[i] \in X THEN kept[i - 1]
            ELSE Append(kept[i - 1], s[i])
    IN  kept[Len(s)]
=============================================================================
