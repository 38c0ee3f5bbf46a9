---------------------------- MODULE MCSmgpCore ----------------------------
(***************************************************************************)
(* Instance of SmgpCore for TLC: for every engine the instructions that    *)
(* take its state machine through all its branches.                        *)
(***************************************************************************)
EXTENDS SmgpCore

Do(e, subs) == [engine : {e}, sub : subs, irq : {TRUE}]

MCInstruction ==
    {Nop} \cup Do(SPECTRAL, {0}) \cup Do(HD, {0, 1, 5})
          \cup Do(TOPOLOGY, {0, 2}) \cup Do(REWRITE, {0, 1})
=============================================================================
