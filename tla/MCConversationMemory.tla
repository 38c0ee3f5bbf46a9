------------------------ MODULE MCConversationMemory ------------------------
(***************************************************************************)
(* Instance of ConversationMemory for TLC: four turns over all sessions,   *)
(* two of them recent, and one entity for facts.                           *)
(***************************************************************************)
EXTENDS ConversationMemory, TLC
=============================================================================
