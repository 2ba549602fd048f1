------------------------- MODULE MCConversationFSM --------------------------
(* Model-checking instance of ConversationFSM. *)
EXTENDS ConversationFSM
=============================================================================
