---------------------------- MODULE MCConversations ----------------------------
(* Model-checking instance of Conversations.                                 *)
EXTENDS Conversations
=============================================================================
