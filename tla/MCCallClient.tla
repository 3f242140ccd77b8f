---------------------------- MODULE MCCallClient ----------------------------
(* Two calls of two conversations, one of them a group's. *)
EXTENDS CallClient
CONSTANTS dm, gr
TwoConversations == [c \in Calls |-> c]
=============================================================================
