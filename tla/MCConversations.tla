-------------------------- MODULE MCConversations --------------------------
(***************************************************************************)
(* Two users of a group chat, a named agent that a restart may take away,  *)
(* two jobs and the saved workflow they may name.                          *)
(***************************************************************************)
EXTENDS Conversations

CONSTANTS ada, bob, chat, coder, main, daily, weekly, digest, source

MCDeploys == {{}, {coder}}
=============================================================================
