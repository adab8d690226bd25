---------------------------- MODULE MCAgentTurns ----------------------------
(* Two texts and two presses of Stop over one connection, of either client. *)
EXTENDS AgentTurns
=============================================================================
