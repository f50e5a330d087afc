---------------------------- MODULE MCAgentPush ----------------------------
(***************************************************************************)
(* The instance of AgentPush for TLC: a key with a template and one with   *)
(* an empty template, counted in two buckets, and a backlog with room for  *)
(* one of them.                                                            *)
(***************************************************************************)
EXTENDS AgentPush

===============================================================================
