---------------------------- MODULE MCAgentRuntime ----------------------------
(* Small instances of AgentRuntime for TLC.                                *)
EXTENDS AgentRuntime

CONSTANTS c1, c2
=============================================================================
