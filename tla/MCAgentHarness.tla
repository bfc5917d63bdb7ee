--------------------------- MODULE MCAgentHarness ---------------------------
(* AgentHarness with a few nodes and calls.                                *)
EXTENDS AgentHarness
=============================================================================
