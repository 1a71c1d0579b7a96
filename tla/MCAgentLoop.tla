---------------------------- MODULE MCAgentLoop -----------------------------
(* Instances of AgentLoop for TLC: what the model asks for. *)
EXTENDS AgentLoop

Approvals == {"safe", "sensitive"}
SearchAndSensitive == {"search", "sensitive"}
=============================================================================
