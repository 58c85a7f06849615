---------------------------- MODULE MCAgentClient ----------------------------
(* Bounded instances of AgentClient for TLC.                               *)
EXTENDS AgentClient, TLC

Symmetry == Permutations(Requests)
=============================================================================
