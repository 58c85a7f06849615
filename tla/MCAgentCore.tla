----------------------------- MODULE MCAgentCore -----------------------------
(* Bounded instances of AgentCore for TLC, and the errors of its provider. *)
EXTENDS AgentCore, ProviderErrors

\* two memories of one domain, so that a limit of one leaves one out
MCMemories == {"global1", "global2", "own", "foreign"}
MCScope == [m \in MCMemories |->
    IF m \in {"own", "foreign"} THEN m ELSE "global"]

MCRequests == {[kind |-> "delete", memory |-> "global1"], [kind |-> "use", memory |-> "own"]}

MCDatabases == {[m \in MCMemories |-> IF m = "own" THEN "absent" ELSE "active"]}

\* what an HTTP status may be
MCStatuses == 100..599

ASSUME NoClauseIsShadowed
ASSUME EveryFailureIsNamed(MCStatuses)
ASSUME CodesTellRetryable
ASSUME CodesAreUsed(MCStatuses)
=============================================================================
