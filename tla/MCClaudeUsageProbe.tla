------------------------ MODULE MCClaudeUsageProbe ------------------------
(* Two agentsctl processes; two calls in the second may share a refresh.  *)
EXTENDS ClaudeUsageProbe

CONSTANTS a1, a2

MCAgents  == {a1, a2}
MCCallers == 1..3
MCAgentOf == [c \in MCCallers |-> IF c = 1 THEN a1 ELSE a2]
MCMortal  == {a1}
MCLimits  == {{"five"}}
============================================================================
