-------------------------- MODULE MCAgentViewStore --------------------------
(* Claude's sessions: the first version lists one that is starting.        *)
EXTENDS AgentViewStore

CONSTANTS claude, codex
ClaudeStarts == {<<claude, 1>>}
=============================================================================
