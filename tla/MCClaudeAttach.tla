--------------------------- MODULE MCClaudeAttach ---------------------------
(* A Rename beside an Open of the same session, which others rename too.   *)
EXTENDS ClaudeAttach, TLC

CONSTANTS a, b
MCName == [r \in Renames |-> a]
=============================================================================
