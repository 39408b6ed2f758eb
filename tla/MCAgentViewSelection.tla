------------------------ MODULE MCAgentViewSelection ------------------------
EXTENDS AgentViewSelection

CONSTANTS d1, d2

MCDirectories == {d1, d2}
MCFirstDirs == <<d1, d2>>
=============================================================================
