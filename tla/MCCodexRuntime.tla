--------------------------- MODULE MCCodexRuntime ---------------------------
EXTENDS CodexRuntime, TLC
Symmetry == Permutations(Threads \ HiddenThreads)
=============================================================================
