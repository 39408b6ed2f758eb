-------------------------- MODULE MCClaudeCatalog --------------------------
(* Two overlapping Lists of one process beside users of others.            *)
EXTENDS ClaudeCatalog, TLC

MCActivities == {"working", "done"}
MCTimes == {"created", "process"}
MCClients == Lists \cup Users
MCSymmetry == Permutations(Lists)
============================================================================
