---------------------------- MODULE MCMemoryView ----------------------------
(* A bounded instance of MemoryView for TLC, and those of the pure rules   *)
(* behind its requests and its memories.                                   *)
EXTENDS MemoryView, MCMemoryRules, FiniteSets

MCTimes == {1}

\* At most one write whose caller has given up is still on its way.
OneLateWrite == Cardinality(late) <= 1

Symmetry == Permutations(Memories)
=============================================================================
