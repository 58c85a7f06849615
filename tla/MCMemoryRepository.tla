------------------------- MODULE MCMemoryRepository -------------------------
(* Bounded instances of MemoryRepository for TLC.                          *)
EXTENDS MemoryRepository, TLC

KeySymmetry ==
    Permutations(Clients) \cup Permutations(Memories) \cup Permutations(Keys)
=============================================================================
