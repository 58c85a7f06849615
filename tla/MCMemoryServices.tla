-------------------------- MODULE MCMemoryServices --------------------------
(* Bounded instances of MemoryServices for TLC.                            *)
EXTENDS MemoryServices, TLC

MCContents == {"tea", "coffee"}
MCTimes == {1, 2}
MCFacts == Fact

AutomaticFact(content, t) ==
    [content |-> content, source |-> "AUTOMATIC_EXPLICIT_FACT", factTime |-> t]

Named1 == [key |-> "drink", fact |-> AutomaticFact("tea", 1)]
Named2 == [key |-> "drink", fact |-> AutomaticFact("coffee", 2)]
Unnamed == [key |-> NoKey, fact |-> AutomaticFact("tea", 1)]
MCCandidates == {Named1, Named2, Unnamed}

NoExpiry == AllOperations \ {"expire", "reactivate"}

Symmetry == Permutations(Clients) \cup Permutations(Memories)
=============================================================================
