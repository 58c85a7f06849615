----------------------------- MODULE MCEventBus -----------------------------
(* Bounded instances of EventBus for TLC.                                  *)
EXTENDS EventBus, TLC

TwoTypes == [e \in Events |-> IF e = 2 THEN "other" ELSE "fact"]
OneType == [e \in Events |-> "fact"]

Symmetry == Permutations(Handlers) \cup Permutations(Closers)
=============================================================================
