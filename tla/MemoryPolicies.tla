--------------------------- MODULE MemoryPolicies ---------------------------
(***************************************************************************)
(* The pure rules of the memory domain: which revision wins when two of    *)
(* them state the same fact, and when a candidate only repeats one.        *)
(***************************************************************************)
EXTENDS Integers

CONSTANTS
    Contents,       \* the texts of a memory, equal when str.strip makes them equal
    Times           \* the instants a fact may be from

ASSUME TimesAssumption == Times \subseteq Nat

Source == {"USER_EDIT", "USER_EXPLICIT", "AUTOMATIC_EXPLICIT_FACT", "SYSTEM_OBSERVED"}

\* Content, source and fact time (occurred_at, or recorded_at when it is unknown)
Fact == [content : Contents, source : Source, factTime : Times]

Authority == [s \in Source |->
    CASE s = "USER_EDIT" -> 4
      [] s = "USER_EXPLICIT" -> 3
      [] s = "AUTOMATIC_EXPLICIT_FACT" -> 2
      [] s = "SYSTEM_OBSERVED" -> 1]

\* MemoryConflictPolicy.decide returns REPLACE
Replaces(current, incoming) ==
    \/ Authority[incoming.source] > Authority[current.source]
    \/ /\ Authority[incoming.source] = Authority[current.source]
       /\ incoming.factTime > current.factTime

\* The resolver's exact-duplicate test on an ACTIVE revision with content
SameContent(candidate, fact) == candidate.content = fact.content
=============================================================================
