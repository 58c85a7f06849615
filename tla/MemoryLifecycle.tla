--------------------------- MODULE MemoryLifecycle ---------------------------
(***************************************************************************)
(* What the memory system promises its users, one atomic step per request: *)
(* a memory is learned, corrected, learned anew after it expired, expired  *)
(* or deleted, and each step is decided on the latest revision it changes. *)
(***************************************************************************)
EXTENDS MemoryPolicies

CONSTANTS Memories, NoPayload, MaxRevision, Absent

VARIABLE latest     \* the latest revision of each memory, or Absent

Latest == [number : 1..MaxRevision, lifecycle : {"ACTIVE", "EXPIRED", "DELETED"},
           payload : Fact \cup {NoPayload}]

LifecycleInit == latest = [m \in Memories |-> Absent]

Learned(rev) == rev.lifecycle = "ACTIVE" /\ rev.payload.source = "AUTOMATIC_EXPLICIT_FACT"
UserEdited(rev) == rev.lifecycle = "ACTIVE" /\ rev.payload.source = "USER_EDIT"

(***************************************************************************)
(* What one request may turn a memory's latest revision into.              *)
(***************************************************************************)
Follows(old, new) == new.number = old.number + 1

Learn(new) == new.number = 1 /\ Learned(new)

\* Learning corrects a memory only where the conflict policy lets it.
Correct(old, new) ==
    /\ old.lifecycle = "ACTIVE"
    /\ Follows(old, new) /\ Learned(new)
    /\ Replaces(old.payload, new.payload)

LearnAnew(old, new) ==
    /\ old.lifecycle = "EXPIRED"
    /\ Follows(old, new) /\ Learned(new)

\* An edit is of an ACTIVE memory; one that expires meanwhile is edited all the same.
EditByUser(old, new) ==
    /\ old.lifecycle \in {"ACTIVE", "EXPIRED"}
    /\ Follows(old, new) /\ UserEdited(new)

Expire(old, new) ==
    /\ old.lifecycle = "ACTIVE"
    /\ new = [old EXCEPT !.lifecycle = "EXPIRED"]

DeleteByUser(old, new) ==
    /\ old.lifecycle = "ACTIVE"
    /\ Follows(old, new) /\ new.lifecycle = "DELETED" /\ new.payload = NoPayload

Moves(old, new) ==
    \/ Correct(old, new)
    \/ LearnAnew(old, new)
    \/ EditByUser(old, new)
    \/ Expire(old, new)
    \/ DeleteByUser(old, new)

LifecycleNext ==
    \E m \in Memories :
        LET old == latest[m]
            new == latest'[m] IN
        /\ new # old /\ new \in Latest
        /\ IF old = Absent THEN Learn(new) ELSE Moves(old, new)
        /\ latest' = [latest EXCEPT ![m] = new]

LifecycleSpec == LifecycleInit /\ [][LifecycleNext]_latest
=============================================================================
