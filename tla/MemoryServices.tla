--------------------------- MODULE MemoryServices ---------------------------
(***************************************************************************)
(* The callers of the repository, one per client: MemoryGovernance (the    *)
(* user edits or deletes a memory), MemoryLearningService with its         *)
(* resolver (a chat turn brings a candidate fact) and                      *)
(* MemoryRetentionService (working context expires).                       *)
(*                                                                         *)
(* Each reads in sessions of its own, decides, and only then enters a      *)
(* mutating repository call, which reads again: the decision is carried by *)
(* the revision number it asks for.  A request that decides to do nothing  *)
(* (not found, deleted, duplicate, kept, blocked) changes no state and is  *)
(* a stuttering step.                                                      *)
(***************************************************************************)
EXTENDS MemoryRepository, MemoryPolicies

CONSTANTS
    Candidates,     \* the eligible facts a turn may bring, with an identity key or NoKey
    NoCandidate,
    Absent

ASSUME ServicesAssumption ==
    /\ Payload = Fact
    /\ Candidates \subseteq [key : Keys \cup {NoKey}, fact : Fact]
    /\ \A k \in Candidates : k.fact.source = "AUTOMATIC_EXPLICIT_FACT"
    /\ NoCandidate \notin Candidates
    /\ Absent \notin [number : Number, lifecycle : Lifecycle,
                      payload : Payload \cup {NoPayload}]

VARIABLE task   \* the resolution each learner is in the middle of

servicesVars == <<memoryRows, revisionRows, call, task>>

Task == [step : {"idle", "list", "scan"}, candidate : Candidates \cup {NoCandidate},
         todo : SUBSET Memories]

NoTask == [step |-> "idle", candidate |-> NoCandidate, todo |-> {}]

ServicesTypeOK == TypeOK /\ task \in [Clients -> Task]

ServicesInit == Init /\ task = [c \in Clients |-> NoTask]

Free(c) == call[c].step = "idle" /\ task[c].step = "idle"

-----------------------------------------------------------------------------
(* Governance: inspect (get_memory, then list_revisions), check, write.    *)

\* deleted, or otherwise not ACTIVE: the request is refused
GovernableBug(rev) == rev.lifecycle # "DELETED"
Governable(rev) == rev.lifecycle = "ACTIVE"

\* An edit keeps occurred_at when it is known, else the fact is as of the wall clock,
\* which may have been set back: any time.
Edit(c) ==
    \E m \in Memories, content \in Contents, t \in Times :
      \E r \in LatestRows(revisionRows, m) :
        LET rev == revisionRows[r] IN
        /\ Free(c)
        /\ Governable(rev)
        /\ Begin(c, "replace", m, rev.number + 1,
                 [content |-> content, source |-> "USER_EDIT", factTime |-> t], NoKey)
        /\ UNCHANGED task

Delete(c) ==
    \E m \in Memories : \E r \in LatestRows(revisionRows, m) :
        /\ Free(c)
        /\ Governable(revisionRows[r])
        /\ Begin(c, "delete", m, revisionRows[r].number + 1, NoPayload, NoKey)
        /\ UNCHANGED task

-----------------------------------------------------------------------------
(* Retention: one round of apply_due_expirations.  Whether the ACTIVE      *)
(* revision is due is left open.                                           *)

ExpireDue(c) ==
    \E m \in Memories : \E r \in ActiveRows(revisionRows, m) :
        /\ Free(c)
        /\ Begin(c, "expire", m, revisionRows[r].number, NoPayload, NoKey)
        /\ UNCHANGED task

-----------------------------------------------------------------------------
(* Learning: resolve the candidate, then act on what was found.            *)

Named(key) == {m \in DOMAIN memoryRows : key # NoKey /\ memoryRows[m] = key}

MayCorrectBug(rev, fact) == ~SameContent(fact, rev.payload)
MayCorrect(rev, fact) == ~SameContent(fact, rev.payload) /\ Replaces(rev.payload, fact)

\* find_memory_by_identity finds the memory (which keeps its key for good), and
\* the latest revision decides: an exact duplicate, a deleted memory or a lost
\* conflict end the turn here.
LearnExisting(c) ==
    \E k \in Candidates : \E m \in Named(k.key) : \E r \in LatestRows(revisionRows, m) :
        LET rev == revisionRows[r] IN
        /\ Free(c)
        /\ \/ /\ rev.lifecycle = "EXPIRED"
              /\ Begin(c, "reactivate", m, rev.number + 1, k.fact, NoKey)
           \/ /\ rev.lifecycle = "ACTIVE"
              /\ MayCorrect(rev, k.fact)
              /\ Begin(c, "replace", m, rev.number + 1, k.fact, NoKey)
        /\ UNCHANGED task

\* No memory has the key (or the candidate has none): look for the same content.
LearnUnnamed(c) ==
    \E k \in Candidates :
        /\ Free(c)
        /\ Named(k.key) = {}
        /\ task' = [task EXCEPT ![c] = [step |-> "list", candidate |-> k, todo |-> {}]]
        /\ UNCHANGED vars

\* list_memories: a keyed candidate is not compared with keyed memories.
ListMemories(c) ==
    LET keyed == task[c].candidate.key # NoKey IN
    /\ task[c].step = "list"
    /\ task' = [task EXCEPT
                   ![c].step = "scan",
                   ![c].todo = {m \in DOMAIN memoryRows : keyed => memoryRows[m] = NoKey}]
    /\ UNCHANGED vars

Duplicates(m, candidate) ==
    {r \in ActiveRows(revisionRows, m) :
        SameContent(candidate.fact, revisionRows[r].payload)}

\* get_active_revision of the next memory listed (they come in the order of their
\* random ids, so in any order), not an exact duplicate
ScanOther(c) ==
    \E m \in task[c].todo :
        /\ task[c].step = "scan"
        /\ Duplicates(m, task[c].candidate) = {}
        /\ task' = [task EXCEPT ![c].todo = @ \ {m}]
        /\ UNCHANGED vars

\* an exact duplicate: its memory adopts the candidate's key, if it has one
ScanDuplicate(c) ==
    \E m \in task[c].todo :
        LET k == task[c].candidate IN
        /\ task[c].step = "scan"
        /\ Duplicates(m, k) # {}
        /\ task' = [task EXCEPT ![c] = NoTask]
        /\ IF k.key # NoKey THEN Begin(c, "adopt", m, 1, NoPayload, k.key)
                            ELSE UNCHANGED vars

\* nothing found: a new memory with a fresh random id
LearnNew(c) ==
    \E m \in Memories \ DOMAIN memoryRows :
        LET k == task[c].candidate IN
        /\ task[c].step = "scan"
        /\ task[c].todo = {}
        /\ \A d \in Clients : call[d].memory # m
        /\ task' = [task EXCEPT ![c] = NoTask]
        /\ Begin(c, "create", m, 1, k.fact, k.key)

\* a read fails, or the turn is cancelled
Abandon(c) ==
    /\ task[c].step # "idle"
    /\ task' = [task EXCEPT ![c] = NoTask]
    /\ UNCHANGED vars

ServicesNext ==
    \E c \in Clients :
        \/ Edit(c)
        \/ Delete(c)
        \/ ExpireDue(c)
        \/ LearnExisting(c)
        \/ LearnUnnamed(c)
        \/ ListMemories(c)
        \/ ScanOther(c)
        \/ ScanDuplicate(c)
        \/ LearnNew(c)
        \/ Abandon(c)
        \/ Step(c) /\ UNCHANGED task

ServicesSpec == ServicesInit /\ [][ServicesNext]_servicesVars

-----------------------------------------------------------------------------
(* What the services promise.                                              *)

\* The revision a memory shows, as the lifecycle specification sees it
Shown(m) ==
    IF RowsOf(revisionRows, m) = {}
    THEN Absent
    ELSE LET rev == revisionRows[CHOOSE r \in LatestRows(revisionRows, m) : TRUE] IN
         [number |-> rev.number, lifecycle |-> rev.lifecycle, payload |-> rev.payload]

latest == [m \in Memories |-> Shown(m)]

Promise == INSTANCE MemoryLifecycle

\* Every committed request is one atomic step of the lifecycle, decided on the
\* revision it replaces, although learning and editing read, decide and write in
\* separate sessions.
RefinesLifecycle == Promise!LifecycleSpec

\* What the user wrote is replaced by the user alone: learning never supersedes a
\* USER_EDIT, however late it decides.
UserEditsOutrankLearning ==
    \A r, s \in DOMAIN revisionRows :
        /\ revisionRows[r].memory = revisionRows[s].memory
        /\ revisionRows[s].number = revisionRows[r].number + 1
        /\ revisionRows[r].lifecycle = "SUPERSEDED"
        /\ revisionRows[r].payload.source = "USER_EDIT"
        => revisionRows[s].payload.source = "USER_EDIT"

\* Automatic learning never reverses a user's deletion.
LearningKeepsDeletions ==
    [][\A m \in Memories : Deleted(revisionRows, m) =>
          \A r \in ActiveRows(revisionRows', m) :
              revisionRows'[r].payload.source # "AUTOMATIC_EXPLICIT_FACT"]_revisionRows
=============================================================================
