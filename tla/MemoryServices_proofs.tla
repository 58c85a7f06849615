------------------------ MODULE MemoryServices_proofs ------------------------
(***************************************************************************)
(* Proofs about MemoryServices for any number of memories, callers,        *)
(* candidates and revisions.                                               *)
(***************************************************************************)
EXTENDS MemoryServices, MemoryRepository_proofs

-----------------------------------------------------------------------------
(* The services only act through the repository.                           *)

\* A learner that is in the middle of a resolution has a candidate.
TasksHaveCandidates ==
    \A c \in Clients : task[c].step # "idle" => task[c].candidate \in Candidates

ServicesTyped == ServicesTypeOK /\ TasksHaveCandidates

\* What a request passes to the repository are arguments the repository takes, so a
\* step of the services is one of the repository, or leaves it alone.
LEMMA ServicesStepRepository ==
    ServicesTyped /\ [ServicesNext]_servicesVars => [Next]_vars
  <1> SUFFICES ASSUME ServicesTyped, [ServicesNext]_servicesVars PROVE [Next]_vars
    OBVIOUS
  <1>1. CASE UNCHANGED servicesVars
    BY <1>1 DEF servicesVars, vars
  <1>2. ASSUME NEW c \in Clients, NEW op, NEW m \in Memories, NEW n,
               NEW p \in Payload \cup {NoPayload}, NEW key \in Keys \cup {NoKey},
               Begin(c, op, m, n, p, key)
        PROVE  Next
    <2>1. op \in Operations /\ n \in Number
      BY <1>2 DEF Begin
    <2> QED BY <1>2, <2>1 DEF Next, BeginAny
  <1>3. ASSUME NEW m, RowsOf(revisionRows, m) # {} PROVE m \in Memories
    BY <1>3 DEF ServicesTyped, ServicesTypeOK, TypeOK, RowsOf, Revision
  <1>4. DOMAIN memoryRows \subseteq Memories
    BY DEF ServicesTyped, ServicesTypeOK, TypeOK
  <1>5. ASSUME NEW c \in Clients, Edit(c) PROVE Next
    <2>1. PICK m \in Memories, content \in Contents, t \in Times,
               r \in DOMAIN revisionRows :
              Begin(c, "replace", m, revisionRows[r].number + 1,
                    [content |-> content, source |-> "USER_EDIT", factTime |-> t], NoKey)
      BY <1>5 DEF Edit, LatestRows, RowsOf
    <2>2. [content |-> content, source |-> "USER_EDIT", factTime |-> t] \in Payload
      BY ServicesAssumption DEF Fact, Source
    <2> QED BY <1>2, <2>1, <2>2
  <1>6. ASSUME NEW c \in Clients, Delete(c) PROVE Next
    BY <1>2, <1>6 DEF Delete
  <1>7. ASSUME NEW c \in Clients, ExpireDue(c) PROVE Next
    BY <1>2, <1>7 DEF ExpireDue
  <1>8. ASSUME NEW c \in Clients, LearnExisting(c) PROVE Next
    <2>1. PICK k \in Candidates, m \in DOMAIN memoryRows, op \in {"reactivate", "replace"},
               r \in DOMAIN revisionRows :
              Begin(c, op, m, revisionRows[r].number + 1, k.fact, NoKey)
      BY <1>8 DEF LearnExisting, Named, LatestRows, RowsOf
    <2>2. k.fact \in Payload /\ m \in Memories
      BY <1>4, ServicesAssumption
    <2> QED BY <1>2, <2>1, <2>2
  <1>9. ASSUME NEW c \in Clients, ScanDuplicate(c) PROVE [Next]_vars
    <2>1. PICK m \in task[c].todo :
              /\ task[c].step = "scan"
              /\ \/ Begin(c, "adopt", m, 1, NoPayload, task[c].candidate.key)
                 \/ UNCHANGED vars
      BY <1>9 DEF ScanDuplicate
    <2>2. m \in Memories /\ task[c].candidate.key \in Keys \cup {NoKey}
      BY <2>1, ServicesAssumption DEF ServicesTyped, ServicesTypeOK, Task, TasksHaveCandidates
    <2> QED BY <1>2, <2>1, <2>2
  <1>10. ASSUME NEW c \in Clients, LearnNew(c) PROVE Next
    <2>1. PICK m \in Memories :
              /\ task[c].step = "scan"
              /\ Begin(c, "create", m, 1, task[c].candidate.fact, task[c].candidate.key)
      BY <1>10 DEF LearnNew
    <2>2. /\ task[c].candidate.key \in Keys \cup {NoKey}
          /\ task[c].candidate.fact \in Payload
      BY <2>1, ServicesAssumption DEF ServicesTyped, TasksHaveCandidates
    <2> QED BY <1>2, <2>1, <2>2
  <1>11. ASSUME NEW c \in Clients, Step(c) PROVE Next
    BY <1>11 DEF Next
  <1>12. ASSUME NEW c \in Clients,
               LearnUnnamed(c) \/ ListMemories(c) \/ ScanOther(c) \/ Abandon(c)
         PROVE  UNCHANGED vars
    BY <1>12 DEF LearnUnnamed, ListMemories, ScanOther, Abandon
  <1> QED BY <1>1, <1>5, <1>6, <1>7, <1>8, <1>9, <1>10, <1>11, <1>12 DEF ServicesNext

\* Learners keep their tasks well typed, and the repository the rest.
LEMMA ServicesTypeStep ==
    ServicesTyped /\ [ServicesNext]_servicesVars => ServicesTyped'
  <1> SUFFICES ASSUME ServicesTyped, [ServicesNext]_servicesVars PROVE ServicesTyped'
    OBVIOUS
  <1>1. TypeOK'
    BY ServicesStepRepository, TypeStep DEF ServicesTyped, ServicesTypeOK
  <1>2. ASSUME UNCHANGED task PROVE ServicesTyped'
    BY <1>1, <1>2 DEF ServicesTyped, ServicesTypeOK, TasksHaveCandidates
  <1>3. ASSUME NEW c \in Clients, NEW t \in Task, t.step # "idle" => t.candidate \in Candidates,
               task' = [task EXCEPT ![c] = t]
        PROVE  ServicesTyped'
    BY <1>1, <1>3 DEF ServicesTyped, ServicesTypeOK, TasksHaveCandidates
  <1>4. NoTask \in Task /\ NoTask.step = "idle"
    BY DEF NoTask, Task
  <1>5. CASE UNCHANGED servicesVars
    BY <1>2, <1>5 DEF servicesVars
  <1>6. ASSUME NEW c \in Clients,
               \/ Edit(c) \/ Delete(c) \/ ExpireDue(c) \/ LearnExisting(c)
               \/ Step(c) /\ UNCHANGED task
        PROVE  ServicesTyped'
    BY <1>2, <1>6 DEF Edit, Delete, ExpireDue, LearnExisting
  <1>7. ASSUME NEW c \in Clients, ScanDuplicate(c) \/ LearnNew(c) \/ Abandon(c)
        PROVE  ServicesTyped'
    BY <1>3, <1>4, <1>7 DEF ScanDuplicate, LearnNew, Abandon
  <1>8. ASSUME NEW c \in Clients, LearnUnnamed(c) PROVE ServicesTyped'
    <2>1. PICK k \in Candidates :
              task' = [task EXCEPT ![c] = [step |-> "list", candidate |-> k, todo |-> {}]]
      BY <1>8 DEF LearnUnnamed
    <2>2. [step |-> "list", candidate |-> k, todo |-> {}] \in Task
      BY DEF Task
    <2> QED BY <1>3, <2>1, <2>2
  <1>9. ASSUME NEW c \in Clients, ListMemories(c) PROVE ServicesTyped'
    <2>1. PICK todo \in SUBSET Memories :
              /\ task[c].step = "list"
              /\ task' = [task EXCEPT ![c] = [task[c] EXCEPT !.step = "scan", !.todo = todo]]
      BY <1>1, <1>9 DEF ListMemories, ServicesTyped, ServicesTypeOK, TypeOK
    <2>2. /\ [task[c] EXCEPT !.step = "scan", !.todo = todo] \in Task
          /\ [task[c] EXCEPT !.step = "scan", !.todo = todo].candidate \in Candidates
      BY <2>1 DEF ServicesTyped, ServicesTypeOK, TasksHaveCandidates, Task
    <2> QED BY <1>3, <2>1, <2>2
  <1>10. ASSUME NEW c \in Clients, ScanOther(c) PROVE ServicesTyped'
    <2>1. PICK m \in task[c].todo :
              /\ task[c].step = "scan"
              /\ task' = [task EXCEPT ![c] = [task[c] EXCEPT !.todo = @ \ {m}]]
      BY <1>10 DEF ScanOther
    <2>2. /\ [task[c] EXCEPT !.todo = @ \ {m}] \in Task
          /\ [task[c] EXCEPT !.todo = @ \ {m}].candidate \in Candidates
      BY <2>1 DEF ServicesTyped, ServicesTypeOK, TasksHaveCandidates, Task
    <2> QED BY <1>3, <2>1, <2>2
  <1> QED BY <1>5, <1>6, <1>7, <1>8, <1>9, <1>10 DEF ServicesNext

\* Nobody is in the middle of anything when the services start.
LEMMA ServicesTypeInit == ServicesInit => ServicesTyped
  BY TypeInit DEF ServicesInit, ServicesTyped, ServicesTypeOK, TasksHaveCandidates,
                  NoTask, Task

\* Every reachable state of the store and its callers is well typed.
THEOREM ServicesTypeCorrect == ServicesSpec => []ServicesTypeOK
  <1>1. ServicesTyped => ServicesTypeOK
    BY DEF ServicesTyped
  <1> QED BY <1>1, ServicesTypeInit, ServicesTypeStep, PTL DEF ServicesSpec

\* Governance, learning and retention use the repository as its specification allows,
\* so whatever holds of every use of the repository holds of theirs.
THEOREM ServicesUseRepository == ServicesSpec => Spec
  <1>1. ServicesInit => Init
    BY DEF ServicesInit
  <1> QED BY <1>1, ServicesTypeInit, ServicesTypeStep, ServicesStepRepository, PTL
          DEF ServicesSpec, Spec

\* No edit, correction or reactivation, however late it is decided, adds a revision
\* to a memory that governance deleted.
THEOREM ServicesKeepTombstones == ServicesSpec /\ []DeletesAreAlone => []TombstoneIsAlone
  BY ServicesUseRepository, TombstoneIsAloneHolds, PTL
-----------------------------------------------------------------------------
(* What a request still knows when it commits.                             *)
(*                                                                         *)
(* A service decides on the latest revision it reads, and its repository   *)
(* call carries that decision through three sessions as a revision number. *)
(* The inductive invariant says what remains true of the decision: the     *)
(* revision it was made on is still there with the payload it had, a       *)
(* replacement loads no other row, and a delete, which is the only call on *)
(* its memory, still deletes what the user saw.                            *)

Automatic == "AUTOMATIC_EXPLICIT_FACT"

Decided(table, k) ==
    /\ k.op \in {"create", "replace", "reactivate"} => k.payload \in Fact
    /\ k.op \in {"create", "reactivate"} => k.payload.source = Automatic
    /\ k.op = "replace" =>
          /\ k.payload.source \in {"USER_EDIT", Automatic}
          /\ \E s \in RowsOf(table, k.memory) :
                /\ table[s].lifecycle # "DELETED"
                /\ table[s].number = k.number - 1
                /\ k.payload.source = Automatic => Replaces(table[s].payload, k.payload)
          /\ k.step # "select_active" =>
                k.row \in RowsOf(table, k.memory) /\ table[k.row].number >= k.number - 1
    /\ k.op = "delete" =>
          /\ k.payload = NoPayload
          /\ \E r \in LatestRows(table, k.memory) :
                table[r].lifecycle = "ACTIVE" /\ table[r].number = k.number - 1

RequestsAreDecided ==
    \A c \in Clients : call[c].step \in Pending => Decided(revisionRows, call[c])

\* Only a tombstone is without content.
PayloadsFit ==
    \A r \in DOMAIN revisionRows :
        revisionRows[r].lifecycle # "DELETED" => revisionRows[r].payload \in Fact

LatestExists ==
    \A r \in DOMAIN revisionRows : LatestRows(revisionRows, revisionRows[r].memory) # {}

ServicesInv ==
    /\ ServicesTyped
    /\ HistoryInv
    /\ RequestsAreDecided
    /\ PayloadsFit
    /\ LatestExists
    /\ UserEditsOutrankLearning

\* Revision numbers are numbers.
LEMMA NumbersAreNat ==
    ASSUME TypeOK
    PROVE  /\ \A s \in DOMAIN revisionRows : revisionRows[s].number \in Nat
           /\ \A c \in Clients : call[c].number \in Nat /\ call[c].number >= 1
  BY RepositoryAssumption DEF TypeOK, Revision, Call, Number

\* A decision outlives a step that keeps the rows of its memory, but for their
\* lifecycle; that of a deletion, one that keeps them altogether.
LEMMA DecisionStays ==
    ASSUME NEW t, NEW u, NEW k, Decided(t, k),
           \A s \in RowsOf(t, k.memory) :
               /\ s \in RowsOf(u, k.memory)
               /\ u[s].number = t[s].number
               /\ u[s].payload = t[s].payload
               /\ u[s].lifecycle = "DELETED" => t[s].lifecycle = "DELETED",
           k.op = "delete" => /\ RowsOf(u, k.memory) = RowsOf(t, k.memory)
                              /\ \A s \in RowsOf(t, k.memory) : u[s] = t[s]
    PROVE  Decided(u, k)
  <1>1. CASE k.op = "delete"
    <2>1. LatestRows(u, k.memory) = LatestRows(t, k.memory)
      BY <1>1 DEF LatestRows
    <2> QED BY <1>1, <2>1 DEF Decided, LatestRows
  <1>2. CASE k.op = "replace"
    BY <1>2 DEF Decided
  <1>3. CASE k.op \notin {"delete", "replace"}
    BY <1>3 DEF Decided
  <1> QED BY <1>1, <1>2, <1>3

-----------------------------------------------------------------------------
(* What each commit does to the rows.                                      *)

\* The rows of every other memory stay as they are.
OthersStay(m) ==
    /\ {s \in DOMAIN revisionRows' : revisionRows'[s].memory # m}
           = {s \in DOMAIN revisionRows : revisionRows[s].memory # m}
    /\ \A s \in DOMAIN revisionRows :
          revisionRows[s].memory # m => revisionRows'[s] = revisionRows[s]

\* So each of the other memories has the same latest revision.
LEMMA OthersKeepLatest ==
    ASSUME NEW m, OthersStay(m), NEW n, n # m
    PROVE  /\ RowsOf(revisionRows', n) = RowsOf(revisionRows, n)
           /\ LatestRows(revisionRows', n) = LatestRows(revisionRows, n)
           /\ \A s \in RowsOf(revisionRows, n) : revisionRows'[s] = revisionRows[s]
  <1>1. /\ RowsOf(revisionRows', n) = RowsOf(revisionRows, n)
        /\ \A s \in RowsOf(revisionRows, n) : revisionRows'[s] = revisionRows[s]
    BY DEF OthersStay, RowsOf
  <1> QED BY <1>1 DEF LatestRows

\* The rows after c appended its ACTIVE revision under row q: the memory's former
\* latest revision is the one before it, and only a replacement supersedes that one.
Appended(c, q) ==
    /\ q \in RowId \ DOMAIN revisionRows
    /\ DOMAIN revisionRows' = DOMAIN revisionRows \cup {q}
    /\ revisionRows'[q] = RevisionOf(call[c], "ACTIVE")
    /\ \A s \in DOMAIN revisionRows :
          /\ revisionRows'[s].memory = revisionRows[s].memory
          /\ revisionRows'[s].number = revisionRows[s].number
          /\ revisionRows'[s].payload = revisionRows[s].payload
          /\ \/ revisionRows'[s] = revisionRows[s]
             \/ /\ call[c].op = "replace"
                /\ revisionRows'[s].lifecycle = "SUPERSEDED"
                /\ revisionRows[s].memory = call[c].memory
                /\ revisionRows[s].number = call[c].number - 1
    /\ \A s \in RowsOf(revisionRows, call[c].memory) :
          /\ revisionRows[s].number < call[c].number
          /\ revisionRows[s].lifecycle # "DELETED"
          /\ revisionRows'[s].lifecycle # "ACTIVE"

Appending(c) == CommitCreate(c) \/ CommitReplace(c) \/ CommitReactivate(c)

\* Creating, replacing and reactivating append a revision, and that is all.
LEMMA CommitAppends ==
    ASSUME ServicesInv, NEW c \in Clients, Appending(c)
    PROVE  \E q \in RowId : Appended(c, q)
  <1> DEFINE rev == RevisionOf(call[c], "ACTIVE")
  <1>1. TypeOK /\ HistoryInv
    BY DEF ServicesInv, HistoryInv, IntegrityInv
  <1>2. PICK op \in {"create", "replace", "reactivate"} : Committing(c, op)
    BY DEF Appending, CommitCreate, CommitReplace, CommitReactivate
  <1>3. /\ rev \in Revision
        /\ rev.memory = call[c].memory
        /\ rev.number = call[c].number
        /\ rev.lifecycle = "ACTIVE"
    BY <1>1, <1>2 DEF RevisionOf, Revision, Lifecycle, Committing, Pending, TypeOK, Call
  <1>4. Decided(revisionRows, call[c]) /\ call[c].step = "write"
    BY <1>2 DEF ServicesInv, RequestsAreDecided, Committing, Pending
  <1>5. CASE CommitCreate(c) \/ CommitReactivate(c)
    <2>1. Insert(revisionRows, rev)
      BY <1>5 DEF CommitCreate, CommitReactivate
    <2> HIDE DEF rev
    <2>2. Succeeds(rev)
      <3>1. CASE CommitCreate(c)
        <4>1. RowsOf(revisionRows, call[c].memory) = {}
          BY <1>1, <3>1 DEF CommitCreate, HistoryInv, IntegrityInv, Integrity, RowsOf
        <4>2. call[c].number = 1
          BY <1>1, <3>1 DEF CommitCreate, Committing, HistoryInv, CallsAreSound, Pending
        <4> QED BY <1>3, <4>1, <4>2 DEF Succeeds
      <3>2. CASE CommitReactivate(c)
        <4>1. \E s \in LiveRows(call[c].memory) : revisionRows[s].number = call[c].number - 1
          BY <1>1, <3>2 DEF CommitReactivate, Committing, HistoryInv, CallsAreSound, Pending
        <4> QED BY <1>3, <4>1 DEF Succeeds
      <3> QED BY <1>5, <3>1, <3>2
    <2>3. PICK q \in RowId \ DOMAIN revisionRows :
              /\ DOMAIN revisionRows' = DOMAIN revisionRows \cup {q}
              /\ revisionRows'[q] = rev
              /\ \A s \in DOMAIN revisionRows : revisionRows'[s] = revisionRows[s]
      BY <1>1, <1>3, <2>1, InsertKeeps DEF TypeOK
    <2>4. \A s \in RowsOf(revisionRows, call[c].memory) :
              revisionRows[s].number < call[c].number /\ revisionRows[s].lifecycle # "DELETED"
      BY <1>1, <1>3, <2>1, <2>2, FreeNumberIsNext DEF Insert
    <2>5. \A s \in RowsOf(revisionRows, call[c].memory) : revisionRows[s].lifecycle # "ACTIVE"
      BY <1>3, <2>1 DEF Insert, ActiveFree, ActiveRows
    <2>6. Appended(c, q)
      BY <2>3, <2>4, <2>5 DEF Appended, RowsOf, rev
    <2> QED BY <2>6
  <1>6. CASE CommitReplace(c)
    <2> DEFINE table == Supersede(call[c].row)
    <2>1. Insert(table, rev)
      BY <1>6 DEF CommitReplace
    <2> HIDE DEF rev
    <2>2. call[c].op = "replace" /\ call[c].row \in RowsOf(revisionRows, call[c].memory)
      BY <1>4, <1>6 DEF CommitReplace, Committing, Decided
    <2>3. /\ revisionRows[call[c].row].number < call[c].number
          /\ \E s \in LiveRows(call[c].memory) : revisionRows[s].number = call[c].number - 1
      BY <1>1, <1>4, <2>2 DEF HistoryInv, CallsAreSound, Pending
    <2>4. revisionRows[call[c].row].number = call[c].number - 1
      BY <1>1, <1>4, <2>2, <2>3, NumbersAreNat DEF Decided, RowsOf
    <2>5. /\ DOMAIN table = DOMAIN revisionRows
          /\ table[call[c].row].lifecycle = "SUPERSEDED"
          /\ \A s \in DOMAIN table :
                /\ table[s].memory = revisionRows[s].memory
                /\ table[s].number = revisionRows[s].number
                /\ table[s].payload = revisionRows[s].payload
                /\ s # call[c].row => table[s] = revisionRows[s]
      BY <1>1, <2>2 DEF Supersede, TypeOK, Revision, RowsOf
    <2> HIDE DEF table
    <2>6. PICK q \in RowId \ DOMAIN table :
              /\ DOMAIN revisionRows' = DOMAIN table \cup {q}
              /\ revisionRows'[q] = rev
              /\ \A s \in DOMAIN table : revisionRows'[s] = table[s]
      BY <1>1, <1>3, <2>1, <2>5, InsertKeeps DEF TypeOK
    <2>7. Succeeds(rev)
      BY <1>3, <2>3 DEF Succeeds
    <2>8. \A s \in RowsOf(revisionRows, call[c].memory) :
              revisionRows[s].number < call[c].number /\ revisionRows[s].lifecycle # "DELETED"
      BY <1>1, <1>3, <2>1, <2>5, <2>7, FreeNumberIsNext DEF Insert
    <2>9. \A s \in RowsOf(revisionRows, call[c].memory) : table[s].lifecycle # "ACTIVE"
      BY <1>3, <2>1, <2>5 DEF Insert, ActiveFree, ActiveRows, RowsOf
    <2>10. Appended(c, q)
      BY <2>2, <2>4, <2>5, <2>6, <2>8, <2>9 DEF Appended, RowsOf, rev
    <2> QED BY <2>10
  <1> QED BY <1>5, <1>6 DEF Appending

\* The rows after c deleted its memory: the tombstone, under row q, in place of all.
Buried(c, q) ==
    /\ q \in DOMAIN revisionRows'
    /\ RowsOf(revisionRows', call[c].memory) = {q}
    /\ revisionRows'[q] = RevisionOf(call[c], "DELETED")
    /\ OthersStay(call[c].memory)

\* Deleting leaves the tombstone, and nothing else of the memory.
LEMMA DeleteBuries ==
    ASSUME TypeOK, NEW c \in Clients, CommitDelete(c)
    PROVE  \E q \in RowId : Buried(c, q)
  <1> DEFINE rev == RevisionOf(call[c], "DELETED")
             table == Without(call[c].memory)
  <1>1. rev \in Revision /\ rev.memory = call[c].memory
    BY DEF CommitDelete, Committing, RevisionOf, Revision, Lifecycle, Pending, TypeOK, Call
  <1>2. Insert(table, rev)
    BY DEF CommitDelete
  <1>3. /\ DOMAIN table = {s \in DOMAIN revisionRows : revisionRows[s].memory # call[c].memory}
        /\ \A s \in DOMAIN table : table[s] = revisionRows[s]
    BY DEF Without, RowsOf
  <1> HIDE DEF rev, table
  <1>4. PICK q \in RowId \ DOMAIN table :
            /\ DOMAIN revisionRows' = DOMAIN table \cup {q}
            /\ revisionRows'[q] = rev
            /\ \A s \in DOMAIN table : revisionRows'[s] = table[s]
    BY <1>1, <1>2, <1>3, InsertKeeps DEF TypeOK
  <1>5. RowsOf(revisionRows', call[c].memory) = {q}
    BY <1>1, <1>3, <1>4 DEF RowsOf
  <1>6. OthersStay(call[c].memory)
    BY <1>1, <1>3, <1>4 DEF OthersStay
  <1> QED BY <1>4, <1>5, <1>6 DEF Buried, rev

\* The rows after c expired the ACTIVE row r.
Expired(c, r) ==
    /\ r \in ActiveRows(revisionRows, call[c].memory)
    /\ revisionRows' = [revisionRows EXCEPT ![r].lifecycle = "EXPIRED"]

\* A commit touches the rows of its memory alone.
LEMMA AppendStaysPut ==
    ASSUME TypeOK, NEW c \in Clients, NEW q, Appended(c, q)
    PROVE  OthersStay(call[c].memory)
  BY DEF Appended, OthersStay, RevisionOf

\* So does an expiry.
LEMMA ExpireStaysPut ==
    ASSUME TypeOK, NEW c \in Clients, NEW r, Expired(c, r)
    PROVE  OthersStay(call[c].memory)
  BY DEF Expired, OthersStay, ActiveRows, RowsOf, TypeOK, Revision
-----------------------------------------------------------------------------
(* The inductive invariant of the services.                                *)

\* The requests of the other callers stay decided when c finishes: those on other
\* memories because nothing changed for them, those on the same because neither they
\* nor c delete it.
LEMMA RequestsStay ==
    ASSUME ServicesInv, DeletesAreAlone, NEW c \in Clients, call[c].step \in Pending,
           Finish(c), OthersStay(call[c].memory),
           call[c].op # "delete" =>
               \A s \in RowsOf(revisionRows, call[c].memory) :
                   /\ s \in DOMAIN revisionRows'
                   /\ revisionRows'[s].memory = revisionRows[s].memory
                   /\ revisionRows'[s].number = revisionRows[s].number
                   /\ revisionRows'[s].payload = revisionRows[s].payload
                   /\ revisionRows'[s].lifecycle = "DELETED"
                          => revisionRows[s].lifecycle = "DELETED"
    PROVE  RequestsAreDecided'
  <1> SUFFICES ASSUME NEW d \in Clients, call'[d].step \in Pending
               PROVE  Decided(revisionRows', call'[d])
    BY DEF RequestsAreDecided
  <1>1. d # c /\ call'[d] = call[d]
    BY DEF ServicesInv, HistoryInv, IntegrityInv, Finish, TypeOK, NoCall, Pending
  <1>2. Decided(revisionRows, call[d])
    BY <1>1 DEF ServicesInv, RequestsAreDecided
  <1>3. CASE call[d].memory # call[c].memory
    <2>1. /\ RowsOf(revisionRows', call[d].memory) = RowsOf(revisionRows, call[d].memory)
          /\ \A s \in RowsOf(revisionRows, call[d].memory) : revisionRows'[s] = revisionRows[s]
      BY <1>3, OthersKeepLatest
    <2>2. Decided(revisionRows', call[d])
      BY <1>2, <2>1, DecisionStays
    <2> QED BY <1>1, <2>2
  <1>4. CASE call[d].memory = call[c].memory
    <2>1. call[c].op # "delete" /\ call[d].op # "delete"
      BY <1>1, <1>4 DEF DeletesAreAlone
    <2>2. \A s \in RowsOf(revisionRows, call[d].memory) :
              /\ s \in RowsOf(revisionRows', call[d].memory)
              /\ revisionRows'[s].number = revisionRows[s].number
              /\ revisionRows'[s].payload = revisionRows[s].payload
              /\ revisionRows'[s].lifecycle = "DELETED" => revisionRows[s].lifecycle = "DELETED"
      BY <1>4, <2>1 DEF RowsOf
    <2>3. Decided(revisionRows', call[d])
      BY <1>2, <2>1, <2>2, DecisionStays
    <2> QED BY <1>1, <2>3
  <1> QED BY <1>3, <1>4

\* What the rest of the invariant says of the rows.
RowsAreSound == PayloadsFit /\ LatestExists /\ UserEditsOutrankLearning

\* An appended revision is the latest, and learning appends none to a user's edit.
LEMMA AppendKeepsInv ==
    ASSUME ServicesInv, DeletesAreAlone, NEW c \in Clients, Appending(c)
    PROVE  RequestsAreDecided' /\ RowsAreSound'
  <1>1. TypeOK /\ Histories /\ Distinct(revisionRows)
    BY DEF ServicesInv, HistoryInv, IntegrityInv, Integrity
  <1>2. PICK op \in {"create", "replace", "reactivate"} : Committing(c, op) /\ Finish(c)
    BY DEF Appending, CommitCreate, CommitReplace, CommitReactivate
  <1>3. PICK q \in RowId : Appended(c, q)
    BY CommitAppends
  <1>4. Decided(revisionRows, call[c]) /\ call[c].step \in Pending /\ call[c].op = op
    BY <1>2 DEF ServicesInv, RequestsAreDecided, Committing, Pending
  <1>5. OthersStay(call[c].memory)
    BY <1>1, <1>3, AppendStaysPut
  <1>6. /\ revisionRows'[q].memory = call[c].memory
        /\ revisionRows'[q].number = call[c].number
        /\ revisionRows'[q].lifecycle = "ACTIVE"
        /\ revisionRows'[q].payload = call[c].payload
    BY <1>3 DEF Appended, RevisionOf
  <1>7. RequestsAreDecided'
    BY <1>2, <1>3, <1>4, <1>5, RequestsStay DEF Appended, RowsOf
  <1>8. PayloadsFit'
    <2>1. call[c].payload \in Fact
      BY <1>4 DEF Decided
    <2>2. \A s \in DOMAIN revisionRows :
              /\ revisionRows'[s].payload = revisionRows[s].payload
              /\ revisionRows[s].lifecycle = "DELETED" => revisionRows'[s].lifecycle = "DELETED"
      BY <1>3 DEF Appended, RowsOf
    <2> QED BY <1>3, <1>6, <2>1, <2>2 DEF Appended, PayloadsFit, ServicesInv
  <1>9. LatestExists'
    <2> SUFFICES ASSUME NEW r \in DOMAIN revisionRows'
                 PROVE  LatestRows(revisionRows', revisionRows'[r].memory) # {}
      BY DEF LatestExists
    <2>1. CASE revisionRows'[r].memory = call[c].memory
      <3>1. q \in RowsOf(revisionRows', call[c].memory)
        BY <1>3, <1>6 DEF Appended, RowsOf
      <3>2. \A s \in RowsOf(revisionRows', call[c].memory) :
                revisionRows'[s].number <= revisionRows'[q].number
        BY <1>1, <1>3, <1>6, NumbersAreNat DEF Appended, RowsOf
      <3>3. q \in LatestRows(revisionRows', call[c].memory)
        BY <3>1, <3>2 DEF LatestRows
      <3> QED BY <2>1, <3>3
    <2>2. CASE revisionRows'[r].memory # call[c].memory
      <3>1. r \in DOMAIN revisionRows /\ revisionRows'[r].memory = revisionRows[r].memory
        BY <1>3, <1>6, <2>2 DEF Appended
      <3> QED BY <1>5, <2>2, <3>1, OthersKeepLatest DEF ServicesInv, LatestExists
    <2> QED BY <2>1, <2>2
  <1>10. UserEditsOutrankLearning'
    <2> SUFFICES ASSUME NEW r \in DOMAIN revisionRows', NEW s \in DOMAIN revisionRows',
                        revisionRows'[r].memory = revisionRows'[s].memory,
                        revisionRows'[s].number = revisionRows'[r].number + 1,
                        revisionRows'[r].lifecycle = "SUPERSEDED",
                        revisionRows'[r].payload.source = "USER_EDIT"
                 PROVE  revisionRows'[s].payload.source = "USER_EDIT"
      BY DEF UserEditsOutrankLearning
    <2>1. r \in DOMAIN revisionRows /\ s \in DOMAIN revisionRows \cup {q}
      BY <1>3, <1>6 DEF Appended
    <2>2. /\ revisionRows[r].payload.source = "USER_EDIT"
          /\ revisionRows'[r].memory = revisionRows[r].memory
          /\ revisionRows'[r].number = revisionRows[r].number
      BY <1>3, <2>1 DEF Appended
    <2>3. CASE s \in DOMAIN revisionRows
      <3>1. /\ revisionRows'[s].payload = revisionRows[s].payload
            /\ revisionRows[s].memory = revisionRows[r].memory
            /\ revisionRows[s].number = revisionRows[r].number + 1
        BY <1>3, <2>1, <2>2, <2>3 DEF Appended
      <3>2. CASE revisionRows[r].lifecycle = "SUPERSEDED"
        BY <2>1, <2>2, <2>3, <3>1, <3>2 DEF ServicesInv, UserEditsOutrankLearning
      <3>3. CASE revisionRows[r].memory = call[c].memory
                    /\ revisionRows[r].number = call[c].number - 1
        <4>1. revisionRows[s].number < call[c].number
          BY <1>3, <2>3, <3>1, <3>3 DEF Appended, RowsOf
        <4> QED BY <1>1, <2>1, <2>3, <3>1, <3>3, <4>1, NumbersAreNat
      <3> QED BY <1>3, <2>1, <3>2, <3>3 DEF Appended
    <2>4. CASE s = q
      <3>1. /\ revisionRows[r].memory = call[c].memory
            /\ revisionRows[r].number = call[c].number - 1
        <4>1. /\ revisionRows[r].memory = call[c].memory
              /\ call[c].number = revisionRows[r].number + 1
          BY <1>6, <2>2, <2>4
        <4>2. revisionRows[r].number \in Nat
          BY <1>1, <2>1, NumbersAreNat
        <4> QED BY <4>1, <4>2
      <3>2. revisionRows[r].lifecycle # "SUPERSEDED"
        <4>1. ASSUME revisionRows[r].lifecycle = "SUPERSEDED" PROVE FALSE
          <5>1. PICK x \in RowsOf(revisionRows, call[c].memory) :
                    revisionRows[x].number > revisionRows[r].number
            BY <1>1, <2>1, <3>1, <4>1 DEF Histories, SupersededHasSuccessor
          <5>2. revisionRows[x].number < call[c].number
            BY <1>3 DEF Appended
          <5> QED BY <1>1, <2>1, <3>1, <5>1, <5>2, NumbersAreNat DEF RowsOf
        <4> QED BY <4>1
      <3>3. call[c].op = "replace"
        BY <1>3, <2>1, <3>2 DEF Appended
      <3>4. PICK x \in RowsOf(revisionRows, call[c].memory) :
                /\ revisionRows[x].number = call[c].number - 1
                /\ call[c].payload.source = Automatic
                       => Replaces(revisionRows[x].payload, call[c].payload)
        BY <1>4, <3>3 DEF Decided
      <3>5. x = r
        BY <1>1, <2>1, <3>1, <3>4 DEF Distinct, RowsOf
      <3>6. call[c].payload.source # Automatic
        BY <2>2, <3>4, <3>5 DEF Replaces, Authority, Source, Automatic
      <3> QED BY <1>4, <1>6, <2>4, <3>3, <3>6 DEF Decided
    <2> QED BY <2>1, <2>3, <2>4
  <1> QED BY <1>7, <1>8, <1>9, <1>10 DEF RowsAreSound

\* An expiration changes no number and no payload, and supersedes nothing.
LEMMA ExpireKeepsInv ==
    ASSUME ServicesInv, DeletesAreAlone, NEW c \in Clients, CommitExpire(c)
    PROVE  RequestsAreDecided' /\ RowsAreSound'
  <1>1. TypeOK
    BY DEF ServicesInv, HistoryInv, IntegrityInv
  <1>2. Committing(c, "expire") /\ Finish(c)
    BY DEF CommitExpire
  <1>3. PICK r : Expired(c, r)
    BY DEF CommitExpire, Expired, ExpireRow
  <1>4. /\ DOMAIN revisionRows' = DOMAIN revisionRows
        /\ \A s \in DOMAIN revisionRows :
              /\ revisionRows'[s].memory = revisionRows[s].memory
              /\ revisionRows'[s].number = revisionRows[s].number
              /\ revisionRows'[s].payload = revisionRows[s].payload
              /\ \/ revisionRows'[s].lifecycle = revisionRows[s].lifecycle
                 \/ /\ revisionRows[s].lifecycle = "ACTIVE"
                    /\ revisionRows'[s].lifecycle = "EXPIRED"
    BY <1>1, <1>3 DEF Expired, ActiveRows, RowsOf, TypeOK, Revision
  <1>5. OthersStay(call[c].memory)
    BY <1>1, <1>3, ExpireStaysPut
  <1>6. RequestsAreDecided'
    BY <1>2, <1>4, <1>5, RequestsStay DEF Committing, Pending, RowsOf
  <1>7. PayloadsFit'
    BY <1>4 DEF ServicesInv, PayloadsFit
  <1>8. LatestExists'
    BY <1>4 DEF ServicesInv, LatestExists, LatestRows, RowsOf
  <1>9. UserEditsOutrankLearning'
    BY <1>4 DEF ServicesInv, UserEditsOutrankLearning
  <1> QED BY <1>6, <1>7, <1>8, <1>9 DEF RowsAreSound

\* A tombstone is the latest revision of its memory, and alone.
LEMMA DeleteKeepsInv ==
    ASSUME ServicesInv, DeletesAreAlone, NEW c \in Clients, CommitDelete(c)
    PROVE  RequestsAreDecided' /\ RowsAreSound'
  <1>1. TypeOK
    BY DEF ServicesInv, HistoryInv, IntegrityInv
  <1>2. Committing(c, "delete") /\ Finish(c)
    BY DEF CommitDelete
  <1>3. PICK q \in RowId : Buried(c, q)
    BY <1>1, DeleteBuries
  <1>4. /\ revisionRows'[q].memory = call[c].memory
        /\ revisionRows'[q].lifecycle = "DELETED"
        /\ revisionRows'[q].number = call[c].number
        /\ call[c].number \in Nat
    BY <1>1, <1>3, NumbersAreNat DEF Buried, RevisionOf
  <1>5. \A r \in DOMAIN revisionRows' :
            \/ r = q
            \/ /\ r \in DOMAIN revisionRows
               /\ revisionRows[r].memory # call[c].memory
               /\ revisionRows'[r] = revisionRows[r]
    BY <1>3 DEF Buried, OthersStay, RowsOf
  <1>6. RequestsAreDecided'
    BY <1>2, <1>3, RequestsStay DEF Committing, Pending, Buried
  <1>7. PayloadsFit'
    BY <1>4, <1>5 DEF ServicesInv, PayloadsFit
  <1>8. LatestExists'
    <2>1. LatestRows(revisionRows', call[c].memory) = {q}
      BY <1>3, <1>4 DEF Buried, LatestRows
    <2> QED BY <1>3, <1>4, <1>5, <2>1, OthersKeepLatest DEF Buried, ServicesInv, LatestExists
  <1>9. UserEditsOutrankLearning'
    BY <1>4, <1>5 DEF ServicesInv, UserEditsOutrankLearning
  <1> QED BY <1>6, <1>7, <1>8, <1>9 DEF RowsAreSound
\* A request enters the repository with a decision made on the latest revision.
LEMMA RequestDecides ==
    ASSUME ServicesInv, NEW c \in Clients,
           \/ Edit(c) \/ Delete(c) \/ ExpireDue(c) \/ LearnExisting(c)
           \/ ScanDuplicate(c) \/ LearnNew(c)
    PROVE  RequestsAreDecided' /\ UNCHANGED revisionRows
  <1>1. TypeOK
    BY DEF ServicesInv, HistoryInv, IntegrityInv
  <1>2. ASSUME NEW op, NEW m, NEW n, NEW p, NEW key, Begin(c, op, m, n, p, key),
               Decided(revisionRows, [op |-> op, step |-> FirstStep(op), memory |-> m,
                                      number |-> n, payload |-> p, key |-> key, row |-> NoRow])
        PROVE  RequestsAreDecided' /\ UNCHANGED revisionRows
    <2>1. /\ UNCHANGED revisionRows
          /\ call' = [call EXCEPT ![c] =
                         [op |-> op, step |-> FirstStep(op), memory |-> m,
                          number |-> n, payload |-> p, key |-> key, row |-> NoRow]]
      BY <1>2 DEF Begin
    <2>2. ASSUME NEW d \in Clients, call'[d].step \in Pending
          PROVE  Decided(revisionRows, call'[d])
      BY <1>1, <1>2, <2>1, <2>2 DEF ServicesInv, RequestsAreDecided, TypeOK
    <2> QED BY <2>1, <2>2 DEF RequestsAreDecided
  <1>3. \A m : \A r \in LatestRows(revisionRows, m) :
            /\ r \in RowsOf(revisionRows, m)
            /\ revisionRows[r].number \in Nat
    BY <1>1, NumbersAreNat DEF LatestRows, RowsOf
  <1>4. CASE Edit(c)
    <2>1. PICK m \in Memories, content \in Contents, t \in Times,
               r \in DOMAIN revisionRows :
              /\ r \in LatestRows(revisionRows, m)
              /\ revisionRows[r].lifecycle = "ACTIVE"
              /\ Begin(c, "replace", m, revisionRows[r].number + 1,
                       [content |-> content, source |-> "USER_EDIT", factTime |-> t], NoKey)
      BY <1>4 DEF Edit, Governable, LatestRows, RowsOf
    <2> DEFINE p == [content |-> content, source |-> "USER_EDIT", factTime |-> t]
               k == [op |-> "replace", step |-> FirstStep("replace"), memory |-> m,
                     number |-> revisionRows[r].number + 1, payload |-> p,
                     key |-> NoKey, row |-> NoRow]
    <2>2. p \in Fact /\ p.source = "USER_EDIT"
      BY DEF Fact, Source
    <2>3. "USER_EDIT" # Automatic
      BY DEF Automatic
    <2>4. FirstStep("replace") = "select_active"
      BY DEF FirstStep
    <2> HIDE DEF p
    <2>5. Decided(revisionRows, k)
      BY <1>3, <2>1, <2>2, <2>3, <2>4 DEF Decided
    <2> QED BY <1>2, <2>1, <2>5 DEF p
  <1>5. CASE Delete(c)
    <2>1. PICK m \in Memories, r \in DOMAIN revisionRows :
              /\ r \in LatestRows(revisionRows, m)
              /\ revisionRows[r].lifecycle = "ACTIVE"
              /\ Begin(c, "delete", m, revisionRows[r].number + 1, NoPayload, NoKey)
      BY <1>5 DEF Delete, Governable, LatestRows, RowsOf
    <2> DEFINE k == [op |-> "delete", step |-> FirstStep("delete"), memory |-> m,
                     number |-> revisionRows[r].number + 1, payload |-> NoPayload,
                     key |-> NoKey, row |-> NoRow]
    <2>2. Decided(revisionRows, k)
      BY <1>3, <2>1 DEF Decided
    <2> QED BY <1>2, <2>1, <2>2
  <1>6. CASE ExpireDue(c)
    <2>1. PICK m \in Memories, r \in DOMAIN revisionRows :
              Begin(c, "expire", m, revisionRows[r].number, NoPayload, NoKey)
      BY <1>6 DEF ExpireDue, ActiveRows, RowsOf
    <2> DEFINE k == [op |-> "expire", step |-> FirstStep("expire"), memory |-> m,
                     number |-> revisionRows[r].number, payload |-> NoPayload,
                     key |-> NoKey, row |-> NoRow]
    <2>2. Decided(revisionRows, k)
      BY DEF Decided
    <2> QED BY <1>2, <2>1, <2>2
  <1>7. CASE LearnExisting(c)
    <2>1. PICK f \in Candidates, m \in DOMAIN memoryRows, op \in {"reactivate", "replace"},
               r \in DOMAIN revisionRows :
              /\ r \in LatestRows(revisionRows, m)
              /\ op = "replace" => /\ revisionRows[r].lifecycle = "ACTIVE"
                                   /\ Replaces(revisionRows[r].payload, f.fact)
              /\ Begin(c, op, m, revisionRows[r].number + 1, f.fact, NoKey)
      BY <1>7 DEF LearnExisting, MayCorrect, Named, LatestRows, RowsOf
    <2> DEFINE k == [op |-> op, step |-> FirstStep(op), memory |-> m,
                     number |-> revisionRows[r].number + 1, payload |-> f.fact,
                     key |-> NoKey, row |-> NoRow]
    <2>2. f.fact \in Fact /\ f.fact.source = Automatic
      BY ServicesAssumption DEF Automatic
    <2>3. FirstStep("replace") = "select_active"
      BY DEF FirstStep
    <2>4. Decided(revisionRows, k)
      BY <1>3, <2>1, <2>2, <2>3 DEF Decided
    <2> QED BY <1>2, <2>1, <2>4
  <1>8. CASE ScanDuplicate(c)
    <2>1. CASE UNCHANGED vars
      BY <2>1 DEF vars, ServicesInv, RequestsAreDecided
    <2>2. CASE ~UNCHANGED vars
      <3>1. PICK m : Begin(c, "adopt", m, 1, NoPayload, task[c].candidate.key)
        BY <1>8, <2>2 DEF ScanDuplicate
      <3> DEFINE k == [op |-> "adopt", step |-> FirstStep("adopt"), memory |-> m,
                       number |-> 1, payload |-> NoPayload,
                       key |-> task[c].candidate.key, row |-> NoRow]
      <3>2. Decided(revisionRows, k)
        BY DEF Decided
      <3> QED BY <1>2, <3>1, <3>2
    <2> QED BY <2>1, <2>2
  <1>9. CASE LearnNew(c)
    <2>1. PICK m : /\ task[c].step = "scan"
                   /\ Begin(c, "create", m, 1, task[c].candidate.fact, task[c].candidate.key)
      BY <1>9 DEF LearnNew
    <2> DEFINE k == [op |-> "create", step |-> FirstStep("create"), memory |-> m,
                     number |-> 1, payload |-> task[c].candidate.fact,
                     key |-> task[c].candidate.key, row |-> NoRow]
    <2>2. task[c].candidate.fact \in Fact /\ task[c].candidate.fact.source = Automatic
      BY <2>1, ServicesAssumption
         DEF ServicesInv, ServicesTyped, TasksHaveCandidates, Automatic
    <2>3. Decided(revisionRows, k)
      BY <2>2 DEF Decided
    <2> QED BY <1>2, <2>1, <2>3
  <1> QED BY <1>4, <1>5, <1>6, <1>7, <1>8, <1>9

\* The reads of a call in flight do not outdate the decision it carries: the ACTIVE row
\* a replacement loads is the latest, so its number is not below that decided on.
LEMMA ReadsKeepDecisions ==
    ASSUME ServicesInv, NEW c \in Clients, SelectActive(c) \/ SelectMax(c)
    PROVE  RequestsAreDecided' /\ UNCHANGED revisionRows
  <1>1. TypeOK /\ ActiveIsLatest
    BY DEF ServicesInv, HistoryInv, IntegrityInv, Histories
  <1>2. UNCHANGED revisionRows /\ call[c].step \in Pending
    BY DEF SelectActive, SelectMax, Pending
  <1>3. Decided(revisionRows, call[c])
    BY <1>2 DEF ServicesInv, RequestsAreDecided
  <1>4. ASSUME NEW k, call' = [call EXCEPT ![c] = k], Decided(revisionRows, k)
        PROVE  RequestsAreDecided'
    <2>1. ASSUME NEW d \in Clients, call'[d].step \in Pending
          PROVE  Decided(revisionRows, call'[d])
      BY <1>1, <1>4, <2>1 DEF ServicesInv, RequestsAreDecided, TypeOK
    <2> QED BY <1>2, <2>1 DEF RequestsAreDecided
  <1>5. call[c] \in Call
    BY <1>1 DEF TypeOK
  <1>6. CASE SelectActive(c) /\ call[c].op = "replace"
    <2>1. PICK r \in ActiveRows(revisionRows, call[c].memory) :
              call' = [call EXCEPT ![c].step = "select_max", ![c].row = r]
      BY <1>6 DEF SelectActive
    <2> DEFINE k == [call[c] EXCEPT !.step = "select_max", !.row = r]
    <2>2. PICK s \in RowsOf(revisionRows, call[c].memory) :
              revisionRows[s].number = call[c].number - 1
      BY <1>3, <1>6 DEF Decided
    <2>3. /\ r \in RowsOf(revisionRows, call[c].memory)
          /\ revisionRows[s].number <= revisionRows[r].number
      BY <1>1, <2>1, <2>2 DEF ActiveIsLatest, ActiveRows, RowsOf
    <2>4. call' = [call EXCEPT ![c] = k]
      BY <1>1, <1>5, <2>1 DEF Call
    <2>5. /\ k.op = call[c].op /\ k.memory = call[c].memory /\ k.number = call[c].number
          /\ k.payload = call[c].payload /\ k.row = r
      BY <1>5 DEF Call
    <2> HIDE DEF k
    <2>6. Decided(revisionRows, k)
      BY <1>3, <1>6, <2>2, <2>3, <2>5 DEF Decided
    <2> QED BY <1>2, <1>4, <2>4, <2>6
  <1>7. CASE SelectActive(c) /\ call[c].op # "replace"
    <2> DEFINE k == [call[c] EXCEPT !.step = "select_max"]
    <2>1. call' = [call EXCEPT ![c] = k]
      BY <1>1, <1>5, <1>7 DEF SelectActive, Call
    <2>2. /\ k.op = call[c].op /\ k.memory = call[c].memory /\ k.number = call[c].number
          /\ k.payload = call[c].payload
      BY <1>5 DEF Call
    <2> HIDE DEF k
    <2>3. Decided(revisionRows, k)
      BY <1>3, <1>7, <2>2 DEF Decided
    <2> QED BY <1>2, <1>4, <2>1, <2>3
  <1>8. CASE SelectMax(c)
    <2> DEFINE k == [call[c] EXCEPT !.step = "write"]
    <2>1. call' = [call EXCEPT ![c] = k] /\ call[c].step = "select_max"
      BY <1>1, <1>5, <1>8 DEF SelectMax, Call
    <2>2. /\ k.op = call[c].op /\ k.memory = call[c].memory /\ k.number = call[c].number
          /\ k.payload = call[c].payload /\ k.row = call[c].row
      BY <1>5 DEF Call
    <2> HIDE DEF k
    <2>3. Decided(revisionRows, k)
      BY <1>3, <2>1, <2>2 DEF Decided
    <2> QED BY <1>2, <1>4, <2>1, <2>3
  <1> QED BY <1>2, <1>6, <1>7, <1>8

\* Every step of a service, from its decision to its commit, keeps the invariant.
LEMMA ServicesStep ==
    ServicesInv /\ DeletesAreAlone /\ [ServicesNext]_servicesVars => ServicesInv'
  <1> SUFFICES ASSUME ServicesInv, DeletesAreAlone, [ServicesNext]_servicesVars
               PROVE  ServicesInv'
    OBVIOUS
  <1>1. ServicesTyped'
    BY ServicesTypeStep DEF ServicesInv
  <1>2. HistoryInv'
    BY ServicesStepRepository, HistoryStep DEF ServicesInv
  <1>3. ASSUME UNCHANGED revisionRows PROVE RowsAreSound'
    BY <1>3 DEF ServicesInv, RowsAreSound, PayloadsFit, LatestExists, LatestRows, RowsOf,
                UserEditsOutrankLearning
  <1>4. ASSUME UNCHANGED <<revisionRows, call>> PROVE RequestsAreDecided'
    BY <1>4 DEF ServicesInv, RequestsAreDecided
  <1>5. SUFFICES RequestsAreDecided' /\ RowsAreSound'
    BY <1>1, <1>2 DEF ServicesInv, RowsAreSound
  <1>6. CASE UNCHANGED servicesVars
    BY <1>3, <1>4, <1>6 DEF servicesVars
  <1>7. ASSUME NEW c \in Clients,
               LearnUnnamed(c) \/ ListMemories(c) \/ ScanOther(c) \/ Abandon(c)
        PROVE  RequestsAreDecided' /\ RowsAreSound'
    BY <1>3, <1>4, <1>7 DEF LearnUnnamed, ListMemories, ScanOther, Abandon, vars
  <1>8. ASSUME NEW c \in Clients,
               \/ Edit(c) \/ Delete(c) \/ ExpireDue(c) \/ LearnExisting(c)
               \/ ScanDuplicate(c) \/ LearnNew(c)
        PROVE  RequestsAreDecided' /\ RowsAreSound'
    BY <1>3, <1>8, RequestDecides
  <1>9. ASSUME NEW c \in Clients, Step(c) PROVE RequestsAreDecided' /\ RowsAreSound'
    <2>1. CASE SelectActive(c) \/ SelectMax(c)
      BY <1>3, <2>1, ReadsKeepDecisions
    <2>2. CASE CommitCreate(c) \/ CommitReplace(c) \/ CommitReactivate(c)
      BY <2>2, AppendKeepsInv DEF Appending
    <2>3. CASE CommitExpire(c)
      BY <2>3, ExpireKeepsInv
    <2>4. CASE CommitDelete(c)
      BY <2>4, DeleteKeepsInv
    <2>5. CASE CommitAdopt(c) \/ Fail(c)
      <3>1. call[c].step \in Pending /\ Finish(c) /\ UNCHANGED revisionRows
        BY <2>5 DEF CommitAdopt, Committing, Pending, Fail
      <3>2. OthersStay(call[c].memory)
        BY <3>1 DEF OthersStay
      <3>3. RequestsAreDecided'
        BY <3>1, <3>2, RequestsStay DEF RowsOf
      <3> QED BY <1>3, <3>1, <3>3
    <2> QED BY <1>9, <2>1, <2>2, <2>3, <2>4, <2>5 DEF Step
  <1> QED BY <1>6, <1>7, <1>8, <1>9 DEF ServicesNext

\* An empty store, and nobody decides anything yet.
LEMMA ServicesInvInit == ServicesInit => ServicesInv
  <1> SUFFICES ASSUME ServicesInit PROVE ServicesInv
    OBVIOUS
  <1>1. ServicesTyped /\ HistoryInv
    BY ServicesTypeInit, HistoryInit DEF ServicesInit
  <1> QED BY <1>1 DEF ServicesInit, Init, ServicesInv, RequestsAreDecided, PayloadsFit,
                      LatestExists, UserEditsOutrankLearning, NoCall, Pending

\* The inductive invariant of the services holds while deletes are alone.
LEMMA ServicesInvHolds == ServicesSpec /\ []DeletesAreAlone => []ServicesInv
  BY ServicesInvInit, ServicesStep, PTL DEF ServicesSpec

\* The conflict policy is applied to a revision read before three further sessions, yet
\* learning never supersedes what the user wrote.
THEOREM UserEditsOutrankLearningHolds ==
    ServicesSpec /\ []DeletesAreAlone => []UserEditsOutrankLearning
  <1>1. ServicesInv => UserEditsOutrankLearning
    BY DEF ServicesInv
  <1> QED BY <1>1, ServicesInvHolds, PTL
-----------------------------------------------------------------------------
(* The refinement: the commits are the steps of the lifecycle.             *)

Visible(rev) ==
    [number |-> rev.number, lifecycle |-> rev.lifecycle, payload |-> rev.payload]

ShownIn(table, m) ==
    IF RowsOf(table, m) = {} THEN Absent
    ELSE Visible(table[CHOOSE r \in LatestRows(table, m) : TRUE])

\* Shown is ShownIn of the rows there are, before a step and after it.
LEMMA ShownIsShownIn ==
    ASSUME NEW m
    PROVE  /\ Shown(m) = ShownIn(revisionRows, m)
           /\ Shown(m)' = ShownIn(revisionRows', m)
  BY DEF Shown, ShownIn, Visible, RowsOf, LatestRows

\* A memory shows its latest revision, which is one.
LEMMA ShowsLatest ==
    ASSUME NEW table, Distinct(table), \A s \in DOMAIN table : table[s].number \in Nat,
           NEW m, NEW r \in LatestRows(table, m)
    PROVE  ShownIn(table, m) = Visible(table[r])
  <1>1. r \in RowsOf(table, m)
    BY DEF LatestRows
  <1>2. ASSUME NEW s \in LatestRows(table, m) PROVE s = r
    BY <1>2 DEF LatestRows, RowsOf, Distinct
  <1>3. (CHOOSE s \in LatestRows(table, m) : TRUE) = r
    BY <1>2
  <1> QED BY <1>1, <1>3 DEF ShownIn

\* A visible revision is not "absent".
LEMMA VisibleIsNotAbsent ==
    ASSUME TypeOK, NEW r \in DOMAIN revisionRows
    PROVE  Visible(revisionRows[r]) # Absent
  BY ServicesAssumption DEF Visible, TypeOK, Revision

\* A step that moves one memory as the lifecycle allows is a step of the lifecycle.
LEMMA OneMemoryMoves ==
    ASSUME ServicesInv, NEW m \in Memories, OthersStay(m),
           NEW old, old = ShownIn(revisionRows, m),
           NEW new, new = ShownIn(revisionRows', m),
           new # old, new \in Promise!Latest,
           IF old = Absent THEN Promise!Learn(new) ELSE Promise!Moves(old, new)
    PROVE  Promise!LifecycleNext
  <1>1. ASSUME NEW n \in Memories, n # m
        PROVE  ShownIn(revisionRows', n) = ShownIn(revisionRows, n)
    <2>1. /\ RowsOf(revisionRows', n) = RowsOf(revisionRows, n)
          /\ LatestRows(revisionRows', n) = LatestRows(revisionRows, n)
          /\ \A s \in RowsOf(revisionRows, n) : revisionRows'[s] = revisionRows[s]
      BY <1>1, OthersKeepLatest
    <2>2. CASE RowsOf(revisionRows, n) = {}
      BY <2>1, <2>2 DEF ShownIn
    <2>3. CASE RowsOf(revisionRows, n) # {}
      <3>1. LatestRows(revisionRows, n) # {}
        BY <2>3 DEF ServicesInv, LatestExists, RowsOf
      <3>2. (CHOOSE r \in LatestRows(revisionRows, n) : TRUE) \in RowsOf(revisionRows, n)
        BY <3>1 DEF LatestRows
      <3> QED BY <2>1, <3>2 DEF ShownIn
    <2> QED BY <2>2, <2>3
  <1>2. \A n \in Memories : /\ latest[n] = ShownIn(revisionRows, n)
                            /\ latest'[n] = ShownIn(revisionRows', n)
    BY ShownIsShownIn DEF latest
  <1>3. latest' = [latest EXCEPT ![m] = new]
    BY <1>1, <1>2 DEF latest
  <1>4. old = latest[m] /\ new = latest'[m]
    BY <1>2
  <1> QED BY <1>3, <1>4 DEF Promise!LifecycleNext

\* Creating learns, reactivating learns anew, and replacing corrects or edits; a
\* replacement of a memory that expired meanwhile learns it anew, or edits it.
LEMMA AppendMoves ==
    ASSUME ServicesInv, ServicesInv', NEW c \in Clients, Appending(c)
    PROVE  Promise!LifecycleNext
  <1> DEFINE m == call[c].memory
             old == ShownIn(revisionRows, m)
             rev == RevisionOf(call[c], "ACTIVE")
             new == Visible(rev)
  <1>1. /\ TypeOK /\ Histories /\ Distinct(revisionRows)
        /\ TypeOK' /\ Distinct(revisionRows')
        /\ Integrity /\ CallsAreSound
    BY DEF ServicesInv, HistoryInv, IntegrityInv, Integrity
  <1>2. PICK op \in {"create", "replace", "reactivate"} :
            /\ Committing(c, op)
            /\ op = "create" => CommitCreate(c)
    BY DEF Appending, CommitCreate, CommitReplace, CommitReactivate
  <1>3. /\ call[c].op = op /\ call[c].step = "write" /\ call[c].step \in Pending
        /\ Decided(revisionRows, call[c])
    BY <1>2 DEF ServicesInv, RequestsAreDecided, Committing, Pending
  <1>4. m \in Memories /\ call[c].number \in Number /\ call[c].number \in Nat
    BY <1>1, <1>3, NumbersAreNat DEF TypeOK, Call
  <1>5. PICK q \in RowId : Appended(c, q)
    BY CommitAppends
  <1>6. OthersStay(m)
    BY <1>1, <1>5, AppendStaysPut
  <1>7. call[c].payload \in Fact
    BY <1>3 DEF Decided
  <1>8. new = [number |-> call[c].number, lifecycle |-> "ACTIVE", payload |-> call[c].payload]
    BY DEF Visible, RevisionOf
  <1>9. new \in Promise!Latest
    BY <1>4, <1>7, <1>8 DEF Promise!Latest, Number, Fact, Promise!Fact, Source, Promise!Source
  <1>10. new = ShownIn(revisionRows', m)
    <2>1. \A s \in DOMAIN revisionRows' : revisionRows'[s].number \in Nat
      BY <1>1, RepositoryAssumption DEF TypeOK, Revision, Number
    <2>2. rev.memory = m /\ rev.number = call[c].number
      BY DEF RevisionOf
    <2>3. q \in RowsOf(revisionRows', m)
      BY <1>5, <2>2 DEF Appended, RowsOf
    <2>4. \A s \in RowsOf(revisionRows', m) : revisionRows'[s].number <= revisionRows'[q].number
      BY <1>1, <1>4, <1>5, <2>2, NumbersAreNat DEF Appended, RowsOf
    <2>5. q \in LatestRows(revisionRows', m)
      BY <2>3, <2>4 DEF LatestRows
    <2> QED BY <1>1, <1>5, <2>1, <2>5, ShowsLatest DEF Appended
  <1>11. CASE RowsOf(revisionRows, m) = {}
    <2>1. op = "create"
      BY <1>1, <1>3, <1>11 DEF Decided, CallsAreSound, LiveRows
    <2>2. call[c].number = 1 /\ call[c].payload.source = Automatic
      BY <1>1, <1>3, <2>1 DEF CallsAreSound, Decided
    <2>3. old = Absent
      BY <1>11 DEF ShownIn
    <2>4. new # Absent
      BY <1>4, <1>7, <1>8, ServicesAssumption DEF Lifecycle
    <2>5. Promise!Learn(new)
      BY <1>8, <2>2 DEF Promise!Learn, Promise!Learned, Automatic
    <2> HIDE DEF old, new, m
    <2> QED BY <1>4, <1>6, <1>9, <1>10, <2>3, <2>4, <2>5, OneMemoryMoves DEF old
  <1>12. CASE RowsOf(revisionRows, m) # {}
    <2>1. PICK t : t \in LatestRows(revisionRows, m)
      BY <1>12 DEF ServicesInv, LatestExists, RowsOf
    <2>2. t \in RowsOf(revisionRows, m) /\ t \in DOMAIN revisionRows
      BY <2>1 DEF LatestRows, RowsOf
    <2>3. op \in {"replace", "reactivate"}
      BY <1>1, <1>2, <1>12 DEF CommitCreate, Integrity, RowsOf
    <2>4. PICK s \in RowsOf(revisionRows, m) :
              /\ revisionRows[s].number = call[c].number - 1
              /\ op = "replace" /\ call[c].payload.source = Automatic
                     => Replaces(revisionRows[s].payload, call[c].payload)
      BY <1>1, <1>3, <2>3 DEF Decided, CallsAreSound, LiveRows
    <2>5. /\ revisionRows[s].number <= revisionRows[t].number
          /\ revisionRows[t].number < call[c].number
      BY <1>5, <2>1, <2>2 DEF LatestRows, Appended
    <2>6. revisionRows[t].number = call[c].number - 1
      BY <1>1, <1>4, <2>2, <2>4, <2>5, NumbersAreNat
    <2>7. s = t
      BY <1>1, <2>2, <2>4, <2>6 DEF Distinct, RowsOf
    <2>8. revisionRows[t].lifecycle \in {"ACTIVE", "EXPIRED"}
      <3>1. revisionRows[t].lifecycle \in Lifecycle
        BY <1>1, <2>2 DEF TypeOK, Revision
      <3>2. revisionRows[t].lifecycle # "DELETED"
        BY <1>5, <2>2 DEF Appended
      <3>3. revisionRows[t].lifecycle # "SUPERSEDED"
        <4>1. ASSUME revisionRows[t].lifecycle = "SUPERSEDED" PROVE FALSE
          <5>1. PICK x \in RowsOf(revisionRows, m) :
                    revisionRows[x].number > revisionRows[t].number
            BY <1>1, <2>2, <4>1 DEF Histories, SupersededHasSuccessor, RowsOf
          <5>2. revisionRows[x].number <= revisionRows[t].number
            BY <2>1 DEF LatestRows
          <5>3. x \in DOMAIN revisionRows
            BY DEF RowsOf
          <5> QED BY <1>1, <2>2, <5>1, <5>2, <5>3, NumbersAreNat
        <4> QED BY <4>1
      <3> QED BY <3>1, <3>2, <3>3 DEF Lifecycle
    <2>9. op = "reactivate" => revisionRows[t].lifecycle # "ACTIVE"
      BY <1>3, <1>5, <2>2 DEF Appended
    <2>10. old = Visible(revisionRows[t])
      BY <1>1, <2>1, NumbersAreNat, ShowsLatest
    <2>11. old # Absent
      BY <1>1, <2>2, <2>10, VisibleIsNotAbsent
    <2>12. /\ old.number = call[c].number - 1
           /\ old.lifecycle = revisionRows[t].lifecycle
           /\ old.payload = revisionRows[t].payload
      BY <2>6, <2>10 DEF Visible
    <2>13. /\ new.number = call[c].number /\ new.lifecycle = "ACTIVE"
           /\ new.payload = call[c].payload
      BY <1>8
    <2> HIDE DEF old, new, m
    <2>14. Promise!Follows(old, new) /\ new # old
      BY <1>4, <2>12, <2>13 DEF Promise!Follows
    <2>15. Promise!Moves(old, new)
      <3>1. CASE call[c].payload.source = Automatic
        <4>1. Promise!Learned(new)
          BY <2>13, <3>1 DEF Promise!Learned, Automatic
        <4>2. CASE old.lifecycle = "EXPIRED"
          BY <2>14, <4>1, <4>2 DEF Promise!Moves, Promise!LearnAnew
        <4>3. CASE old.lifecycle = "ACTIVE"
          <5>1. op = "replace"
            BY <2>3, <2>9, <2>12, <4>3
          <5>2. Replaces(old.payload, new.payload)
            BY <2>4, <2>7, <2>12, <2>13, <3>1, <5>1
          <5>3. Promise!Replaces(old.payload, new.payload)
            BY <5>2 DEF Replaces, Promise!Replaces, Authority, Promise!Authority,
                        Source, Promise!Source
          <5> QED BY <2>14, <4>1, <4>3, <5>3 DEF Promise!Moves, Promise!Correct
        <4> QED BY <2>8, <2>12, <4>2, <4>3
      <3>2. CASE call[c].payload.source # Automatic
        <4>1. Promise!UserEdited(new)
          BY <1>3, <2>3, <2>13, <3>2 DEF Decided, Promise!UserEdited
        <4> QED BY <2>8, <2>12, <2>14, <4>1 DEF Promise!Moves, Promise!EditByUser
      <3> QED BY <3>1, <3>2
    <2> QED BY <1>4, <1>6, <1>9, <1>10, <2>11, <2>14, <2>15, OneMemoryMoves DEF old
  <1> QED BY <1>11, <1>12

\* The ACTIVE revision that expires is the one the memory shows.
LEMMA ExpireMoves ==
    ASSUME ServicesInv, ServicesInv', NEW c \in Clients, CommitExpire(c)
    PROVE  Promise!LifecycleNext
  <1> DEFINE m == call[c].memory
             old == ShownIn(revisionRows, m)
             new == ShownIn(revisionRows', m)
  <1>1. /\ TypeOK /\ ActiveIsLatest /\ Distinct(revisionRows)
        /\ TypeOK' /\ Distinct(revisionRows')
    BY DEF ServicesInv, HistoryInv, IntegrityInv, Integrity, Histories
  <1>2. PICK r : Expired(c, r)
    BY DEF CommitExpire, Expired, ExpireRow
  <1>3. OthersStay(m)
    BY <1>1, <1>2, ExpireStaysPut
  <1>4. m \in Memories
    BY <1>1 DEF CommitExpire, Committing, Pending, TypeOK
  <1>5. /\ r \in RowsOf(revisionRows, m) /\ r \in DOMAIN revisionRows
        /\ revisionRows[r].lifecycle = "ACTIVE"
    BY <1>2 DEF Expired, ActiveRows, RowsOf
  <1>6. /\ DOMAIN revisionRows' = DOMAIN revisionRows
        /\ revisionRows'[r].lifecycle = "EXPIRED"
        /\ \A s \in DOMAIN revisionRows :
              /\ revisionRows'[s].memory = revisionRows[s].memory
              /\ revisionRows'[s].number = revisionRows[s].number
              /\ revisionRows'[s].payload = revisionRows[s].payload
    BY <1>1, <1>2, <1>5 DEF Expired, TypeOK, Revision
  <1>7. r \in LatestRows(revisionRows, m)
    BY <1>1, <1>5 DEF LatestRows, RowsOf, ActiveIsLatest
  <1>8. r \in LatestRows(revisionRows', m)
    BY <1>6, <1>7 DEF LatestRows, RowsOf
  <1>9. old = Visible(revisionRows[r])
    BY <1>1, <1>7, NumbersAreNat, ShowsLatest
  <1>10. \A s \in DOMAIN revisionRows' : revisionRows'[s].number \in Nat
    BY <1>1, RepositoryAssumption DEF TypeOK, Revision, Number
  <1>11. new = Visible(revisionRows'[r])
    BY <1>1, <1>8, <1>10, ShowsLatest
  <1>12. old # Absent
    BY <1>1, <1>5, <1>9, VisibleIsNotAbsent
  <1>13. Promise!Expire(old, new) /\ new # old
    BY <1>5, <1>6, <1>9, <1>11 DEF Visible, Promise!Expire
  <1>14. new \in Promise!Latest
    <2>1. revisionRows[r].payload \in Fact /\ revisionRows[r].number \in Number
      BY <1>1, <1>5 DEF ServicesInv, PayloadsFit, TypeOK, Revision
    <2> QED BY <1>5, <1>6, <1>11, <2>1
            DEF Visible, Promise!Latest, Number, Fact, Promise!Fact, Source, Promise!Source
  <1> HIDE DEF old, new, m
  <1> QED BY <1>3, <1>4, <1>12, <1>13, <1>14, OneMemoryMoves DEF old, new, Promise!Moves

\* The user deletes what is shown, as no other call on the memory is in flight.
LEMMA DeleteMoves ==
    ASSUME ServicesInv, ServicesInv', NEW c \in Clients, CommitDelete(c)
    PROVE  Promise!LifecycleNext
  <1> DEFINE m == call[c].memory
             old == ShownIn(revisionRows, m)
             new == ShownIn(revisionRows', m)
  <1>1. /\ TypeOK /\ Distinct(revisionRows)
        /\ TypeOK' /\ Distinct(revisionRows')
    BY DEF ServicesInv, HistoryInv, IntegrityInv, Integrity, Histories
  <1>2. PICK q \in RowId : Buried(c, q)
    BY <1>1, DeleteBuries
  <1>3. OthersStay(m)
    BY <1>2 DEF Buried
  <1>4. /\ m \in Memories /\ call[c].number \in Number /\ call[c].number \in Nat
        /\ call[c].op = "delete" /\ call[c].step \in Pending
    BY <1>1, NumbersAreNat DEF CommitDelete, Committing, Pending, TypeOK, Call
  <1>5. PICK r \in LatestRows(revisionRows, m) :
            /\ revisionRows[r].lifecycle = "ACTIVE"
            /\ revisionRows[r].number = call[c].number - 1
    BY <1>4 DEF ServicesInv, RequestsAreDecided, Decided
  <1>6. call[c].payload = NoPayload
    BY <1>4 DEF ServicesInv, RequestsAreDecided, Decided
  <1>7. old = Visible(revisionRows[r])
    BY <1>1, <1>5, NumbersAreNat, ShowsLatest
  <1>8. \A s \in DOMAIN revisionRows' : revisionRows'[s].number \in Nat
    BY <1>1, RepositoryAssumption DEF TypeOK, Revision, Number
  <1>9. q \in LatestRows(revisionRows', m)
    BY <1>2, <1>8 DEF Buried, LatestRows
  <1>10. new = Visible(revisionRows'[q])
    BY <1>1, <1>8, <1>9, ShowsLatest
  <1>11. new = [number |-> call[c].number, lifecycle |-> "DELETED", payload |-> NoPayload]
    BY <1>2, <1>6, <1>10 DEF Visible, Buried, RevisionOf
  <1>12. old # Absent
    BY <1>1, <1>5, <1>7, VisibleIsNotAbsent DEF LatestRows, RowsOf
  <1>13. /\ old.number = call[c].number - 1
         /\ old.lifecycle = "ACTIVE"
    BY <1>5, <1>7 DEF Visible
  <1>14. Promise!DeleteByUser(old, new) /\ new # old
    BY <1>4, <1>11, <1>13 DEF Promise!DeleteByUser, Promise!Follows
  <1>15. new \in Promise!Latest
    BY <1>4, <1>11 DEF Promise!Latest, Number
  <1> HIDE DEF old, new, m
  <1> QED BY <1>3, <1>4, <1>12, <1>14, <1>15, OneMemoryMoves DEF old, new, Promise!Moves

\* Governance, learning and retention, each in several sessions and all at once, do
\* nothing a user could tell from atomic requests decided on the revision they change.
THEOREM RefinesLifecycleHolds == ServicesSpec /\ []DeletesAreAlone => RefinesLifecycle
  <1>1. ServicesInit => Promise!LifecycleInit
    <2> SUFFICES ASSUME ServicesInit PROVE Promise!LifecycleInit
      OBVIOUS
    <2>1. \A m \in Memories : Shown(m) = Absent
      BY DEF ServicesInit, Init, Shown, RowsOf
    <2> QED BY <2>1 DEF Promise!LifecycleInit, latest
  <1>2. ServicesInv /\ ServicesInv' /\ [ServicesNext]_servicesVars
            => [Promise!LifecycleNext]_latest
    <2> SUFFICES ASSUME ServicesInv, ServicesInv', [ServicesNext]_servicesVars
                 PROVE  [Promise!LifecycleNext]_latest
      OBVIOUS
    <2>1. ASSUME UNCHANGED revisionRows PROVE UNCHANGED latest
      BY <2>1 DEF latest, Shown, RowsOf, LatestRows
    <2>2. CASE UNCHANGED servicesVars
      BY <2>1, <2>2 DEF servicesVars
    <2>3. ASSUME NEW c \in Clients,
                 LearnUnnamed(c) \/ ListMemories(c) \/ ScanOther(c) \/ Abandon(c)
          PROVE  UNCHANGED revisionRows
      BY <2>3 DEF LearnUnnamed, ListMemories, ScanOther, Abandon, vars
    <2>4. ASSUME NEW c \in Clients,
                 \/ Edit(c) \/ Delete(c) \/ ExpireDue(c) \/ LearnExisting(c)
                 \/ ScanDuplicate(c) \/ LearnNew(c)
          PROVE  UNCHANGED revisionRows
      BY <2>4, RequestDecides
    <2>5. ASSUME NEW c \in Clients, Step(c) PROVE [Promise!LifecycleNext]_latest
      <3>1. CASE SelectActive(c) \/ SelectMax(c) \/ CommitAdopt(c) \/ Fail(c)
        BY <2>1, <3>1 DEF SelectActive, SelectMax, CommitAdopt, Fail
      <3>2. CASE Appending(c)
        BY <3>2, AppendMoves
      <3>3. CASE CommitExpire(c)
        BY <3>3, ExpireMoves
      <3>4. CASE CommitDelete(c)
        BY <3>4, DeleteMoves
      <3> QED BY <2>5, <3>1, <3>2, <3>3, <3>4 DEF Step, Appending
    <2> QED BY <2>1, <2>2, <2>3, <2>4, <2>5 DEF ServicesNext
  <1> QED BY <1>1, <1>2, ServicesInvHolds, PTL
          DEF ServicesSpec, RefinesLifecycle, Promise!LifecycleSpec
==============================================================================
