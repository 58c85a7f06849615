----------------------- MODULE MemoryRepository_proofs -----------------------
(***************************************************************************)
(* Proofs about MemoryRepository for any number of memories, callers and   *)
(* revisions.                                                              *)
(***************************************************************************)
EXTENDS MemoryRepository, FiniteSetTheorems, TLAPS

-----------------------------------------------------------------------------
(* The statement that ends a transaction.                                  *)

\* Inserting a revision into a well-typed revision table gives a well-typed table:
\* the lemma every committing action of the type proof rests on.
LEMMA InsertType ==
    ASSUME NEW table, DOMAIN table \subseteq RowId,
           table \in [DOMAIN table -> Revision],
           NEW rev \in Revision, Insert(table, rev)
    PROVE  /\ DOMAIN revisionRows' \subseteq RowId
           /\ revisionRows' \in [DOMAIN revisionRows' -> Revision]
  <1>1. PICK r \in RowId :
            revisionRows' = [s \in DOMAIN table \cup {r} |->
                                IF s = r THEN rev ELSE table[s]]
    BY DEF Insert
  <1> QED BY <1>1

\* The idle call is a call.
LEMMA NoCallType == NoCall \in Call
  BY RepositoryAssumption DEF NoCall, Call, AllOperations, Steps, Pending, Number

\* The tables and the calls keep their types: row ids, revision numbers, keys and
\* the steps of a call (sqlite_repository.py) stay in their ranges.
LEMMA TypeStep == TypeOK /\ [Next]_vars => TypeOK'
  <1> SUFFICES ASSUME TypeOK, [Next]_vars PROVE TypeOK'
    OBVIOUS
  <1> USE DEF TypeOK
  <1>1. CASE UNCHANGED vars
    BY <1>1 DEF vars
  <1>2. ASSUME NEW c \in Clients, BeginAny(c)
        PROVE  TypeOK'
    <2>1. PICK op \in Operations, m \in Memories, n \in Number,
               p \in Payload \cup {NoPayload}, key \in Keys \cup {NoKey} :
                  Begin(c, op, m, n, p, key)
      BY <1>2 DEF BeginAny
    <2>2. op \in AllOperations
      BY RepositoryAssumption
    <2>3. FirstStep(op) \in Steps
      BY <2>2 DEF FirstStep, Steps, Pending, AllOperations
    <2> QED BY <2>1, <2>2, <2>3 DEF Begin, Call
  <1>3. ASSUME NEW c \in Clients, Step(c)
        PROVE  TypeOK'
    <2>1. /\ call[c] \in Call
          /\ call[c].op \in AllOperations
          /\ call[c].step \in Steps
          /\ call[c].number \in Number
          /\ call[c].payload \in Payload \cup {NoPayload}
          /\ call[c].key \in Keys \cup {NoKey}
      BY DEF Call
    <2>2. ASSUME Finish(c)
          PROVE  /\ call' \in [Clients -> Call]
                 /\ \A d \in Clients : call'[d].step \in Pending
                                           => call'[d].memory \in Memories
      BY <2>2, NoCallType DEF Finish, NoCall, Pending
    <2>3. ASSUME call[c].memory \in Memories, NEW lifecycle \in Lifecycle
          PROVE  RevisionOf(call[c], lifecycle) \in Revision
      BY <2>1, <2>3 DEF RevisionOf, Revision
    <2>4. ASSUME NEW op, Committing(c, op) PROVE call[c].memory \in Memories
      BY <2>4 DEF Committing, Pending
    <2>5. {"ACTIVE", "SUPERSEDED", "EXPIRED", "DELETED"} = Lifecycle
      BY DEF Lifecycle
    <2>6. CASE SelectActive(c)
      <3>1. PICK r \in RowId \cup {NoRow} :
               \/ call' = [call EXCEPT ![c].step = "select_max", ![c].row = r]
               \/ call' = [call EXCEPT ![c].step = "select_max"]
        BY <2>6 DEF SelectActive, ActiveRows, RowsOf
      <3>2. call[c].memory \in Memories
        BY <2>6 DEF SelectActive, Pending
      <3>3. /\ call' \in [Clients -> Call]
            /\ \A d \in Clients : call'[d].step \in Pending
                                      => call'[d].memory \in Memories
        BY <3>1, <3>2 DEF Call, Steps, Pending
      <3> QED BY <3>3, <2>6 DEF SelectActive
    <2>7. CASE SelectMax(c)
      <3>1. call' = [call EXCEPT ![c].step = "write"]
        BY <2>7 DEF SelectMax
      <3>2. call[c].memory \in Memories
        BY <2>7 DEF SelectMax, Pending
      <3>3. /\ call' \in [Clients -> Call]
            /\ \A d \in Clients : call'[d].step \in Pending
                                      => call'[d].memory \in Memories
        BY <3>1, <3>2 DEF Call, Steps, Pending
      <3> QED BY <3>3, <2>7 DEF SelectMax
    <2>8. CASE CommitCreate(c)
      <3>1. /\ DOMAIN revisionRows' \subseteq RowId
            /\ revisionRows' \in [DOMAIN revisionRows' -> Revision]
        BY <2>8, <2>3, <2>4, <2>5, InsertType DEF CommitCreate
      <3>2. /\ DOMAIN memoryRows' \subseteq Memories
            /\ memoryRows' \in [DOMAIN memoryRows' -> Keys \cup {NoKey}]
        BY <2>1, <2>4, <2>8 DEF CommitCreate
      <3> QED BY <3>1, <3>2, <2>2, <2>8 DEF CommitCreate
    <2>9. CASE CommitReplace(c)
      <3>1. /\ DOMAIN Supersede(call[c].row) = DOMAIN revisionRows
            /\ Supersede(call[c].row) \in [DOMAIN revisionRows -> Revision]
        BY <2>5 DEF Supersede, Revision
      <3>2. /\ DOMAIN revisionRows' \subseteq RowId
            /\ revisionRows' \in [DOMAIN revisionRows' -> Revision]
        BY <2>9, <2>3, <2>4, <2>5, <3>1, InsertType DEF CommitReplace
      <3> QED BY <3>2, <2>2, <2>9 DEF CommitReplace
    <2>10. CASE CommitReactivate(c)
      <3>1. /\ DOMAIN revisionRows' \subseteq RowId
            /\ revisionRows' \in [DOMAIN revisionRows' -> Revision]
        BY <2>10, <2>3, <2>4, <2>5, InsertType DEF CommitReactivate
      <3> QED BY <3>1, <2>2, <2>10 DEF CommitReactivate
    <2>11. CASE CommitExpire(c)
      <3>1. PICK r \in DOMAIN revisionRows :
                revisionRows' = [revisionRows EXCEPT ![r].lifecycle = "EXPIRED"]
        BY <2>11 DEF CommitExpire, ExpireRow, ActiveRows, RowsOf
      <3>2. /\ DOMAIN revisionRows' \subseteq RowId
            /\ revisionRows' \in [DOMAIN revisionRows' -> Revision]
        BY <3>1, <2>5 DEF Revision
      <3> QED BY <3>2, <2>2, <2>11 DEF CommitExpire
    <2>12. CASE CommitDelete(c)
      <3>1. /\ DOMAIN Without(call[c].memory) \subseteq RowId
            /\ Without(call[c].memory) \in [DOMAIN Without(call[c].memory) -> Revision]
        BY DEF Without
      <3>2. /\ DOMAIN revisionRows' \subseteq RowId
            /\ revisionRows' \in [DOMAIN revisionRows' -> Revision]
        BY <2>12, <2>3, <2>4, <2>5, <3>1, InsertType DEF CommitDelete
      <3> QED BY <3>2, <2>2, <2>12 DEF CommitDelete
    <2>13. CASE CommitAdopt(c)
      <3>1. /\ DOMAIN memoryRows' = DOMAIN memoryRows
            /\ memoryRows' \in [DOMAIN memoryRows -> Keys \cup {NoKey}]
        BY <2>1, <2>13 DEF CommitAdopt
      <3> QED BY <3>1, <2>2, <2>13 DEF CommitAdopt
    <2>14. CASE Fail(c)
      BY <2>14, <2>2 DEF Fail
    <2> QED BY <1>3, <2>6, <2>7, <2>8, <2>9, <2>10, <2>11, <2>12, <2>13, <2>14 DEF Step
  <1> QED BY <1>1, <1>2, <1>3 DEF Next

\* An empty store with no call in flight is well typed.
LEMMA TypeInit == Init => TypeOK
  BY NoCallType DEF Init, TypeOK, NoCall, Pending

\* Every reachable state is well typed.
THEOREM TypeCorrect == Spec => []TypeOK
  BY TypeInit, TypeStep, PTL DEF Spec

-----------------------------------------------------------------------------
(* Integrity and unique keys, for every mix of operations.                 *)

\* What the INSERT keeps of the table it ends on, and what it adds.
LEMMA InsertKeeps ==
    ASSUME NEW table, DOMAIN table \subseteq RowId,
           NEW rev \in Revision, Insert(table, rev)
    PROVE  \E r \in RowId \ DOMAIN table :
               /\ DOMAIN revisionRows' = DOMAIN table \cup {r}
               /\ revisionRows'[r] = rev
               /\ \A s \in DOMAIN table : revisionRows'[s] = table[s]
  <1>1. PICK r \in RowId :
            /\ IsNextRow(table, r)
            /\ revisionRows' = [s \in DOMAIN table \cup {r} |->
                                   IF s = r THEN rev ELSE table[s]]
    BY DEF Insert
  <1> QED BY <1>1 DEF IsNextRow

\* Inserting a row under a fresh id and a free number keeps ids and numbers distinct.
LEMMA InsertDistinct ==
    ASSUME NEW table, DOMAIN table \subseteq RowId, Distinct(table),
           NEW rev \in Revision, Insert(table, rev)
    PROVE  Distinct(revisionRows')
  <1>1. PICK r \in RowId \ DOMAIN table :
            /\ DOMAIN revisionRows' = DOMAIN table \cup {r}
            /\ revisionRows'[r] = rev
            /\ \A s \in DOMAIN table : revisionRows'[s] = table[s]
    BY InsertKeeps
  <1>2. \A s \in DOMAIN table : table[s].memory = rev.memory =>
            /\ table[s].number # rev.number
            /\ rev.lifecycle = "ACTIVE" => table[s].lifecycle # "ACTIVE"
    BY DEF Insert, NumberFree, ActiveFree, ActiveRows, RowsOf
  <1> QED BY <1>1, <1>2 DEF Distinct

\* A caller past its first check names a memory that exists (no memory row is ever
\* removed), so only a create can bring one.
CallsExist ==
    \A c \in Clients : call[c].step \in Pending /\ call[c].op # "create"
                           => call[c].memory \in DOMAIN memoryRows

IntegrityInv == TypeOK /\ Integrity /\ UniqueKeys /\ CallsExist

\* Every committing or refusing step of a call keeps the inductive invariant of Integrity.
LEMMA IntegrityStep == IntegrityInv /\ [Next]_vars => IntegrityInv'
  <1> SUFFICES ASSUME IntegrityInv, [Next]_vars PROVE IntegrityInv'
    OBVIOUS
  <1> USE DEF IntegrityInv
  <1>1. TypeOK'
    BY TypeStep
  <1>2. CASE UNCHANGED vars
    BY <1>1, <1>2 DEF vars, Integrity, Distinct, RowsOf, UniqueKeys, CallsExist
  <1>3. ASSUME NEW c \in Clients, BeginAny(c)
        PROVE  IntegrityInv'
    <2>1. PICK op \in Operations, m \in Memories, n \in Number,
               p \in Payload \cup {NoPayload}, key \in Keys \cup {NoKey} :
                  Begin(c, op, m, n, p, key)
      BY <1>3 DEF BeginAny
    <2>2. Integrity' /\ UniqueKeys'
      BY <2>1 DEF Begin, Integrity, Distinct, RowsOf, UniqueKeys
    <2>3. CallsExist'
      BY <2>1 DEF Begin, CallsExist, TypeOK
    <2> QED BY <1>1, <2>2, <2>3
  <1>4. ASSUME NEW c \in Clients, Step(c)
        PROVE  IntegrityInv'
    <2>1. ASSUME Finish(c), DOMAIN memoryRows \subseteq DOMAIN memoryRows'
          PROVE  CallsExist'
      BY <2>1 DEF Finish, CallsExist, TypeOK, NoCall, Pending
    <2>2. ASSUME UNCHANGED <<memoryRows, revisionRows>>
          PROVE  Integrity' /\ UniqueKeys'
      BY <2>2 DEF Integrity, Distinct, RowsOf, UniqueKeys
    <2>3. ASSUME NEW lifecycle \in Lifecycle, NEW op, Committing(c, op)
          PROVE  RevisionOf(call[c], lifecycle) \in Revision
      BY <2>3 DEF RevisionOf, Revision, Committing, Pending, TypeOK, Call
    <2>4. {"ACTIVE", "SUPERSEDED", "EXPIRED", "DELETED"} = Lifecycle
      BY DEF Lifecycle
    <2>5. ASSUME NEW table, DOMAIN table \subseteq RowId, Distinct(table),
                 NEW lifecycle \in Lifecycle, NEW op, Committing(c, op),
                 Insert(table, RevisionOf(call[c], lifecycle)),
                 DOMAIN memoryRows' = DOMAIN memoryRows \cup {call[c].memory},
                 \A r \in DOMAIN table : table[r].memory \in DOMAIN memoryRows,
                 \A m \in DOMAIN memoryRows :
                     RowsOf(table, m) # {} \/ m = call[c].memory
          PROVE  Integrity'
      <3> DEFINE rev == RevisionOf(call[c], lifecycle)
      <3>1. rev \in Revision
        BY <2>3, <2>5
      <3> HIDE DEF rev
      <3>2. Distinct(revisionRows')
        BY <2>5, <3>1, InsertDistinct DEF rev
      <3>3. PICK r \in RowId \ DOMAIN table :
                /\ DOMAIN revisionRows' = DOMAIN table \cup {r}
                /\ revisionRows'[r] = rev
                /\ \A s \in DOMAIN table : revisionRows'[s] = table[s]
        BY <2>5, <3>1, InsertKeeps DEF rev
      <3>4. rev.memory = call[c].memory
        BY DEF rev, RevisionOf
      <3>5. \A m \in DOMAIN memoryRows' : RowsOf(revisionRows', m) # {}
        BY <2>5, <3>3, <3>4 DEF RowsOf
      <3>6. \A s \in DOMAIN revisionRows' : revisionRows'[s].memory \in DOMAIN memoryRows'
        BY <2>5, <3>3, <3>4
      <3> QED BY <3>2, <3>5, <3>6 DEF Integrity
    <2>6. CASE SelectActive(c)
      <3>1. PICK r \in RowId \cup {NoRow} :
               \/ call' = [call EXCEPT ![c].step = "select_max", ![c].row = r]
               \/ call' = [call EXCEPT ![c].step = "select_max"]
        BY <2>6 DEF SelectActive, ActiveRows, RowsOf, TypeOK
      <3>2. CallsExist'
        BY <2>6, <3>1 DEF SelectActive, CallsExist, TypeOK, Pending, Call
      <3> QED BY <1>1, <2>2, <2>6, <3>2 DEF SelectActive
    <2>7. CASE SelectMax(c)
      <3>1. CallsExist'
        BY <2>7 DEF SelectMax, CallsExist, TypeOK, Pending
      <3> QED BY <1>1, <2>2, <2>7, <3>1 DEF SelectMax
    <2>8. CASE CommitCreate(c)
      <3>1. Integrity'
        BY <2>8, <2>4, <2>5 DEF CommitCreate, TypeOK, Integrity
      <3>2. UniqueKeys'
        BY <2>8 DEF CommitCreate, UniqueKeys, KeyFree
      <3>3. CallsExist'
        BY <2>8, <2>1 DEF CommitCreate
      <3> QED BY <1>1, <3>1, <3>2, <3>3
    <2>9. CASE CommitReplace(c)
      <3>1. call[c].memory \in DOMAIN memoryRows
        BY <2>9 DEF CommitReplace, Committing, Pending, CallsExist
      <3> DEFINE table == Supersede(call[c].row)
      <3>2. /\ DOMAIN table = DOMAIN revisionRows
            /\ \A r \in DOMAIN table :
                  /\ table[r].memory = revisionRows[r].memory
                  /\ table[r].number = revisionRows[r].number
                  /\ table[r].lifecycle = "ACTIVE" => revisionRows[r].lifecycle = "ACTIVE"
        BY DEF Supersede, TypeOK, Revision
      <3> HIDE DEF table
      <3>3. Distinct(table)
        BY <3>2 DEF Integrity, Distinct
      <3>4. \A m \in DOMAIN memoryRows : RowsOf(table, m) # {}
        BY <3>2 DEF Integrity, RowsOf
      <3>5. Insert(table, RevisionOf(call[c], "ACTIVE")) /\ UNCHANGED memoryRows
        BY <2>9 DEF CommitReplace, table
      <3>6. \A r \in DOMAIN table : table[r].memory \in DOMAIN memoryRows
        BY <3>2 DEF Integrity
      <3>7. Committing(c, "replace") /\ DOMAIN table \subseteq RowId
        BY <2>9, <3>2 DEF CommitReplace, TypeOK
      <3>8. Integrity'
        BY <3>1, <3>3, <3>4, <3>5, <3>6, <3>7, <2>4, <2>5
      <3> QED BY <1>1, <3>5, <3>8, <2>1, <2>9 DEF CommitReplace, UniqueKeys
    <2>10. CASE CommitReactivate(c)
      <3>1. call[c].memory \in DOMAIN memoryRows
        BY <2>10 DEF CommitReactivate, Committing, Pending, CallsExist
      <3>2. Integrity'
        BY <2>10, <2>4, <2>5, <3>1 DEF CommitReactivate, TypeOK, Integrity
      <3> QED BY <1>1, <3>2, <2>1, <2>10 DEF CommitReactivate, UniqueKeys
    <2>11. CASE CommitExpire(c)
      <3>1. PICK r \in DOMAIN revisionRows :
                revisionRows' = [revisionRows EXCEPT ![r].lifecycle = "EXPIRED"]
        BY <2>11 DEF CommitExpire, ExpireRow, ActiveRows, RowsOf
      <3>2. /\ DOMAIN revisionRows' = DOMAIN revisionRows
            /\ \A s \in DOMAIN revisionRows :
                  /\ revisionRows'[s].memory = revisionRows[s].memory
                  /\ revisionRows'[s].number = revisionRows[s].number
                  /\ revisionRows'[s].lifecycle = "ACTIVE"
                         => revisionRows[s].lifecycle = "ACTIVE"
        BY <3>1 DEF TypeOK, Revision
      <3>3. Finish(c) /\ UNCHANGED memoryRows
        BY <2>11 DEF CommitExpire
      <3>4. Integrity'
        BY <3>2, <3>3 DEF Integrity, Distinct, RowsOf
      <3> QED BY <1>1, <2>1, <3>3, <3>4 DEF UniqueKeys
    <2>12. CASE CommitDelete(c)
      <3>1. call[c].memory \in DOMAIN memoryRows
        BY <2>12 DEF CommitDelete, Committing, Pending, CallsExist
      <3> DEFINE table == Without(call[c].memory)
      <3>2. /\ DOMAIN table = DOMAIN revisionRows \ RowsOf(revisionRows, call[c].memory)
            /\ \A r \in DOMAIN table : table[r] = revisionRows[r]
        BY DEF Without
      <3> HIDE DEF table
      <3>3. Distinct(table)
        BY <3>2 DEF Integrity, Distinct
      <3>4. \A m \in DOMAIN memoryRows : RowsOf(table, m) # {} \/ m = call[c].memory
        BY <3>2 DEF Integrity, RowsOf
      <3>5. Insert(table, RevisionOf(call[c], "DELETED")) /\ UNCHANGED memoryRows
        BY <2>12 DEF CommitDelete, table
      <3>6. \A r \in DOMAIN table : table[r].memory \in DOMAIN memoryRows
        BY <3>2 DEF Integrity
      <3>7. Committing(c, "delete") /\ DOMAIN table \subseteq RowId
        BY <2>12, <3>2 DEF CommitDelete, TypeOK
      <3>8. Integrity'
        BY <3>1, <3>3, <3>4, <3>5, <3>6, <3>7, <2>4, <2>5
      <3> QED BY <1>1, <3>5, <3>8, <2>1, <2>12 DEF CommitDelete, UniqueKeys
    <2>13. CASE CommitAdopt(c)
      <3>1. call[c].memory \in DOMAIN memoryRows
        BY <2>13 DEF CommitAdopt, Committing, Pending, CallsExist
      <3>2. DOMAIN memoryRows' = DOMAIN memoryRows
        BY <2>13 DEF CommitAdopt
      <3>3. Integrity'
        BY <2>13, <3>2 DEF CommitAdopt, Integrity, Distinct, RowsOf
      <3>4. UniqueKeys'
        <4>1. memoryRows' = [memoryRows EXCEPT ![call[c].memory] = call[c].key]
          BY <2>13 DEF CommitAdopt
        <4>2. CASE memoryRows[call[c].memory] = call[c].key
          BY <3>1, <4>1, <4>2 DEF UniqueKeys, TypeOK
        <4>3. CASE KeyFree(call[c].key)
          BY <3>1, <3>2, <4>1, <4>3 DEF UniqueKeys, KeyFree, TypeOK
        <4> QED BY <2>13, <4>2, <4>3 DEF CommitAdopt, MayAdopt
      <3> QED BY <1>1, <3>2, <3>3, <3>4, <2>1, <2>13 DEF CommitAdopt
    <2>14. CASE Fail(c)
      BY <1>1, <2>1, <2>2, <2>14 DEF Fail
    <2> QED BY <1>4, <2>6, <2>7, <2>8, <2>9, <2>10, <2>11, <2>12, <2>13, <2>14 DEF Step
  <1> QED BY <1>2, <1>3, <1>4 DEF Next

\* The empty store satisfies the inductive invariant of Integrity.
LEMMA IntegrityInit == Init => IntegrityInv
  BY TypeInit DEF Init, IntegrityInv, Integrity, Distinct, RowsOf, UniqueKeys,
                  CallsExist, NoCall, Pending

\* The inductive invariant holds in every reachable state of the repository.
LEMMA IntegrityInvHolds == Spec => []IntegrityInv
  BY IntegrityInit, IntegrityStep, PTL DEF Spec

\* Create, replace, reactivate, expire, delete and adopt keep both tables coherent
\* in every interleaving, deletes included.
THEOREM IntegrityHolds == Spec => []Integrity
  <1>1. IntegrityInv => Integrity
    BY DEF IntegrityInv
  <1> QED BY <1>1, IntegrityInvHolds, PTL

\* No interleaving of creates and adoptions gives one identity key to two memories.
THEOREM UniqueKeysHold == Spec => []UniqueKeys
  <1>1. IntegrityInv => UniqueKeys
    BY DEF IntegrityInv
  <1> QED BY <1>1, IntegrityInvHolds, PTL

\* A key once given to a memory stays with it: no create, adopt or delete, however
\* they interleave, takes it away or changes it.
THEOREM KeysStayHolds == Spec => KeysAreStable
  <1> DEFINE Stays == \A m \in DOMAIN memoryRows :
                 memoryRows[m] # NoKey => /\ m \in DOMAIN memoryRows'
                                          /\ memoryRows'[m] = memoryRows[m]
  <1>1. TypeOK /\ [Next]_vars => [Stays]_memoryRows
    <2> SUFFICES ASSUME TypeOK, Next, memoryRows' # memoryRows PROVE Stays
      BY DEF vars
    <2>1. PICK c \in Clients : CommitCreate(c) \/ CommitAdopt(c)
      BY DEF Next, BeginAny, Begin, Step, SelectActive, SelectMax, CommitReplace,
             CommitReactivate, CommitExpire, CommitDelete, Fail
    <2>2. CASE CommitCreate(c)
      BY <2>2 DEF CommitCreate
    <2>3. CASE CommitAdopt(c)
      <3>1. /\ MayAdopt(memoryRows[call[c].memory], call[c].key)
            /\ memoryRows' = [memoryRows EXCEPT ![call[c].memory] = call[c].key]
        BY <2>3 DEF CommitAdopt
      <3> QED BY <3>1 DEF MayAdopt, TypeOK
    <2> QED BY <2>1, <2>2, <2>3
  <1> QED BY <1>1, TypeCorrect, PTL DEF Spec, KeysAreStable

-----------------------------------------------------------------------------
(* Histories, while a delete is the only call on its memory.               *)
(*                                                                         *)
(* The properties are not inductive alone: what a caller read some steps   *)
(* ago must still mean something when it writes.  Only a delete removes    *)
(* rows, and no other call then knows anything of that memory.  So the     *)
(* loaded row still is an earlier revision of the same memory, and the     *)
(* revision before the incoming one still exists: a free number is the     *)
(* next number.                                                            *)

\* A row of m that no tombstone has replaced, so m has no tombstone.
LiveRows(m) == {s \in RowsOf(revisionRows, m) : revisionRows[s].lifecycle # "DELETED"}

CallsAreSound ==
    \A c \in Clients : call[c].step \in Pending =>
        /\ call[c].op = "create" => call[c].number = 1
        /\ call[c].op = "replace" /\ call[c].step # "select_active" =>
              call[c].row \in LiveRows(call[c].memory)
        /\ call[c].op = "replace" /\ call[c].step = "write" =>
              revisionRows[call[c].row].number < call[c].number
        /\ call[c].op \in {"replace", "reactivate"} /\ call[c].step = "write" =>
              \E s \in LiveRows(call[c].memory) :
                  revisionRows[s].number = call[c].number - 1

\* A tombstone is the only row of its memory.
TombstonesStandAlone ==
    \A r, s \in DOMAIN revisionRows :
        /\ revisionRows[r].lifecycle = "DELETED"
        /\ revisionRows[s].memory = revisionRows[r].memory
        => s = r

Histories ==
    /\ TombstonesStandAlone
    /\ HistoryUnbroken
    /\ ActiveIsLatest
    /\ SupersededHasSuccessor

HistoryInv == IntegrityInv /\ Histories /\ CallsAreSound

\* A step that keeps the rows of every memory another call is about, except that they
\* may be superseded or expire, keeps every in-flight call sound.
LEMMA CallsStaySound ==
    ASSUME TypeOK, CallsAreSound, NEW c \in Clients, Finish(c),
           \A d \in Clients \ {c} : \A s \in RowsOf(revisionRows, call[d].memory) :
               /\ s \in DOMAIN revisionRows'
               /\ revisionRows'[s].memory = revisionRows[s].memory
               /\ revisionRows'[s].number = revisionRows[s].number
               /\ revisionRows'[s].lifecycle = "DELETED"
                      => revisionRows[s].lifecycle = "DELETED"
    PROVE  CallsAreSound'
  <1> SUFFICES ASSUME NEW d \in Clients, call'[d].step \in Pending
               PROVE  CallsAreSound!(d)'
    BY DEF CallsAreSound
  <1>1. d # c /\ call'[d] = call[d]
    BY DEF Finish, TypeOK, NoCall, Pending
  <1>2. \A s \in LiveRows(call[d].memory) : /\ s \in LiveRows(call[d].memory)'
                                            /\ revisionRows'[s].number = revisionRows[s].number
    BY <1>1 DEF LiveRows, RowsOf
  <1> QED BY <1>1, <1>2 DEF CallsAreSound

\* The revision an ACTIVE INSERT brings has its predecessor, or is the first.
Succeeds(rev) ==
    \/ rev.number = 1 /\ RowsOf(revisionRows, rev.memory) = {}
    \/ \E s \in LiveRows(rev.memory) : revisionRows[s].number = rev.number - 1

\* What uq_memory_revision_number is worth: in an unbroken history, a free number
\* whose predecessor exists is above every number of the memory.
LEMMA FreeNumberIsNext ==
    ASSUME HistoryInv, NEW table, DOMAIN table = DOMAIN revisionRows,
           \A s \in DOMAIN table : /\ table[s].memory = revisionRows[s].memory
                                   /\ table[s].number = revisionRows[s].number,
           NEW rev \in Revision, NumberFree(table, rev), Succeeds(rev)
    PROVE  \A s \in RowsOf(revisionRows, rev.memory) :
              revisionRows[s].number < rev.number /\ revisionRows[s].lifecycle # "DELETED"
  <1> SUFFICES ASSUME NEW s \in RowsOf(revisionRows, rev.memory)
               PROVE  /\ revisionRows[s].number < rev.number
                      /\ revisionRows[s].lifecycle # "DELETED"
    OBVIOUS
  <1>1. /\ rev.number \in Nat /\ rev.number >= 1
        /\ revisionRows[s].number \in Nat
    BY RepositoryAssumption DEF HistoryInv, IntegrityInv, TypeOK, Revision, Number, RowsOf
  <1>2. revisionRows[s].lifecycle # "DELETED"
    BY DEF Succeeds, LiveRows, RowsOf, HistoryInv, Histories, TombstonesStandAlone
  <1>3. \A q \in DOMAIN revisionRows : revisionRows[q].memory = rev.memory
                                           => revisionRows[q].number # rev.number
    BY DEF NumberFree, RowsOf
  <1>4. ASSUME revisionRows[s].number >= rev.number PROVE FALSE
    <2>1. rev.number \in 1..revisionRows[s].number
      BY <1>1, <1>4
    <2>2. \E q \in DOMAIN revisionRows : /\ revisionRows[q].memory = rev.memory
                                         /\ revisionRows[q].number = rev.number
      BY <1>2, <2>1 DEF HistoryInv, Histories, HistoryUnbroken, RowsOf
    <2> QED BY <1>3, <2>2
  <1> QED BY <1>1, <1>2, <1>4

\* The INSERT of an ACTIVE revision whose predecessor exists extends the history of
\* its memory by one, on a table that differs from the stored one by lifecycles only.
LEMMA InsertExtendsHistory ==
    ASSUME HistoryInv, NEW table, DOMAIN table = DOMAIN revisionRows,
           \A s \in DOMAIN table :
               /\ table[s].memory = revisionRows[s].memory
               /\ table[s].number = revisionRows[s].number
               /\ table[s].lifecycle \in {revisionRows[s].lifecycle, "SUPERSEDED"},
           NEW rev \in Revision, rev.lifecycle = "ACTIVE", Insert(table, rev),
           Succeeds(rev),
           \A s \in DOMAIN table :
               \/ table[s] = revisionRows[s]
               \/ table[s].memory = rev.memory /\ table[s].number < rev.number
    PROVE  /\ Histories'
           /\ \A s \in DOMAIN revisionRows :
                 /\ s \in DOMAIN revisionRows'
                 /\ revisionRows'[s].memory = revisionRows[s].memory
                 /\ revisionRows'[s].number = revisionRows[s].number
                 /\ revisionRows'[s].lifecycle = "DELETED"
                        => revisionRows[s].lifecycle = "DELETED"
  <1>1. PICK r \in RowId \ DOMAIN table :
            /\ DOMAIN revisionRows' = DOMAIN table \cup {r}
            /\ revisionRows'[r] = rev
            /\ \A s \in DOMAIN table : revisionRows'[s] = table[s]
    BY InsertKeeps DEF HistoryInv, IntegrityInv, TypeOK
  <1>2. /\ rev.number \in Nat /\ rev.number >= 1
        /\ \A s \in DOMAIN table : table[s].number \in Nat
    BY RepositoryAssumption DEF HistoryInv, IntegrityInv, TypeOK, Revision, Number
  <1>3. \A s \in DOMAIN table :
            table[s].memory = rev.memory => /\ table[s].number < rev.number
                                            /\ revisionRows[s].lifecycle # "DELETED"
                                            /\ table[s].lifecycle # "ACTIVE"
    <2>1. \A s \in RowsOf(revisionRows, rev.memory) :
              revisionRows[s].number < rev.number /\ revisionRows[s].lifecycle # "DELETED"
      BY FreeNumberIsNext DEF Insert
    <2>2. rev.lifecycle = "ACTIVE" => ActiveRows(table, rev.memory) = {}
      BY DEF Insert, ActiveFree
    <2> QED BY <2>1, <2>2 DEF ActiveRows, RowsOf
  <1>4. TombstonesStandAlone'
    <2>1. \A s \in DOMAIN table : table[s].lifecycle = "DELETED"
                                      => revisionRows[s].lifecycle = "DELETED"
      OBVIOUS
    <2> QED BY <1>1, <1>3, <2>1 DEF HistoryInv, Histories, TombstonesStandAlone
  <1>5. HistoryUnbroken'
    <2> SUFFICES ASSUME NEW q \in DOMAIN revisionRows', NEW n \in 1..revisionRows'[q].number,
                        revisionRows'[q].lifecycle # "DELETED"
                 PROVE  \E s \in DOMAIN revisionRows' :
                            /\ revisionRows'[s].memory = revisionRows'[q].memory
                            /\ revisionRows'[s].number = n
      BY DEF HistoryUnbroken, RowsOf
    <2>1. CASE q \in DOMAIN table /\ revisionRows[q].lifecycle # "DELETED"
      <3>1. \E s \in DOMAIN revisionRows : /\ revisionRows[s].memory = revisionRows[q].memory
                                           /\ revisionRows[s].number = n
        BY <1>1, <2>1 DEF HistoryInv, Histories, HistoryUnbroken, RowsOf
      <3> QED BY <1>1, <2>1, <3>1
    <2>2. CASE q \in DOMAIN table /\ revisionRows[q].lifecycle = "DELETED"
      BY <1>1, <1>3, <2>2
    <2>3. CASE q = r /\ n = rev.number
      BY <1>1, <2>3
    <2>4. CASE q = r /\ n # rev.number
      <3>1. n \in 1..(rev.number - 1) /\ rev.number # 1
        BY <1>1, <1>2, <2>4
      <3>2. PICK p \in LiveRows(rev.memory) : revisionRows[p].number = rev.number - 1
        BY <3>1 DEF Succeeds
      <3>3. \E s \in DOMAIN revisionRows : /\ revisionRows[s].memory = rev.memory
                                           /\ revisionRows[s].number = n
        BY <3>1, <3>2 DEF HistoryInv, Histories, HistoryUnbroken, LiveRows, RowsOf
      <3> QED BY <1>1, <2>4, <3>3
    <2> QED BY <1>1, <2>1, <2>2, <2>3, <2>4
  <1>6. ActiveIsLatest'
    BY <1>1, <1>2, <1>3 DEF HistoryInv, Histories, ActiveIsLatest
  <1>7. SupersededHasSuccessor'
    <2> SUFFICES ASSUME NEW q \in DOMAIN revisionRows',
                        revisionRows'[q].lifecycle = "SUPERSEDED"
                 PROVE  \E s \in DOMAIN revisionRows' :
                            /\ revisionRows'[s].memory = revisionRows'[q].memory
                            /\ revisionRows'[s].number > revisionRows'[q].number
      BY DEF SupersededHasSuccessor, RowsOf
    <2>1. q \in DOMAIN table
      BY <1>1
    <2>2. CASE table[q] = revisionRows[q]
      <3>1. \E s \in DOMAIN revisionRows :
                /\ revisionRows[s].memory = revisionRows[q].memory
                /\ revisionRows[s].number > revisionRows[q].number
        BY <1>1, <2>1, <2>2 DEF HistoryInv, Histories, SupersededHasSuccessor, RowsOf
      <3> QED BY <1>1, <2>1, <3>1
    <2>3. CASE table[q].memory = rev.memory /\ table[q].number < rev.number
      BY <1>1, <1>2, <2>1, <2>3
    <2> QED BY <2>1, <2>2, <2>3
  <1>8. \A s \in DOMAIN revisionRows :
            /\ s \in DOMAIN revisionRows'
            /\ revisionRows'[s].memory = revisionRows[s].memory
            /\ revisionRows'[s].number = revisionRows[s].number
            /\ revisionRows'[s].lifecycle = "DELETED"
                   => revisionRows[s].lifecycle = "DELETED"
    BY <1>1
  <1> QED BY <1>4, <1>5, <1>6, <1>7, <1>8 DEF Histories

\* Replacing every row of a memory by its tombstone leaves the other histories alone.
LEMMA DeleteKeepsHistories ==
    ASSUME HistoryInv, NEW rev \in Revision, rev.lifecycle = "DELETED",
           Insert(Without(rev.memory), rev)
    PROVE  /\ Histories'
           /\ \A s \in DOMAIN revisionRows : revisionRows[s].memory # rev.memory =>
                 s \in DOMAIN revisionRows' /\ revisionRows'[s] = revisionRows[s]
  <1> DEFINE table == Without(rev.memory)
  <1>1. /\ DOMAIN table = {s \in DOMAIN revisionRows : revisionRows[s].memory # rev.memory}
        /\ \A s \in DOMAIN table : table[s] = revisionRows[s]
    BY DEF Without, RowsOf
  <1> HIDE DEF table
  <1>2. PICK r \in RowId \ DOMAIN table :
            /\ DOMAIN revisionRows' = DOMAIN table \cup {r}
            /\ revisionRows'[r] = rev
            /\ \A s \in DOMAIN table : revisionRows'[s] = table[s]
    BY <1>1, InsertKeeps DEF HistoryInv, IntegrityInv, TypeOK, table
  <1>3. TombstonesStandAlone'
    BY <1>1, <1>2 DEF HistoryInv, Histories, TombstonesStandAlone
  <1>4. HistoryUnbroken'
    <2> SUFFICES ASSUME NEW q \in DOMAIN revisionRows', NEW n \in 1..revisionRows'[q].number,
                        revisionRows'[q].lifecycle # "DELETED"
                 PROVE  \E s \in DOMAIN revisionRows' :
                            /\ revisionRows'[s].memory = revisionRows'[q].memory
                            /\ revisionRows'[s].number = n
      BY DEF HistoryUnbroken, RowsOf
    <2>1. q \in DOMAIN table /\ revisionRows'[q] = revisionRows[q]
      BY <1>1, <1>2
    <2>2. \E s \in DOMAIN revisionRows : /\ revisionRows[s].memory = revisionRows[q].memory
                                         /\ revisionRows[s].number = n
      BY <1>1, <2>1 DEF HistoryInv, Histories, HistoryUnbroken, RowsOf
    <2> QED BY <1>1, <1>2, <2>1, <2>2
  <1>5. ActiveIsLatest'
    BY <1>1, <1>2 DEF HistoryInv, Histories, ActiveIsLatest
  <1>6. SupersededHasSuccessor'
    <2> SUFFICES ASSUME NEW q \in DOMAIN revisionRows',
                        revisionRows'[q].lifecycle = "SUPERSEDED"
                 PROVE  \E s \in DOMAIN revisionRows' :
                            /\ revisionRows'[s].memory = revisionRows'[q].memory
                            /\ revisionRows'[s].number > revisionRows'[q].number
      BY DEF SupersededHasSuccessor, RowsOf
    <2>1. q \in DOMAIN table /\ revisionRows'[q] = revisionRows[q]
      BY <1>1, <1>2
    <2>2. \E s \in DOMAIN revisionRows : /\ revisionRows[s].memory = revisionRows[q].memory
                                         /\ revisionRows[s].number > revisionRows[q].number
      BY <1>1, <2>1 DEF HistoryInv, Histories, SupersededHasSuccessor, RowsOf
    <2> QED BY <1>1, <1>2, <2>1, <2>2
  <1> QED BY <1>1, <1>2, <1>3, <1>4, <1>5, <1>6 DEF Histories

\* Every step keeps the histories, if a delete is the only call on its memory when it
\* commits.
LEMMA HistoryStep == HistoryInv /\ DeletesAreAlone /\ [Next]_vars => HistoryInv'
  <1> SUFFICES ASSUME HistoryInv, DeletesAreAlone, [Next]_vars PROVE HistoryInv'
    OBVIOUS
  <1>1. IntegrityInv'
    BY IntegrityStep DEF HistoryInv
  <1>2. TypeOK
    BY DEF HistoryInv, IntegrityInv
  <1>3. ASSUME UNCHANGED revisionRows PROVE Histories'
    BY <1>3 DEF HistoryInv, Histories, TombstonesStandAlone, HistoryUnbroken, ActiveIsLatest,
                SupersededHasSuccessor, RowsOf
  <1>4. CASE UNCHANGED vars
    BY <1>1, <1>3, <1>4 DEF vars, HistoryInv, CallsAreSound, LiveRows, RowsOf
  <1>5. ASSUME NEW c \in Clients, BeginAny(c)
        PROVE  HistoryInv'
    <2>1. PICK op \in Operations, m \in Memories, n \in Number,
               p \in Payload \cup {NoPayload}, key \in Keys \cup {NoKey} :
                  Begin(c, op, m, n, p, key)
      BY <1>5 DEF BeginAny
    <2>2. /\ UNCHANGED revisionRows
          /\ call' = [call EXCEPT ![c] =
                         [op |-> op, step |-> FirstStep(op), memory |-> m,
                          number |-> n, payload |-> p, key |-> key, row |-> NoRow]]
          /\ op = "create" => n = 1
      BY <2>1 DEF Begin
    <2>3. CallsAreSound'
      BY <1>2, <2>2 DEF HistoryInv, CallsAreSound, TypeOK, LiveRows, RowsOf, FirstStep
    <2> QED BY <1>1, <1>3, <2>2, <2>3 DEF HistoryInv
  <1>6. ASSUME NEW c \in Clients, Step(c)
        PROVE  HistoryInv'
    <2> DEFINE rev == RevisionOf(call[c], "ACTIVE")
               RowsKept == \A s \in DOMAIN revisionRows :
                              /\ s \in DOMAIN revisionRows'
                              /\ revisionRows'[s].memory = revisionRows[s].memory
                              /\ revisionRows'[s].number = revisionRows[s].number
                              /\ revisionRows'[s].lifecycle = "DELETED"
                                     => revisionRows[s].lifecycle = "DELETED"
    <2>1. ASSUME Finish(c), RowsKept PROVE CallsAreSound'
      BY <1>2, <2>1, CallsStaySound DEF HistoryInv, RowsOf
    <2>2. ASSUME NEW op, Committing(c, op)
          PROVE  /\ rev \in Revision
                 /\ rev.memory = call[c].memory
                 /\ rev.number = call[c].number
                 /\ rev.lifecycle = "ACTIVE"
      BY <1>2, <2>2 DEF RevisionOf, Revision, Lifecycle, Committing, Pending, TypeOK, Call
    <2> HIDE DEF rev
    <2>3. CASE SelectActive(c)
      <3>1. PICK r \in RowId \cup {NoRow} :
               /\ call' \in {[call EXCEPT ![c].step = "select_max", ![c].row = r],
                             [call EXCEPT ![c].step = "select_max"]}
               /\ call[c].op = "replace" =>
                     /\ call' = [call EXCEPT ![c].step = "select_max", ![c].row = r]
                     /\ r \in LiveRows(call[c].memory)
        BY <1>2, <2>3 DEF SelectActive, ActiveRows, LiveRows, RowsOf, TypeOK
      <3>2. UNCHANGED revisionRows /\ call[c].step = "select_active"
        BY <2>3 DEF SelectActive
      <3>3. CallsAreSound'
        <4> SUFFICES ASSUME NEW d \in Clients, call'[d].step \in Pending
                     PROVE  CallsAreSound!(d)'
          BY DEF CallsAreSound
        <4>1. CASE d # c
          BY <1>2, <3>1, <3>2, <4>1
             DEF HistoryInv, CallsAreSound, TypeOK, LiveRows, RowsOf
        <4>2. CASE d = c
          <5>1. /\ call'[c].op = call[c].op /\ call'[c].memory = call[c].memory
                /\ call'[c].number = call[c].number /\ call'[c].step = "select_max"
                /\ call[c].op = "replace" => call'[c].row \in LiveRows(call[c].memory)
            BY <1>2, <3>1 DEF TypeOK, Call
          <5>2. call[c].op = "create" => call[c].number = 1
            BY <3>2 DEF HistoryInv, CallsAreSound, Pending
          <5> QED BY <3>2, <4>2, <5>1, <5>2 DEF LiveRows, RowsOf
        <4> QED BY <4>1, <4>2
      <3> QED BY <1>1, <1>3, <3>2, <3>3 DEF HistoryInv
    <2>4. CASE SelectMax(c)
      <3>1. PICK q \in LatestRows(revisionRows, call[c].memory) :
                /\ call[c].number = revisionRows[q].number + 1
                /\ call[c].op = "reactivate" => revisionRows[q].lifecycle = "EXPIRED"
                /\ call' = [call EXCEPT ![c].step = "write"]
                /\ UNCHANGED revisionRows
        BY <2>4 DEF SelectMax, IsSuccessor, Reactivatable
      <3>2. \A s \in DOMAIN revisionRows : revisionRows[s].number \in Nat
        BY <1>2, RepositoryAssumption DEF TypeOK, Revision, Number
      <3>3. \A s \in RowsOf(revisionRows, call[c].memory) :
                revisionRows[s].number < call[c].number
        BY <3>1, <3>2 DEF LatestRows, RowsOf
      <3>4. call[c].step = "select_max"
        BY <2>4 DEF SelectMax
      <3>5. call[c].op = "replace" => call[c].row \in LiveRows(call[c].memory)
        BY <3>4 DEF HistoryInv, CallsAreSound, Pending
      <3>6. call[c].op \in {"replace", "reactivate"} =>
                /\ q \in LiveRows(call[c].memory)
                /\ revisionRows[q].number = call[c].number - 1
        <4>1. /\ q \in RowsOf(revisionRows, call[c].memory)
              /\ revisionRows[q].number = call[c].number - 1
          BY <3>1, <3>2 DEF LatestRows, RowsOf
        <4>2. call[c].op = "replace" => revisionRows[q].lifecycle # "DELETED"
          BY <3>5, <4>1 DEF HistoryInv, Histories, TombstonesStandAlone, LiveRows, RowsOf
        <4> QED BY <3>1, <4>1, <4>2 DEF LiveRows
      <3>7. CallsAreSound'
        <4> SUFFICES ASSUME NEW d \in Clients, call'[d].step \in Pending
                     PROVE  CallsAreSound!(d)'
          BY DEF CallsAreSound
        <4>1. CASE d # c
          BY <1>2, <3>1, <4>1 DEF HistoryInv, CallsAreSound, TypeOK, LiveRows, RowsOf
        <4>2. CASE d = c
          <5>1. /\ call'[c].op = call[c].op /\ call'[c].memory = call[c].memory
                /\ call'[c].number = call[c].number /\ call'[c].row = call[c].row
            BY <1>2, <3>1 DEF TypeOK, Call
          <5>2. call[c].op = "create" => call[c].number = 1
            BY <3>4 DEF HistoryInv, CallsAreSound, Pending
          <5>3. /\ LiveRows(call[c].memory)' = {s \in RowsOf(revisionRows, call'[c].memory) :
                                                  revisionRows[s].lifecycle # "DELETED"}
                /\ revisionRows' = revisionRows
            BY <3>1, <5>1 DEF LiveRows, RowsOf
          <5> QED BY <3>3, <3>5, <3>6, <4>2, <5>1, <5>2, <5>3 DEF LiveRows
        <4> QED BY <4>1, <4>2
      <3> QED BY <1>1, <1>3, <3>1, <3>7 DEF HistoryInv
    <2>5. CASE CommitCreate(c)
      <3>1. call[c].number = 1 /\ Committing(c, "create")
        BY <2>5 DEF CommitCreate, Committing, HistoryInv, CallsAreSound, Pending
      <3>2. Insert(revisionRows, rev)
        BY <2>5 DEF CommitCreate, rev
      <3>3. RowsOf(revisionRows, call[c].memory) = {}
        BY <2>5 DEF CommitCreate, HistoryInv, IntegrityInv, Integrity, RowsOf
      <3>4. Histories' /\ RowsKept
        BY <2>2, <3>1, <3>2, <3>3, InsertExtendsHistory DEF Succeeds
      <3> QED BY <1>1, <2>1, <2>5, <3>4 DEF CommitCreate, HistoryInv
    <2>6. CASE CommitReplace(c)
      <3> DEFINE table == Supersede(call[c].row)
      <3>1. /\ Committing(c, "replace")
            /\ Insert(table, rev)
        BY <2>6 DEF CommitReplace, rev
      <3>2. /\ call[c].row \in RowsOf(revisionRows, call[c].memory)
            /\ revisionRows[call[c].row].number < call[c].number
            /\ \E s \in LiveRows(call[c].memory) :
                  revisionRows[s].number = call[c].number - 1
        BY <3>1 DEF Committing, HistoryInv, CallsAreSound, Pending, LiveRows
      <3>3. /\ DOMAIN table = DOMAIN revisionRows
            /\ \A s \in DOMAIN table :
                  /\ table[s].memory = revisionRows[s].memory
                  /\ table[s].number = revisionRows[s].number
                  /\ table[s].lifecycle \in {revisionRows[s].lifecycle, "SUPERSEDED"}
                  /\ s # call[c].row => table[s] = revisionRows[s]
        BY <1>2 DEF Supersede, TypeOK, Revision
      <3> HIDE DEF table
      <3>4. \A s \in DOMAIN table :
                \/ table[s] = revisionRows[s]
                \/ table[s].memory = rev.memory /\ table[s].number < rev.number
        BY <2>2, <3>1, <3>2, <3>3 DEF RowsOf
      <3>5. Histories' /\ RowsKept
        BY <2>2, <3>1, <3>2, <3>3, <3>4, InsertExtendsHistory DEF Succeeds
      <3> QED BY <1>1, <2>1, <2>6, <3>5 DEF CommitReplace, HistoryInv
    <2>7. CASE CommitReactivate(c)
      <3>1. /\ Committing(c, "reactivate")
            /\ Insert(revisionRows, rev)
        BY <2>7 DEF CommitReactivate, rev
      <3>2. \E s \in LiveRows(call[c].memory) :
                revisionRows[s].number = call[c].number - 1
        BY <3>1 DEF Committing, HistoryInv, CallsAreSound, Pending
      <3>3. Histories' /\ RowsKept
        BY <2>2, <3>1, <3>2, InsertExtendsHistory DEF Succeeds
      <3> QED BY <1>1, <2>1, <2>7, <3>3 DEF CommitReactivate, HistoryInv
    <2>8. CASE CommitExpire(c)
      <3>1. PICK r \in DOMAIN revisionRows :
                /\ revisionRows[r].lifecycle = "ACTIVE"
                /\ revisionRows' = [revisionRows EXCEPT ![r].lifecycle = "EXPIRED"]
        BY <2>8 DEF CommitExpire, ExpireRow, ActiveRows, RowsOf
      <3>2. /\ RowsKept
            /\ DOMAIN revisionRows' = DOMAIN revisionRows
            /\ \A s \in DOMAIN revisionRows :
                  \/ revisionRows'[s].lifecycle = revisionRows[s].lifecycle
                  \/ /\ revisionRows'[s].lifecycle = "EXPIRED"
                     /\ revisionRows[s].lifecycle = "ACTIVE"
        BY <1>2, <3>1 DEF TypeOK, Revision
      <3>3. TombstonesStandAlone'
        BY <3>2 DEF HistoryInv, Histories, TombstonesStandAlone
      <3>4. HistoryUnbroken'
        BY <3>2 DEF HistoryInv, Histories, HistoryUnbroken, RowsOf
      <3>5. ActiveIsLatest'
        BY <3>2 DEF HistoryInv, Histories, ActiveIsLatest
      <3>6. SupersededHasSuccessor'
        BY <3>2 DEF HistoryInv, Histories, SupersededHasSuccessor, RowsOf
      <3>7. CallsAreSound'
        BY <2>1, <2>8, <3>2 DEF CommitExpire
      <3> QED BY <1>1, <3>3, <3>4, <3>5, <3>6, <3>7 DEF HistoryInv, Histories
    <2>9. CASE CommitDelete(c)
      <3> DEFINE tombstone == RevisionOf(call[c], "DELETED")
      <3>1. /\ tombstone \in Revision
            /\ tombstone.memory = call[c].memory
            /\ tombstone.lifecycle = "DELETED"
        BY <1>2, <2>9 DEF CommitDelete, RevisionOf, Revision, Lifecycle, Committing, Pending,
                          TypeOK, Call
      <3>2. Insert(Without(call[c].memory), tombstone) /\ Finish(c)
        BY <2>9 DEF CommitDelete
      <3> HIDE DEF tombstone
      <3>3. /\ Histories'
            /\ \A s \in DOMAIN revisionRows : revisionRows[s].memory # call[c].memory =>
                  s \in DOMAIN revisionRows' /\ revisionRows'[s] = revisionRows[s]
        BY <3>1, <3>2, DeleteKeepsHistories
      <3>4. \A d \in Clients \ {c} : call[d].memory # call[c].memory
        BY <2>9 DEF CommitDelete, Committing, Pending, DeletesAreAlone
      <3>5. CallsAreSound'
        BY <1>2, <3>2, <3>3, <3>4, CallsStaySound DEF HistoryInv, RowsOf
      <3> QED BY <1>1, <3>3, <3>5 DEF HistoryInv
    <2>10. CASE CommitAdopt(c)
      BY <1>1, <1>3, <2>1, <2>10 DEF CommitAdopt, HistoryInv
    <2>11. CASE Fail(c)
      BY <1>1, <1>3, <2>1, <2>11 DEF Fail, HistoryInv
    <2> QED BY <1>6, <2>3, <2>4, <2>5, <2>6, <2>7, <2>8, <2>9, <2>10, <2>11 DEF Step
  <1> QED BY <1>4, <1>5, <1>6 DEF Next

\* The empty store has no history to be incomplete.
LEMMA HistoryInit == Init => HistoryInv
  <1> SUFFICES ASSUME Init PROVE HistoryInv
    OBVIOUS
  <1>1. IntegrityInv
    BY IntegrityInit
  <1> QED BY <1>1 DEF Init, HistoryInv, Histories, TombstonesStandAlone, HistoryUnbroken,
                      ActiveIsLatest, SupersededHasSuccessor, CallsAreSound, NoCall, Pending

\* The inductive invariant of the histories holds while deletes are alone.
LEMMA HistoryInvHolds == Spec /\ []DeletesAreAlone => []HistoryInv
  BY HistoryInit, HistoryStep, PTL DEF Spec

\* Callers that computed a revision number from a stale read cannot break a history:
\* its numbers stay 1..n.
THEOREM HistoryUnbrokenHolds == Spec /\ []DeletesAreAlone => []HistoryUnbroken
  <1>1. HistoryInv => HistoryUnbroken
    BY DEF HistoryInv, Histories
  <1> QED BY <1>1, HistoryInvHolds, PTL

\* Retrieval, which reads the ACTIVE revision, and governance, which reads the latest,
\* never disagree: no interleaving leaves an ACTIVE revision behind a later one.
THEOREM ActiveIsLatestHolds == Spec /\ []DeletesAreAlone => []ActiveIsLatest
  <1>1. HistoryInv => ActiveIsLatest
    BY DEF HistoryInv, Histories
  <1> QED BY <1>1, HistoryInvHolds, PTL

\* A replacement supersedes what it replaces and nothing else, and never without
\* its INSERT, although it names the row it loaded earlier by its id alone.
THEOREM SupersededHasSuccessorHolds == Spec /\ []DeletesAreAlone => []SupersededHasSuccessor
  <1>1. HistoryInv => SupersededHasSuccessor
    BY DEF HistoryInv, Histories
  <1> QED BY <1>1, HistoryInvHolds, PTL

\* No replace, reactivate or second delete adds a row to a deleted memory: its
\* tombstone stays its only row.
THEOREM TombstoneIsAloneHolds == Spec /\ []DeletesAreAlone => []TombstoneIsAlone
  <1>1. HistoryInv => TombstoneIsAlone
    <2> SUFFICES ASSUME HistoryInv, NEW m \in DOMAIN memoryRows, Deleted(revisionRows, m)
                 PROVE  Cardinality(RowsOf(revisionRows, m)) = 1
      BY DEF TombstoneIsAlone
    <2>1. PICK r \in RowsOf(revisionRows, m) : revisionRows[r].lifecycle = "DELETED"
      BY DEF Deleted, LatestRows
    <2>2. RowsOf(revisionRows, m) = {r}
      BY <2>1 DEF HistoryInv, Histories, TombstonesStandAlone, RowsOf
    <2> QED BY <2>2, FS_Singleton
  <1> QED BY <1>1, HistoryInvHolds, PTL

\* Where the callers may not delete at all, no delete is pending.
LEMMA NoDeleteNoRace ==
    ASSUME "delete" \notin Operations
    PROVE  Spec => []DeletesAreAlone
  <1> DEFINE NoDelete == TypeOK /\ \A c \in Clients : call[c].op # "delete"
  <1>1. Init => NoDelete
    BY TypeInit DEF Init, NoCall
  <1>2. NoDelete /\ [Next]_vars => NoDelete'
    <2> SUFFICES ASSUME NoDelete, [Next]_vars PROVE NoDelete'
      OBVIOUS
    <2>1. TypeOK'
      BY TypeStep
    <2>2. CASE UNCHANGED vars
      BY <2>1, <2>2 DEF vars
    <2>3. ASSUME NEW c \in Clients, BeginAny(c) PROVE NoDelete'
      BY <2>1, <2>3 DEF BeginAny, Begin, TypeOK
    <2>4. ASSUME NEW c \in Clients, Step(c) PROVE NoDelete'
      BY <2>1, <2>4 DEF Step, SelectActive, SelectMax, CommitCreate, CommitReplace,
            CommitReactivate, CommitExpire, CommitDelete, CommitAdopt, Fail, Finish, NoCall,
            TypeOK, Call
    <2> QED BY <2>2, <2>3, <2>4 DEF Next
  <1>3. NoDelete => DeletesAreAlone
    BY DEF DeletesAreAlone
  <1> QED BY <1>1, <1>2, <1>3, PTL DEF Spec

\* Callers that never delete, as learning and retention alone, keep every history
\* whole in every interleaving.
THEOREM HistoriesHold ==
    ASSUME "delete" \notin Operations
    PROVE  Spec => [](HistoryUnbroken /\ ActiveIsLatest /\ SupersededHasSuccessor)
  <1>1. Spec => []DeletesAreAlone
    BY NoDeleteNoRace
  <1> QED BY <1>1, HistoryUnbrokenHolds, ActiveIsLatestHolds, SupersededHasSuccessorHolds, PTL
=============================================================================
