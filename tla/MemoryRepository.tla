-------------------------- MODULE MemoryRepository --------------------------
(***************************************************************************)
(* The durable store of factual memories: the two tables of the SQLite     *)
(* database and the mutating operations of SQLiteMemoryRepository, run by  *)
(* concurrent callers that each use a connection of their own.             *)
(*                                                                         *)
(* The granularity is that of the sqlite3 driver.  A SELECT that precedes  *)
(* the first write of a session runs in autocommit mode and sees the last  *)
(* committed state; the first INSERT, UPDATE or DELETE opens the           *)
(* transaction and takes the write lock, which is held until the commit.   *)
(* So an operation is a sequence of separate reads, then one atomic write. *)
(*                                                                         *)
(* A revision's content, source and times are an opaque Payload here: the  *)
(* repository stores them without looking at them.                         *)
(***************************************************************************)
EXTENDS Integers, FiniteSets

CONSTANTS
    Memories,       \* the memory_ids (UUIDs) that may be drawn
    Keys,           \* the identity keys, each standing for (domain, scope, key)
    NoKey,          \* identity_key IS NULL
    Payload,        \* content, source and times of a revision
    NoPayload,      \* what a content-free tombstone carries
    Clients,        \* concurrent callers
    Operations,     \* the operations the callers may start
    MaxRevision,    \* bound: the largest revision_number a caller asks for
    MaxRow,         \* bound: the largest row_id
    NoMemory, NoRow \* "no such value"

AllOperations == {"create", "replace", "reactivate", "expire", "delete", "adopt"}

ASSUME RepositoryAssumption ==
    /\ MaxRevision \in Nat \ {0}
    /\ MaxRow \in Nat \ {0}
    /\ Operations \subseteq AllOperations
    /\ NoKey \notin Keys
    /\ NoPayload \notin Payload
    /\ NoMemory \notin Memories
    /\ NoRow \notin 1..MaxRow

Lifecycle == {"ACTIVE", "SUPERSEDED", "EXPIRED", "DELETED"}
Number == 1..MaxRevision
RowId == 1..MaxRow

Revision == [memory : Memories, number : Number, lifecycle : Lifecycle,
             payload : Payload \cup {NoPayload}]

VARIABLES
    memoryRows,     \* table memories: memory_id -> identity_key
    revisionRows,   \* table memory_revisions: row_id -> revision
    call            \* the repository call each caller has in flight

vars == <<memoryRows, revisionRows, call>>

Pending == {"select_active", "select_max", "write"}
Steps == Pending \cup {"idle"}

(***************************************************************************)
(* A call: the operation, its arguments (the incoming or expected revision *)
(* number, its payload, an identity key), the statement it is about to     *)
(* issue and the row_id its ORM session has loaded.                        *)
(***************************************************************************)
Call == [op : AllOperations, step : Steps, memory : Memories \cup {NoMemory},
         number : Number, payload : Payload \cup {NoPayload},
         key : Keys \cup {NoKey}, row : RowId \cup {NoRow}]

NoCall == [op |-> "create", step |-> "idle", memory |-> NoMemory, number |-> 1,
           payload |-> NoPayload, key |-> NoKey, row |-> NoRow]

TypeOK ==
    /\ DOMAIN memoryRows \subseteq Memories
    /\ memoryRows \in [DOMAIN memoryRows -> Keys \cup {NoKey}]
    /\ DOMAIN revisionRows \subseteq RowId
    /\ revisionRows \in [DOMAIN revisionRows -> Revision]
    /\ call \in [Clients -> Call]
    /\ \A c \in Clients : call[c].step \in Pending => call[c].memory \in Memories

Init ==
    /\ memoryRows = [m \in {} |-> NoKey]
    /\ revisionRows = [r \in {} |-> NoPayload]
    /\ call = [c \in Clients |-> NoCall]

-----------------------------------------------------------------------------
(* Queries over a revision table.                                          *)

RowsOf(table, m) == {r \in DOMAIN table : table[r].memory = m}

ActiveRows(table, m) == {r \in RowsOf(table, m) : table[r].lifecycle = "ACTIVE"}

\* max(revision_number) of m, or the ORDER BY revision_number DESC LIMIT 1 row
LatestRows(table, m) ==
    {r \in RowsOf(table, m) :
        \A s \in RowsOf(table, m) : table[s].number <= table[r].number}

\* the row_id SQLite gives: one above the largest in the table (no AUTOINCREMENT,
\* so the ids of deleted rows come back)
IsNextRow(table, r) ==
    /\ r \notin DOMAIN table
    /\ \A s \in DOMAIN table : s < r
    /\ r = 1 \/ r - 1 \in DOMAIN table

\* new_revision.revision_number == expected_revision_number
IsSuccessorBug(n, rev) == n > rev.number
IsSuccessor(n, rev) == n = rev.number + 1

\* uq_memory_revision_number
NumberFreeBug(table, rev) == TRUE
NumberFree(table, rev) ==
    \A r \in RowsOf(table, rev.memory) : table[r].number # rev.number

\* uq_memory_active_revision
ActiveFreeBug(table, rev) == TRUE
ActiveFree(table, rev) ==
    rev.lifecycle = "ACTIVE" => ActiveRows(table, rev.memory) = {}

\* uq_memory_global_identity and uq_memory_character_identity
KeyFree(key) == key # NoKey => \A m \in DOMAIN memoryRows : memoryRows[m] # key

\* the INSERT that ends a transaction, on the table its earlier statements left
Insert(table, rev) ==
    /\ NumberFree(table, rev)
    /\ ActiveFree(table, rev)
    /\ \E r \in RowId :
          /\ IsNextRow(table, r)
          /\ revisionRows' = [s \in DOMAIN table \cup {r} |->
                                 IF s = r THEN rev ELSE table[s]]

RevisionOf(k, lifecycle) ==
    [memory |-> k.memory, number |-> k.number, lifecycle |-> lifecycle,
     payload |-> k.payload]

-----------------------------------------------------------------------------
(* Steps of a call.                                                        *)

FirstStep(op) ==
    CASE op \in {"replace", "reactivate"} -> "select_active"
      [] op = "delete" -> "select_max"
      [] OTHER -> "write"

\* The caller enters the repository.  The argument checks that come first are
\* the shape of the records: an incoming revision belongs to the memory, is
\* ACTIVE (a tombstone is DELETED, without content), and a first one is number 1.
\* An adopt names no revision: its number is 1 here.
Begin(c, op, m, n, p, key) ==
    /\ call[c].step = "idle"
    /\ op \in Operations /\ n \in Number
    /\ op \in {"create", "adopt"} => n = 1
    /\ (op = "create") <=> (m \notin DOMAIN memoryRows)
    /\ (p = NoPayload) <=> (op \in {"delete", "expire", "adopt"})
    /\ key # NoKey => op \in {"create", "adopt"}
    /\ op = "adopt" => key # NoKey
    /\ call' = [call EXCEPT ![c] =
                   [op |-> op, step |-> FirstStep(op), memory |-> m, number |-> n,
                    payload |-> p, key |-> key, row |-> NoRow]]
    /\ UNCHANGED <<memoryRows, revisionRows>>

\* replace: loads the ACTIVE row into the session; reactivate: there is none.
\* (The memory row looked up first is never removed, so that read can join this.)
SelectActive(c) ==
    LET k == call[c] IN
    /\ k.step = "select_active"
    /\ \/ /\ k.op = "replace"
          /\ \E r \in ActiveRows(revisionRows, k.memory) :
                call' = [call EXCEPT ![c].step = "select_max", ![c].row = r]
       \/ /\ k.op = "reactivate"
          /\ ActiveRows(revisionRows, k.memory) = {}
          /\ call' = [call EXCEPT ![c].step = "select_max"]
    /\ UNCHANGED <<memoryRows, revisionRows>>

Reactivatable(rev) == rev.lifecycle = "EXPIRED"

\* The incoming number must be one above the latest; a reactivated memory's
\* latest revision must be EXPIRED.
SelectMax(c) ==
    LET k == call[c] IN
    /\ k.step = "select_max"
    /\ \E r \in LatestRows(revisionRows, k.memory) :
          /\ IsSuccessor(k.number, revisionRows[r])
          /\ k.op = "reactivate" => Reactivatable(revisionRows[r])
    /\ call' = [call EXCEPT ![c].step = "write"]
    /\ UNCHANGED <<memoryRows, revisionRows>>

Committing(c, op) == call[c].step = "write" /\ call[c].op = op

\* the call is over, with a result or an exception; the caller is free again
Finish(c) == call' = [call EXCEPT ![c] = NoCall]

CommitCreate(c) ==
    LET k == call[c] IN
    /\ Committing(c, "create")
    /\ k.memory \notin DOMAIN memoryRows
    /\ KeyFree(k.key)
    /\ memoryRows' = [m \in DOMAIN memoryRows \cup {k.memory} |->
                         IF m = k.memory THEN k.key ELSE memoryRows[m]]
    /\ Insert(revisionRows, RevisionOf(k, "ACTIVE"))
    /\ Finish(c)

\* UPDATE ... SET lifecycle = 'superseded' WHERE row_id = <loaded row>: the row is
\* named by its id alone, and must still exist (else StaleDataError).
SupersedeBug(row) == [revisionRows EXCEPT ![row].lifecycle = "superseded"]
Supersede(row) == [revisionRows EXCEPT ![row].lifecycle = "SUPERSEDED"]

CommitReplace(c) ==
    LET k == call[c] IN
    /\ Committing(c, "replace")
    /\ k.row \in DOMAIN revisionRows
    /\ Insert(Supersede(k.row), RevisionOf(k, "ACTIVE"))
    /\ Finish(c)
    /\ UNCHANGED memoryRows

CommitReactivate(c) ==
    LET k == call[c] IN
    /\ Committing(c, "reactivate")
    /\ Insert(revisionRows, RevisionOf(k, "ACTIVE"))
    /\ Finish(c)
    /\ UNCHANGED memoryRows

ExpireRowBug(row) == [revisionRows EXCEPT ![row].lifecycle = "SUPERSEDED"]
ExpireRow(row) == [revisionRows EXCEPT ![row].lifecycle = "EXPIRED"]

\* one conditional UPDATE: reads and writes in the same statement
CommitExpire(c) ==
    LET k == call[c] IN
    /\ Committing(c, "expire")
    /\ \E r \in ActiveRows(revisionRows, k.memory) :
          /\ revisionRows[r].number = k.number
          /\ revisionRows' = ExpireRow(r)
    /\ Finish(c)
    /\ UNCHANGED memoryRows

\* DELETE every revision of the memory, then INSERT the tombstone
WithoutHistoryBug(m) ==
    [r \in DOMAIN revisionRows \ ActiveRows(revisionRows, m) |-> revisionRows[r]]
Without(m) ==
    [r \in DOMAIN revisionRows \ RowsOf(revisionRows, m) |-> revisionRows[r]]

CommitDelete(c) ==
    LET k == call[c] IN
    /\ Committing(c, "delete")
    /\ Insert(Without(k.memory), RevisionOf(k, "DELETED"))
    /\ Finish(c)
    /\ UNCHANGED memoryRows

\* UPDATE ... WHERE identity_key IS NULL; with the same key already there it is
\* idempotent, with another it is refused.
MayAdoptBug(old, key) == KeyFree(key) \/ old = key
MayAdopt(old, key) == (old = NoKey /\ KeyFree(key)) \/ old = key

CommitAdopt(c) ==
    LET k == call[c] IN
    /\ Committing(c, "adopt")
    /\ MayAdopt(memoryRows[k.memory], k.key)
    /\ memoryRows' = [memoryRows EXCEPT ![k.memory] = k.key]
    /\ Finish(c)
    /\ UNCHANGED revisionRows

\* The exceptions: a ValueError of a check, a constraint violation or a stale row
\* at the write, "database is locked", or the cancellation of the caller, which
\* may hit any await.  Nothing was written, or all of it is rolled back.  A crash of
\* the process is this for every caller at once.
Fail(c) ==
    /\ call[c].step \in Pending
    /\ Finish(c)
    /\ UNCHANGED <<memoryRows, revisionRows>>

Step(c) ==
    \/ SelectActive(c)
    \/ SelectMax(c)
    \/ CommitCreate(c)
    \/ CommitReplace(c)
    \/ CommitReactivate(c)
    \/ CommitExpire(c)
    \/ CommitDelete(c)
    \/ CommitAdopt(c)
    \/ Fail(c)

BeginAny(c) ==
    \E op \in Operations, m \in Memories, n \in Number,
       p \in Payload \cup {NoPayload}, key \in Keys \cup {NoKey} :
          Begin(c, op, m, n, p, key)

Next == \E c \in Clients : BeginAny(c) \/ Step(c)

Spec == Init /\ [][Next]_vars
-----------------------------------------------------------------------------
(* Safety, whatever the callers ask for and however they interleave.       *)

\* A memory never has two revisions with the same number or two ACTIVE revisions,
\* it never is without a revision, and no revision is without its memory, although
\* create, replace and delete each change several rows.
Distinct(table) ==
    \A r, s \in DOMAIN table :
        /\ table[r].memory = table[s].memory
        /\ \/ table[r].number = table[s].number
           \/ table[r].lifecycle = "ACTIVE" /\ table[s].lifecycle = "ACTIVE"
        => r = s

Integrity ==
    /\ Distinct(revisionRows)
    /\ \A m \in DOMAIN memoryRows : RowsOf(revisionRows, m) # {}
    /\ \A r \in DOMAIN revisionRows : revisionRows[r].memory \in DOMAIN memoryRows

\* An identity key names at most one memory, and a key once given to a memory is
\* never taken away or changed, although adopt races with create and with itself.
UniqueKeys ==
    \A m, n \in DOMAIN memoryRows :
        memoryRows[m] = memoryRows[n] /\ memoryRows[m] # NoKey => m = n

KeysAreStable ==
    [][\A m \in DOMAIN memoryRows :
          memoryRows[m] # NoKey => /\ m \in DOMAIN memoryRows'
                                   /\ memoryRows'[m] = memoryRows[m]]_memoryRows

-----------------------------------------------------------------------------
(* Safety of histories: while a delete runs alone, if at all.              *)

\* No other call on the same memory is in flight while it is deleted.  Nothing in
\* the code enforces this; without it the properties below do not hold.
DeletesAreAlone ==
    \A c, d \in Clients :
        c # d /\ call[c].step \in Pending /\ call[c].op = "delete"
            => call[d].memory # call[c].memory

\* The revision numbers of a memory are 1..n (a tombstone replaces them all):
\* no update is lost between the number a caller computed and the INSERT.
HistoryUnbroken ==
    \A r \in DOMAIN revisionRows : \A n \in 1..revisionRows[r].number :
        revisionRows[r].lifecycle # "DELETED" =>
            \E s \in RowsOf(revisionRows, revisionRows[r].memory) :
                revisionRows[s].number = n

\* Only the latest revision can be ACTIVE, so "the ACTIVE revision" that retrieval
\* reads and "the latest revision" that governance and learning read never disagree.
ActiveIsLatest ==
    \A r, s \in DOMAIN revisionRows :
        /\ revisionRows[r].memory = revisionRows[s].memory
        /\ revisionRows[r].lifecycle = "ACTIVE"
        => revisionRows[s].number <= revisionRows[r].number

\* A superseded revision has a successor: a replacement never commits its UPDATE
\* without its INSERT, and never supersedes what it does not replace.
SupersededHasSuccessor ==
    \A r \in DOMAIN revisionRows :
        revisionRows[r].lifecycle = "SUPERSEDED" =>
            \E s \in RowsOf(revisionRows, revisionRows[r].memory) :
                revisionRows[s].number > revisionRows[r].number

Deleted(table, m) == \E r \in LatestRows(table, m) : table[r].lifecycle = "DELETED"

\* Once deleted, a memory is content-free and has one row, its tombstone: no call
\* that comes later adds history to it.
TombstoneIsAlone ==
    \A m \in DOMAIN memoryRows :
        Deleted(revisionRows, m) => Cardinality(RowsOf(revisionRows, m)) = 1
=============================================================================
