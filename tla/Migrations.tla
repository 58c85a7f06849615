----------------------------- MODULE Migrations -----------------------------
(***************************************************************************)
(* The schema of the memory database and upgrade_memory_database, which    *)
(* brings it to the Alembic head before a runtime opens it.                *)
(*                                                                         *)
(* SQLite has no transactional DDL as Alembic and the sqlite3 driver use   *)
(* it: each CREATE or ALTER is committed by itself, and the version row is *)
(* written and committed after the last one of its migration.  A process   *)
(* that ends in between leaves a database that is torn; nothing in an      *)
(* upgrade can tell such a statement from one still to come.  Two          *)
(* processes may upgrade the same file, statement by statement.            *)
(*                                                                         *)
(* A downgrade is run by hand from the command line of Alembic and is not  *)
(* part of the runtime.                                                    *)
(***************************************************************************)
EXTENDS Integers, Sequences

CONSTANT Processes      \* runtimes on the same database file

\* The objects each migration creates, one DDL statement each, in order
Statements == <<
    <<"memories", "memory_revisions", "ix_memory_revisions_memory_id",
      "ix_memory_revisions_lifecycle", "uq_memory_active_revision">>,
    <<"identity_key">>,
    <<"uq_memory_global_identity", "uq_memory_character_identity">> >>

HeadVersion == Len(Statements)

Created(m) == {Statements[m][i] : i \in DOMAIN Statements[m]}
SchemaOf(v) == UNION {Created(m) : m \in 1..v}

VARIABLES
    schema,         \* the objects in the database file
    versionTable,   \* table alembic_version exists
    version,        \* its row: the number of the migration, or 0
    upgrade,        \* how far the upgrade of each process has come
    excused,        \* history: the upgrade met another one, a torn database or an error
    cut             \* history: an upgrade was killed, or ended by an error, on its way

migrationVars == <<schema, versionTable, version, upgrade, excused, cut>>

Upgrade == [step : {"idle", "heads", "version_table", "run", "done", "failed"},
            migration : 1..HeadVersion + 1, statement : Nat \ {0}]

NoUpgrade == [step |-> "idle", migration |-> 1, statement |-> 1]

MigrationsTypeOK ==
    /\ schema \subseteq SchemaOf(HeadVersion)
    /\ versionTable \in BOOLEAN
    /\ version \in 0..HeadVersion
    /\ upgrade \in [Processes -> Upgrade]
    /\ excused \in [Processes -> BOOLEAN]
    /\ cut \in BOOLEAN

MigrationsInit ==
    /\ schema = {}
    /\ versionTable = FALSE
    /\ version = 0
    /\ upgrade = [p \in Processes |-> NoUpgrade]
    /\ excused = [p \in Processes |-> FALSE]
    /\ cut = FALSE

Upgrading(p) == upgrade[p].step \in {"heads", "version_table", "run"}

\* A migration has begun and its version row is not written.
Torn == version < HeadVersion /\ schema \cap Created(version + 1) # {}

Complete == schema = SchemaOf(HeadVersion) /\ version = HeadVersion

-----------------------------------------------------------------------------

Begin(p) ==
    /\ ~Upgrading(p)
    /\ upgrade' = [upgrade EXCEPT ![p] = [NoUpgrade EXCEPT !.step = "heads"]]
    /\ excused' = [q \in Processes |->
                      IF q = p THEN Torn \/ \E r \in Processes \ {p} : Upgrading(r)
                      ELSE excused[q] \/ Upgrading(q)]
    /\ UNCHANGED <<schema, versionTable, version, cut>>

\* where the script begins for a database at version v
FirstBug(v) == IF v < HeadVersion THEN [step |-> "run", migration |-> 1, statement |-> 1]
                           ELSE [step |-> "done", migration |-> v + 1, statement |-> 1]
First(v) == [step |-> IF v < HeadVersion THEN "run" ELSE "done", migration |-> v + 1, statement |-> 1]

\* The heads are read once.  Without any, the version table is created unless it is
\* there (the check and the CREATE are two statements).
ReadHeads(p) ==
    /\ upgrade[p].step = "heads"
    /\ upgrade' = [upgrade EXCEPT ![p] =
                      IF version = 0 /\ ~versionTable
                      THEN [NoUpgrade EXCEPT !.step = "version_table"]
                      ELSE First(version)]
    /\ UNCHANGED <<schema, versionTable, version, excused, cut>>

CreateVersionTable(p) ==
    /\ upgrade[p].step = "version_table"
    /\ ~versionTable
    /\ versionTable' = TRUE
    /\ upgrade' = [upgrade EXCEPT ![p] = First(0)]
    /\ UNCHANGED <<schema, version, excused, cut>>

\* the next statement of p is the DDL of this object
At(p, object) ==
    LET u == upgrade[p] IN
    /\ u.step = "run"
    /\ u.statement \in DOMAIN Statements[u.migration]
    /\ Statements[u.migration][u.statement] = object

\* every DDL of the migration has been executed
AtEnd(p) ==
    LET u == upgrade[p] IN
    u.step = "run" /\ u.statement = Len(Statements[u.migration]) + 1

\* CREATE TABLE, CREATE INDEX or ADD COLUMN, committed at once
Execute(p) ==
    \E object \in SchemaOf(HeadVersion) :
        /\ At(p, object)
        /\ object \notin schema
        /\ schema' = schema \cup {object}
        /\ upgrade' = [upgrade EXCEPT ![p].statement = @ + 1]
        /\ UNCHANGED <<versionTable, version, excused, cut>>

\* INSERT or UPDATE of the version row, which must find the version before it
StampedBug(m) == m - 1
Stamped(m) == m
Stamp(p) ==
    LET m == upgrade[p].migration IN
    /\ AtEnd(p)
    /\ version = m - 1
    /\ version' = Stamped(m)
    /\ upgrade' = [upgrade EXCEPT ![p] = First(m)]
    /\ UNCHANGED <<schema, versionTable, excused, cut>>

\* "already exists", "duplicate column name", or no version row to update: raised
Refused(p) ==
    /\ \/ upgrade[p].step = "version_table" /\ versionTable
       \/ \E object \in schema : At(p, object)
       \/ AtEnd(p) /\ version # upgrade[p].migration - 1
    /\ upgrade' = [upgrade EXCEPT ![p].step = "failed"]
    /\ UNCHANGED <<schema, versionTable, version, excused, cut>>

\* any statement fails for a reason of its own: the disk, a lock held too long
UpgradeError(p) ==
    /\ Upgrading(p)
    /\ upgrade' = [upgrade EXCEPT ![p].step = "failed"]
    /\ excused' = [excused EXCEPT ![p] = TRUE]
    /\ cut' = TRUE
    /\ UNCHANGED <<schema, versionTable, version>>

\* the process ends without notice
Killed(p) ==
    /\ upgrade' = [upgrade EXCEPT ![p] = NoUpgrade]
    /\ cut' = (cut \/ Upgrading(p))
    /\ UNCHANGED <<schema, versionTable, version, excused>>

-----------------------------------------------------------------------------
(* What an upgrade promises.                                               *)

\* An upgrade fails only beside another one, on a database an earlier one left
\* torn, or by an error of its own: an upgrade that is alone and uninterrupted
\* succeeds from every version, also when earlier ones lost a race.
FailureHasReason ==
    \A p \in Processes : upgrade[p].step = "failed" => excused[p]

\* A database is torn only while somebody is executing that very migration, or
\* after an upgrade was cut: of two that race, one gets through.
TornHasReason ==
    Torn => \/ cut
            \/ \E p \in Processes :
                  upgrade[p].step = "run" /\ upgrade[p].migration = version + 1
=============================================================================
