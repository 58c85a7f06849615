--------------------------- MODULE Runtime_proofs ---------------------------
(***************************************************************************)
(* What a start of the runtime may rely on, for any number of processes    *)
(* started, killed and interrupted in any order on one database file.      *)
(*                                                                         *)
(* The argument: the objects in the file are always a prefix of the script *)
(* of migrations, and of the processes that execute it at most one is past *)
(* the first statement of a migration; whoever is behind meets an object   *)
(* that exists and fails without having changed anything.                  *)
(***************************************************************************)
EXTENDS Runtime, TLAPS

\* The scripts as the proofs use them: every migration has a statement, and no
\* object is created twice.
Has(m, i) == m \in 1..HeadVersion /\ i \in 1..Len(Statements[m])

\* The three scripts are what Has, and the place of each statement, need of them.
LEMMA ScriptFacts ==
    /\ HeadVersion \in Nat
    /\ \A m \in 1..HeadVersion :
          /\ Len(Statements[m]) \in Nat \ {0}
          /\ DOMAIN Statements[m] = 1..Len(Statements[m])
    /\ \A m, n, i, j : Has(m, i) /\ Has(n, j) /\ Statements[m][i] = Statements[n][j]
                          => m = n /\ i = j
<1>1. HeadVersion = 3
    BY DEF HeadVersion, Statements
<1>2. /\ Len(Statements[1]) = 5 /\ DOMAIN Statements[1] = 1..5
      /\ Len(Statements[2]) = 1 /\ DOMAIN Statements[2] = 1..1
      /\ Len(Statements[3]) = 2 /\ DOMAIN Statements[3] = 1..2
    BY DEF Statements
<1>3. \A m \in 1..HeadVersion : m = 1 \/ m = 2 \/ m = 3
    BY <1>1
<1>4. ASSUME NEW m, NEW i, Has(m, i)
      PROVE  \/ m = 1 /\ (i = 1 \/ i = 2 \/ i = 3 \/ i = 4 \/ i = 5)
             \/ m = 2 /\ i = 1
             \/ m = 3 /\ (i = 1 \/ i = 2)
    <2>1. m \in 1..3 /\ i \in 1..Len(Statements[m])
        BY <1>1, <1>4 DEF Has
    <2>2. CASE m = 1
        BY <2>1, <2>2, <1>2
    <2>3. CASE m = 2
        BY <2>1, <2>3, <1>2
    <2>4. CASE m = 3
        BY <2>1, <2>4, <1>2
    <2> QED BY <2>1, <2>2, <2>3, <2>4
<1>5. ASSUME NEW m, NEW n, NEW i, NEW j, Has(m, i), Has(n, j), Statements[m][i] = Statements[n][j]
      PROVE  m = n /\ i = j
    BY <1>4, <1>5 DEF Statements
<1> QED BY <1>1, <1>2, <1>3, <1>5

\* There is a version to upgrade to.
LEMMA HeadIsNatural == HeadVersion \in Nat /\ HeadVersion > 0
BY DEF HeadVersion, Statements

\* What a migration creates, and what a complete schema holds, by their statements.
LEMMA SchemaFacts ==
    /\ \A m, x : x \in Created(m) /\ m \in 1..HeadVersion <=>
                     \E i : Has(m, i) /\ x = Statements[m][i]
    /\ \A x : x \in SchemaOf(HeadVersion) <=> \E m, i : Has(m, i) /\ x = Statements[m][i]
<1>1. ASSUME NEW m, NEW x
      PROVE  x \in Created(m) /\ m \in 1..HeadVersion <=>
                  \E i : Has(m, i) /\ x = Statements[m][i]
    BY ScriptFacts DEF Created, Has
<1>2. ASSUME NEW x
      PROVE  x \in SchemaOf(HeadVersion) <=> \E m, i : Has(m, i) /\ x = Statements[m][i]
    <2>1. x \in SchemaOf(HeadVersion) <=> \E m \in 1..HeadVersion : x \in Created(m)
        BY DEF SchemaOf
    <2> QED BY <1>1, <2>1 DEF Has
<1> QED BY <1>1, <1>2

-----------------------------------------------------------------------------
(* The invariant of the database and the upgrades on it.                   *)

Running(p) == upgrade[p].step = "run"
Ahead(p) == Running(p) /\ upgrade[p].statement > 1

\* Of migration m exactly the statements before s have been executed.
ExecutedBefore(m, s) == \A i : Has(m, i) => (Statements[m][i] \in schema <=> i < s)

PrefixInv ==
    /\ \A m, i : Has(m, i) /\ m <= version => Statements[m][i] \in schema
    /\ \A m, i : Has(m, i) /\ m > version + 1 => Statements[m][i] \notin schema
    /\ \A m, i, j : Has(m, i) /\ Has(m, j) /\ j < i /\ Statements[m][i] \in schema
                        => Statements[m][j] \in schema

PlaceInv ==
    \A p \in Processes :
        /\ Running(p) => /\ upgrade[p].migration \in 1..HeadVersion
                         /\ upgrade[p].migration <= version + 1
                         /\ upgrade[p].statement \in 1..Len(Statements[upgrade[p].migration]) + 1
        /\ Ahead(p) => /\ upgrade[p].migration = version + 1
                       /\ ExecutedBefore(version + 1, upgrade[p].statement)
        /\ upgrade[p].step = "done" => version = HeadVersion

OneAhead == \A p, q \in Processes : Ahead(p) /\ Ahead(q) => p = q

AloneInv ==
    \A p \in Processes : Upgrading(p) /\ ~excused[p] =>
        /\ \A q \in Processes \ {p} : ~Upgrading(q)
        /\ ~Running(p) => ~Torn
        /\ upgrade[p].step = "version_table" => version = 0 /\ ~versionTable
        /\ Running(p) => /\ upgrade[p].migration = version + 1
                         /\ ExecutedBefore(version + 1, upgrade[p].statement)

TornInv == Torn => cut \/ \E p \in Processes : Ahead(p)

UpgradeInv ==
    /\ MigrationsTypeOK
    /\ PrefixInv
    /\ PlaceInv
    /\ OneAhead
    /\ AloneInv
    /\ TornInv
    /\ FailureHasReason

\* ~Torn, object by object
LEMMA NotTorn ==
    ASSUME MigrationsTypeOK
    PROVE  Torn <=> version < HeadVersion
                    /\ \E i : Has(version + 1, i) /\ Statements[version + 1][i] \in schema
<1>1. version < HeadVersion => version + 1 \in 1..HeadVersion
    BY ScriptFacts DEF MigrationsTypeOK
<1>2. version < HeadVersion =>
          (schema \cap Created(version + 1) # {} <=>
              \E x \in schema : \E i : Has(version + 1, i) /\ x = Statements[version + 1][i])
    BY <1>1, SchemaFacts
<1> QED BY <1>2 DEF Torn

\* The files an installation may start from satisfy the invariant of the upgrades.
LEMMA UpgradeInvInit == MigrationsInit => UpgradeInv
<1> SUFFICES ASSUME MigrationsInit PROVE UpgradeInv
    OBVIOUS
<1>1. MigrationsTypeOK
    <2>1. NoUpgrade \in Upgrade
        BY HeadIsNatural DEF NoUpgrade, Upgrade
    <2>2. versionTable \in BOOLEAN /\ cut \in BOOLEAN
        BY DEF MigrationsInit
    <2>3. excused \in [Processes -> BOOLEAN]
        BY DEF MigrationsInit
    <2>4. schema \subseteq SchemaOf(HeadVersion) /\ version \in 0..HeadVersion
        BY HeadIsNatural DEF MigrationsInit
    <2>5. upgrade \in [Processes -> Upgrade]
        BY <2>1 DEF MigrationsInit
    <2> QED BY <2>2, <2>3, <2>4, <2>5 DEF MigrationsTypeOK
<1>2. PrefixInv
    BY ScriptFacts DEF MigrationsInit, PrefixInv, Has
<1>3. ~Torn
    BY DEF MigrationsInit, Torn
<1>4. \A p \in Processes : upgrade[p].step = "idle"
    BY DEF MigrationsInit, NoUpgrade
<1>5. PlaceInv /\ OneAhead /\ AloneInv /\ FailureHasReason
    BY <1>4 DEF PlaceInv, OneAhead, AloneInv, FailureHasReason, Running, Ahead, Upgrading
<1> QED BY <1>1, <1>2, <1>3, <1>5 DEF UpgradeInv, TornInv

-----------------------------------------------------------------------------
(* One lemma per action.                                                   *)

\* what a step that leaves the objects and the version row alone keeps
LEMMA SameDatabase ==
    ASSUME UpgradeInv, UNCHANGED <<schema, version>>
    PROVE  /\ PrefixInv'
           /\ Torn' <=> Torn
           /\ \A m, i : ExecutedBefore(m, i)' <=> ExecutedBefore(m, i)
BY DEF UpgradeInv, PrefixInv, Torn, ExecutedBefore, Has

\* A process that begins has executed nothing, and starts out alone if nobody else is at it.
LEMMA BeginKeeps ==
    ASSUME UpgradeInv, NEW p \in Processes, Begin(p)
    PROVE  UpgradeInv'
<1> USE DEF UpgradeInv, Begin
<1>1. PrefixInv' /\ (Torn' <=> Torn) /\ \A m, i : ExecutedBefore(m, i)' <=> ExecutedBefore(m, i)
    BY SameDatabase
<1>2. /\ upgrade'[p] = [step |-> "heads", migration |-> 1, statement |-> 1]
      /\ \A q \in Processes \ {p} : upgrade'[q] = upgrade[q]
    BY DEF MigrationsTypeOK, NoUpgrade
<1>3. MigrationsTypeOK'
    <2>1. upgrade'[p] \in Upgrade
        BY <1>2, ScriptFacts DEF Upgrade
    <2>2. \A q \in Processes : Torn \in BOOLEAN /\ Upgrading(q) \in BOOLEAN
        BY DEF Torn, Upgrading
    <2>3. excused' \in [Processes -> BOOLEAN]
        BY <2>2 DEF MigrationsTypeOK
    <2> QED BY <2>1, <2>3 DEF MigrationsTypeOK
<1>4. PlaceInv' /\ OneAhead' /\ TornInv'
    <2>1. \A q \in Processes : (Running(q)' <=> q # p /\ Running(q)) /\ (Ahead(q)' <=> q # p /\ Ahead(q))
        BY <1>2 DEF Running, Ahead
    <2>2. ~Ahead(p)
        BY DEF Ahead, Running, Upgrading
    <2> QED BY <1>1, <1>2, <2>1, <2>2 DEF PlaceInv, OneAhead, TornInv
<1>5. AloneInv'
    <2>1. \A q \in Processes \ {p} : Upgrading(q)' => Upgrading(q) /\ excused'[q]
        BY <1>2 DEF Upgrading, MigrationsTypeOK
    <2>2. ~excused'[p] => ~Torn /\ \A q \in Processes \ {p} : ~Upgrading(q)
        BY DEF MigrationsTypeOK
    <2>3. \A q \in Processes \ {p} : Upgrading(q)' <=> Upgrading(q)
        BY <1>2 DEF Upgrading
    <2> QED BY <1>1, <1>2, <2>1, <2>2, <2>3 DEF AloneInv, Running
<1>6. FailureHasReason'
    BY <1>2 DEF FailureHasReason, MigrationsTypeOK
<1> QED BY <1>1, <1>3, <1>4, <1>5, <1>6

\* The first statement after a version is a place an upgrade may be at.
LEMMA FirstIsUpgrade ==
    ASSUME NEW v \in 0..HeadVersion
    PROVE  First(v) \in Upgrade
BY ScriptFacts DEF First, Upgrade

\* Reading the version leaves the schema alone: the process is at the start of the migration
\* that comes next.
LEMMA ReadHeadsKeeps ==
    ASSUME UpgradeInv, NEW p \in Processes, ReadHeads(p)
    PROVE  UpgradeInv'
<1> USE DEF UpgradeInv, ReadHeads
<1>1. PrefixInv' /\ (Torn' <=> Torn) /\ \A m, i : ExecutedBefore(m, i)' <=> ExecutedBefore(m, i)
    BY SameDatabase
<1>2. /\ \A q \in Processes \ {p} : upgrade'[q] = upgrade[q]
      /\ \/ /\ upgrade'[p] = [step |-> "version_table", migration |-> 1, statement |-> 1]
            /\ version = 0 /\ ~versionTable
         \/ upgrade'[p] = First(version)
    BY DEF MigrationsTypeOK, NoUpgrade
<1>3. MigrationsTypeOK'
    <2>1. upgrade'[p] \in Upgrade
        <3>1. [step |-> "version_table", migration |-> 1, statement |-> 1] \in Upgrade
            BY HeadIsNatural DEF Upgrade
        <3>2. First(version) \in Upgrade
            BY FirstIsUpgrade DEF MigrationsTypeOK
        <3> QED BY <1>2, <3>1, <3>2
    <2> QED BY <2>1 DEF MigrationsTypeOK
<1>4. /\ Running(p)' => /\ upgrade'[p].migration = version + 1 /\ upgrade'[p].statement = 1
                        /\ version < HeadVersion
      /\ upgrade'[p].step = "done" => version = HeadVersion
      /\ upgrade'[p].step \in {"version_table", "run", "done"}
    BY <1>2, ScriptFacts DEF First, Running, MigrationsTypeOK
<1>5. ~Running(p) /\ ~Ahead(p) /\ ~Ahead(p)' /\ Upgrading(p)
    BY <1>4 DEF Running, Ahead, Upgrading
<1>6. PlaceInv' /\ OneAhead' /\ TornInv'
    <2>1. \A q \in Processes \ {p} : (Running(q)' <=> Running(q)) /\ (Ahead(q)' <=> Ahead(q))
        BY <1>2 DEF Running, Ahead
    <2>2. Running(p)' => /\ upgrade'[p].migration \in 1..HeadVersion
                         /\ upgrade'[p].statement \in 1..Len(Statements[upgrade'[p].migration]) + 1
        BY <1>4, ScriptFacts DEF MigrationsTypeOK
    <2> QED BY <1>1, <1>2, <1>4, <1>5, <2>1, <2>2, ScriptFacts DEF PlaceInv, OneAhead, TornInv, MigrationsTypeOK
<1>7. AloneInv'
    <2>1. \A q \in Processes : Upgrading(q)' => Upgrading(q)
        BY <1>2, <1>5 DEF Upgrading
    <2>2. ~excused[p] /\ Running(p)' => ExecutedBefore(version + 1, 1)
        <3>1. ~excused[p] => ~Torn
            BY <1>5 DEF AloneInv
        <3>2. version < HeadVersion => (Torn <=> \E i : Has(version + 1, i) /\ Statements[version + 1][i] \in schema)
            BY NotTorn
        <3> QED BY <1>4, <3>1, <3>2, ScriptFacts DEF ExecutedBefore, Has
    <2>3. \A q \in Processes \ {p} : excused[q] \/ ~Upgrading(q)
        BY <1>5 DEF AloneInv
    <2>4. \A q \in Processes \ {p} : Upgrading(q)' => excused'[q]
        BY <2>1, <2>3
    <2>5. ~excused[p] => ~Torn /\ \A q \in Processes \ {p} : ~Upgrading(q)'
        BY <1>5, <2>1 DEF AloneInv
    <2>6. upgrade'[p].step = "version_table" => version = 0 /\ ~versionTable
        BY <1>2 DEF First
    <2>7. ~excused[p] /\ Running(p)' =>
              upgrade'[p].migration = version' + 1 /\ ExecutedBefore(version + 1, upgrade[p].statement)'
        <3> SUFFICES ASSUME ~excused[p], Running(p)'
                     PROVE  upgrade'[p].migration = version' + 1
                            /\ ExecutedBefore(version + 1, upgrade[p].statement)'
            OBVIOUS
        <3>1. upgrade'[p].statement = 1 /\ upgrade'[p].migration = version + 1
            BY <1>4
        <3> QED BY <3>1, <2>2 DEF ExecutedBefore, Has
    <2> QED BY <1>1, <2>4, <2>5, <2>6, <2>7 DEF AloneInv
<1>8. FailureHasReason'
    BY <1>2, <1>4 DEF FailureHasReason
<1> QED BY <1>1, <1>3, <1>6, <1>7, <1>8

\* An empty version table changes no object of the schema.
LEMMA CreateVersionTableKeeps ==
    ASSUME UpgradeInv, NEW p \in Processes, CreateVersionTable(p)
    PROVE  UpgradeInv'
<1> USE DEF UpgradeInv, CreateVersionTable
<1>1. PrefixInv' /\ (Torn' <=> Torn) /\ \A m, i : ExecutedBefore(m, i)' <=> ExecutedBefore(m, i)
    BY SameDatabase
<1>2. /\ upgrade'[p] = [step |-> "run", migration |-> 1, statement |-> 1]
      /\ \A q \in Processes \ {p} : upgrade'[q] = upgrade[q]
    BY HeadIsNatural DEF MigrationsTypeOK, First
<1>3. MigrationsTypeOK'
    <2>1. upgrade'[p] \in Upgrade
        BY <1>2, HeadIsNatural DEF Upgrade
    <2> QED BY <2>1 DEF MigrationsTypeOK
<1>4. ~Running(p) /\ ~Ahead(p) /\ ~Ahead(p)' /\ Upgrading(p)
    BY <1>2 DEF Running, Ahead, Upgrading
<1>5. PlaceInv' /\ OneAhead' /\ TornInv'
    <2>1. \A q \in Processes \ {p} : (Running(q)' <=> Running(q)) /\ (Ahead(q)' <=> Ahead(q))
        BY <1>2 DEF Running, Ahead
    <2>2. /\ upgrade'[p].migration \in 1..HeadVersion
          /\ upgrade'[p].migration <= version + 1
          /\ upgrade'[p].statement \in 1..Len(Statements[upgrade'[p].migration]) + 1
        BY <1>2, HeadIsNatural, ScriptFacts DEF MigrationsTypeOK
    <2> QED BY <1>1, <1>2, <1>4, <2>1, <2>2 DEF PlaceInv, OneAhead, TornInv
<1>6. AloneInv'
    <2>1. \A q \in Processes : Upgrading(q)' => Upgrading(q)
        BY <1>2, <1>4 DEF Upgrading
    <2>2. \A q \in Processes \ {p} : Upgrading(q)' => excused'[q]
        BY <1>4, <2>1 DEF AloneInv
    <2>3. ~excused[p] => ~Torn /\ version = 0 /\ \A q \in Processes \ {p} : ~Upgrading(q)'
        BY <1>4, <2>1 DEF AloneInv
    <2>4. ~excused[p] => /\ upgrade'[p].migration = version' + 1
                         /\ ExecutedBefore(version + 1, upgrade[p].statement)'
        BY <1>2, <2>3, NotTorn, HeadIsNatural, ScriptFacts DEF ExecutedBefore, Has
    <2> QED BY <1>1, <1>2, <2>2, <2>3, <2>4 DEF AloneInv, Running
<1>7. FailureHasReason'
    BY <1>2 DEF FailureHasReason
<1> QED BY <1>1, <1>3, <1>5, <1>6, <1>7

\* A statement that succeeds makes the schema one object longer, at the end of what there is.
LEMMA ExecuteKeeps ==
    ASSUME UpgradeInv, NEW p \in Processes, Execute(p)
    PROVE  UpgradeInv'
<1> USE DEF UpgradeInv
<1> PICK m, s : m = upgrade[p].migration /\ s = upgrade[p].statement
    OBVIOUS
<1>1. /\ Running(p) /\ Has(m, s) /\ m \in 1..HeadVersion /\ s \in Nat \ {0}
      /\ Statements[m][s] \notin schema
      /\ schema' = schema \cup {Statements[m][s]}
      /\ upgrade' = [upgrade EXCEPT ![p].statement = @ + 1]
      /\ UNCHANGED <<versionTable, version, excused, cut>>
    BY ScriptFacts DEF Execute, At, Running, Has, PlaceInv, MigrationsTypeOK, Upgrade
<1>2. /\ upgrade'[p].step = "run" /\ upgrade'[p].migration = m /\ upgrade'[p].statement = s + 1
      /\ \A q \in Processes \ {p} : upgrade'[q] = upgrade[q]
    BY <1>1 DEF Running, MigrationsTypeOK, Upgrade
<1>3. \A n, i : Has(n, i) => (Statements[n][i] \in schema' <=>
                                 Statements[n][i] \in schema \/ (n = m /\ i = s))
    BY <1>1, ScriptFacts
\* p is at the front of the script: what is behind it exists already.
<1>4. m = version + 1 /\ version \in Nat
    BY <1>1 DEF PrefixInv, PlaceInv, MigrationsTypeOK
<1>5. ExecutedBefore(m, s)
    <2>1. CASE s > 1
        BY <1>1, <1>4, <2>1 DEF PlaceInv, Ahead
    <2>2. CASE s = 1
        <3> SUFFICES ASSUME NEW i, Has(m, i)
                     PROVE  Statements[m][i] \notin schema /\ ~(i < s)
            BY DEF ExecutedBefore
        <3>1. (i = s \/ s < i) /\ ~(i < s)
            BY <2>2, ScriptFacts DEF Has
        <3>2. s < i /\ Statements[m][i] \in schema => Statements[m][s] \in schema
            BY <1>1 DEF PrefixInv
        <3> QED BY <1>1, <3>1, <3>2
    <2> QED BY <1>1, <2>1, <2>2
<1>6. ExecutedBefore(m, s + 1)'
    BY <1>1, <1>3, <1>5 DEF ExecutedBefore, Has
<1>7. \A q \in Processes \ {p} : ~Ahead(q)
    <2> SUFFICES ASSUME NEW q \in Processes \ {p}, Ahead(q)
                 PROVE  FALSE
        OBVIOUS
    <2>1. ExecutedBefore(m, upgrade[q].statement) /\ upgrade[q].statement > 1 /\ Has(m, 1)
        BY <1>1, <1>4 DEF PlaceInv, Ahead, Has
    <2>2. s > 1
        BY <1>1, <1>5, <2>1 DEF ExecutedBefore
    <2> QED BY <1>1, <2>2 DEF OneAhead, Ahead
<1>8. MigrationsTypeOK'
    <2>1. schema' \subseteq SchemaOf(HeadVersion)
        BY <1>1, SchemaFacts DEF MigrationsTypeOK
    <2>2. upgrade' \in [Processes -> Upgrade]
        BY <1>1 DEF MigrationsTypeOK, Upgrade
    <2> QED BY <1>1, <2>1, <2>2 DEF MigrationsTypeOK
<1>9. PrefixInv'
    <2>1. \A n, i : Has(n, i)' <=> Has(n, i)
        BY DEF Has
    <2>2. \A n, i : Has(n, i) /\ n <= version => Statements[n][i] \in schema'
        BY <1>3 DEF PrefixInv
    <2>3. \A n, i : Has(n, i) /\ n > version + 1 => Statements[n][i] \notin schema'
        BY <1>3, <1>4 DEF PrefixInv, Has
    <2>4. ASSUME NEW n, NEW i, NEW j, Has(n, i), Has(n, j), j < i, Statements[n][i] \in schema'
          PROVE  Statements[n][j] \in schema'
        <3>1. CASE n = m /\ i = s
            BY <1>3, <1>5, <2>4, <3>1 DEF ExecutedBefore
        <3>2. CASE ~(n = m /\ i = s)
            BY <1>3, <2>4, <3>2 DEF PrefixInv
        <3> QED BY <3>1, <3>2
    <2> QED BY <1>1, <2>2, <2>3, <2>4 DEF PrefixInv, Has
<1>10. PlaceInv' /\ OneAhead' /\ TornInv'
    <2>1. /\ \A q \in Processes \ {p} : (Running(q)' <=> Running(q)) /\ ~Ahead(q)'
          /\ Running(p)' /\ Ahead(p)'
        BY <1>1, <1>2, <1>7 DEF Running, Ahead
    <2>2. upgrade'[p].statement \in 1..Len(Statements[m]) + 1
        BY <1>1, <1>2, ScriptFacts DEF Has
    <2>3. PlaceInv'
        <3>1. \A q \in Processes \ {p} : PlaceInv => (upgrade'[q].step = "done" => version' = HeadVersion)
            BY <1>1, <1>2 DEF PlaceInv
        <3> QED BY <1>1, <1>2, <1>4, <1>6, <2>1, <2>2, <3>1 DEF PlaceInv, ExecutedBefore, Has
    <2> QED BY <2>1, <2>3 DEF OneAhead, TornInv
<1>11. AloneInv'
    <2>1. \A q \in Processes : (Upgrading(q)' <=> Upgrading(q)) /\ excused'[q] = excused[q]
        BY <1>1, <1>2 DEF Upgrading, Running
    <2>2. \A q \in Processes \ {p} : excused[q] \/ ~Upgrading(q)
        BY <1>1 DEF AloneInv, Upgrading, Running
    <2>3. ~excused[p] => \A q \in Processes \ {p} : ~Upgrading(q)
        BY <1>1 DEF AloneInv, Upgrading, Running
    <2> QED BY <1>1, <1>2, <1>4, <1>6, <2>1, <2>2, <2>3 DEF AloneInv, Running
<1>12. FailureHasReason'
    BY <1>1, <1>2 DEF FailureHasReason
<1> QED BY <1>8, <1>9, <1>10, <1>11, <1>12

\* A version row is written after the last statement of its migration, when all of it is there.
LEMMA StampKeeps ==
    ASSUME UpgradeInv, NEW p \in Processes, Stamp(p)
    PROVE  UpgradeInv'
<1> USE DEF UpgradeInv
<1> PICK m : m = upgrade[p].migration
    OBVIOUS
<1>1. /\ Running(p) /\ m \in 1..HeadVersion /\ version = m - 1
      /\ upgrade[p].statement = Len(Statements[m]) + 1
      /\ version' = m /\ upgrade' = [upgrade EXCEPT ![p] = First(m)]
      /\ UNCHANGED <<schema, versionTable, excused, cut>>
    BY DEF Stamp, AtEnd, Running, Stamped, PlaceInv
<1>2. /\ upgrade'[p] = First(m)
      /\ \A q \in Processes \ {p} : upgrade'[q] = upgrade[q]
    BY <1>1 DEF MigrationsTypeOK
\* p has executed all of migration m, alone.
<1>3. Ahead(p) /\ version \in Nat /\ m = version + 1
    BY <1>1, ScriptFacts DEF Ahead, MigrationsTypeOK
<1>4. \A i : Has(m, i) => Statements[m][i] \in schema
    <2>1. ExecutedBefore(m, Len(Statements[m]) + 1)
        BY <1>1, <1>3 DEF PlaceInv
    <2> QED BY <2>1, <1>1, ScriptFacts DEF ExecutedBefore, Has
<1>5. \A i : Has(m + 1, i) => Statements[m + 1][i] \notin schema
    BY <1>1, <1>3 DEF PrefixInv
<1>6. \A q \in Processes \ {p} : ~Ahead(q)
    BY <1>3 DEF OneAhead
<1>7. MigrationsTypeOK'
    <2>1. First(m) \in Upgrade
        BY <1>1, FirstIsUpgrade, HeadIsNatural
    <2>2. version' \in 0..HeadVersion
        BY <1>1, HeadIsNatural
    <2> QED BY <1>1, <2>1, <2>2 DEF MigrationsTypeOK
<1>8. PrefixInv'
    <2>1. \A n, i : Has(n, i) => n \in Nat
        BY HeadIsNatural DEF Has
    <2>2. \A n, i : Has(n, i) /\ n <= m => Statements[n][i] \in schema
        BY <1>1, <1>3, <1>4, <2>1 DEF PrefixInv
    <2>3. \A n, i : Has(n, i) /\ n > m + 1 => Statements[n][i] \notin schema
        BY <1>1, <1>3, <2>1 DEF PrefixInv
    <2> QED BY <1>1, <2>2, <2>3 DEF PrefixInv, Has
<1>9. ~Torn'
    <2>1. m < HeadVersion => m + 1 \in 1..HeadVersion
        BY <1>1, HeadIsNatural
    <2>2. m < HeadVersion => schema \cap Created(m + 1) = {}
        BY <1>5, <2>1, SchemaFacts
    <2> QED BY <1>1, <2>2 DEF Torn
<1>10. /\ Running(p)' => /\ upgrade'[p].migration = m + 1 /\ upgrade'[p].statement = 1
                         /\ m < HeadVersion
       /\ upgrade'[p].step = "done" => m = HeadVersion
       /\ upgrade'[p].step \in {"run", "done"}
    BY <1>1, <1>2, HeadIsNatural DEF First, Running
<1>11. PlaceInv' /\ OneAhead'
    <2>1. \A q \in Processes \ {p} : (Running(q)' <=> Running(q)) /\ ~Ahead(q)'
        BY <1>2, <1>6 DEF Running, Ahead
    <2>2. ~Ahead(p)'
        BY <1>10 DEF Ahead
    <2>3. Running(p)' => /\ upgrade'[p].migration \in 1..HeadVersion
                         /\ upgrade'[p].migration <= version' + 1
                         /\ upgrade'[p].statement \in 1..Len(Statements[upgrade'[p].migration]) + 1
        BY <1>1, <1>10, ScriptFacts
    <2>4. \A q \in Processes \ {p} : upgrade[q].step # "done" 
        BY <1>1, HeadIsNatural DEF PlaceInv
    <2>5. \A q \in Processes \ {p} : Running(q)' => upgrade'[q].migration <= version' + 1
        BY <1>1, <1>2, <1>3, <2>1, HeadIsNatural DEF PlaceInv
    <2>6. \A q \in Processes \ {p} :
              Running(q)' => /\ upgrade'[q].migration \in 1..HeadVersion
                             /\ upgrade'[q].statement \in 1..Len(Statements[upgrade'[q].migration]) + 1
        BY <1>2, <2>1 DEF PlaceInv
    <2>7. PlaceInv'
        BY <1>1, <1>2, <1>10, <2>1, <2>2, <2>3, <2>4, <2>5, <2>6 DEF PlaceInv
    <2> QED BY <2>1, <2>2, <2>7 DEF OneAhead
<1>12. AloneInv'
    <2>1. \A q \in Processes : Upgrading(q)' => Upgrading(q)
        BY <1>1, <1>2 DEF Upgrading, Running
    <2>2. \A q \in Processes \ {p} : Upgrading(q)' => excused'[q]
        BY <1>1, <2>1 DEF AloneInv, Upgrading, Running
    <2>3. ~excused[p] => \A q \in Processes \ {p} : ~Upgrading(q)'
        BY <1>1, <2>1 DEF AloneInv, Upgrading, Running
    <2>4. ExecutedBefore(m + 1, 1)'
        <3>1. \A i : Has(m + 1, i) => ~(i < 1)
            BY ScriptFacts DEF Has
        <3>2. \A i : Has(m + 1, i)' <=> Has(m + 1, i)
            BY DEF Has
        <3> QED BY <1>1, <1>5, <3>1, <3>2 DEF ExecutedBefore
    <2>5. Running(p)' => /\ upgrade'[p].migration = version' + 1
                         /\ ExecutedBefore(version + 1, upgrade[p].statement)'
        BY <1>1, <1>10, <2>4 DEF ExecutedBefore, Has
    <2> QED BY <1>1, <1>9, <1>10, <2>2, <2>3, <2>5 DEF AloneInv
<1>13. FailureHasReason' /\ TornInv'
    BY <1>1, <1>2, <1>9, <1>10 DEF FailureHasReason, TornInv
<1> QED BY <1>7, <1>8, <1>11, <1>12, <1>13

\* An upgrade that ends early leaves the database as it is.
LEMMA FailureKeeps ==
    ASSUME UpgradeInv, NEW p \in Processes, UNCHANGED <<schema, versionTable, version>>,
           NEW u \in Upgrade, u.step \in {"idle", "failed"},
           upgrade' = [upgrade EXCEPT ![p] = u],
           \/ UNCHANGED <<excused, cut>> /\ ~Ahead(p) /\ (u.step = "failed" => excused[p])
           \/ /\ excused' \in {excused, [excused EXCEPT ![p] = TRUE]}
              /\ cut' \in BOOLEAN /\ (cut => cut') /\ (Upgrading(p) => cut')
              /\ u.step = "failed" => excused'[p]
    PROVE  UpgradeInv'
<1> USE DEF UpgradeInv
<1>1. PrefixInv' /\ (Torn' <=> Torn) /\ \A m, i : ExecutedBefore(m, i)' <=> ExecutedBefore(m, i)
    BY SameDatabase
<1>2. upgrade'[p] = u /\ \A q \in Processes \ {p} : upgrade'[q] = upgrade[q]
    BY DEF MigrationsTypeOK
<1>3. /\ \A q \in Processes \ {p} : excused'[q] = excused[q]
      /\ u.step = "failed" => excused'[p]
    BY DEF MigrationsTypeOK
<1>4. MigrationsTypeOK'
    <2>1. cut' \in BOOLEAN
        BY DEF MigrationsTypeOK
    <2>2. excused' \in [Processes -> BOOLEAN]
        BY DEF MigrationsTypeOK
    <2> QED BY <2>1, <2>2 DEF MigrationsTypeOK
<1>5. /\ \A q \in Processes \ {p} :
            (Running(q)' <=> Running(q)) /\ (Ahead(q)' <=> Ahead(q)) /\ (Upgrading(q)' <=> Upgrading(q))
      /\ ~Running(p)' /\ ~Ahead(p)' /\ ~Upgrading(p)'
    BY <1>2 DEF Running, Ahead, Upgrading
<1>6. PlaceInv' /\ OneAhead'
    BY <1>1, <1>2, <1>5 DEF PlaceInv, OneAhead
<1>7. AloneInv'
    BY <1>1, <1>2, <1>3, <1>5 DEF AloneInv
<1>8. TornInv'
    <2>1. Ahead(p) => Upgrading(p)
        BY DEF Ahead, Running, Upgrading
    <2>3. cut => cut'
        OBVIOUS
    <2>4. Ahead(p) => cut'
        BY <2>1
    <2> QED BY <1>1, <1>5, <2>3, <2>4 DEF TornInv
<1>9. FailureHasReason'
    BY <1>2, <1>3 DEF FailureHasReason
<1> QED BY <1>1, <1>4, <1>6, <1>7, <1>8, <1>9

\* A refused statement changes nothing, and only meets who was not alone or found a torn file.
LEMMA RefusedKeeps ==
    ASSUME UpgradeInv, NEW p \in Processes, Refused(p)
    PROVE  UpgradeInv'
<1> USE DEF UpgradeInv
<1>1. Upgrading(p) /\ (Running(p) \/ upgrade[p].step = "version_table")
    BY DEF Refused, Upgrading, Running, At, AtEnd
\* a running process that is refused is not at the front of the script
<1>2. ~(/\ Running(p) /\ upgrade[p].migration = version + 1
        /\ ExecutedBefore(version + 1, upgrade[p].statement))
    <2> SUFFICES ASSUME Running(p), upgrade[p].migration = version + 1,
                        ExecutedBefore(version + 1, upgrade[p].statement)
                 PROVE  FALSE
        OBVIOUS
    <2>1. version \in Nat /\ version = upgrade[p].migration - 1
        BY HeadIsNatural DEF MigrationsTypeOK
    <2>2. PICK object \in schema : At(p, object)
        BY <2>1 DEF Refused, Running
    <2>3. Has(version + 1, upgrade[p].statement)
        BY <2>2, ScriptFacts DEF At, Has, PlaceInv
    <2>4. Statements[version + 1][upgrade[p].statement] \in schema
        BY <2>2 DEF At
    <2> QED BY <2>3, <2>4, ScriptFacts DEF ExecutedBefore, Has
<1>3. ~Ahead(p)
    BY <1>2 DEF PlaceInv, Ahead
<1>4. excused[p]
    BY <1>1, <1>2 DEF AloneInv, Refused, Running, At, AtEnd
<1>5. PICK u \in Upgrade : u.step = "failed" /\ upgrade' = [upgrade EXCEPT ![p] = u]
    <2>1. [upgrade[p] EXCEPT !.step = "failed"] \in Upgrade
        BY DEF MigrationsTypeOK, Upgrade
    <2> WITNESS [upgrade[p] EXCEPT !.step = "failed"] \in Upgrade
    <2> QED BY DEF Refused, MigrationsTypeOK, Upgrade
<1> QED BY <1>3, <1>4, <1>5, FailureKeeps DEF Refused

\* An upgrade that raises for another reason leaves what it has executed.
LEMMA UpgradeErrorKeeps ==
    ASSUME UpgradeInv, NEW p \in Processes, UpgradeError(p)
    PROVE  UpgradeInv'
<1>1. PICK u \in Upgrade : u.step = "failed" /\ upgrade' = [upgrade EXCEPT ![p] = u]
    <2>1. [upgrade[p] EXCEPT !.step = "failed"] \in Upgrade
        BY DEF UpgradeInv, MigrationsTypeOK, Upgrade
    <2> WITNESS [upgrade[p] EXCEPT !.step = "failed"] \in Upgrade
    <2> QED BY DEF UpgradeInv, UpgradeError, MigrationsTypeOK, Upgrade
<1>2. /\ UNCHANGED <<schema, versionTable, version>> /\ cut' = TRUE
      /\ excused' = [excused EXCEPT ![p] = TRUE] /\ excused'[p]
    BY DEF UpgradeInv, UpgradeError, MigrationsTypeOK
<1> QED BY <1>1, <1>2, FailureKeeps

\* So does one whose process is killed.
LEMMA KilledKeeps ==
    ASSUME UpgradeInv, NEW p \in Processes, Killed(p)
    PROVE  UpgradeInv'
<1>1. NoUpgrade \in Upgrade /\ NoUpgrade.step = "idle"
    BY HeadIsNatural DEF NoUpgrade, Upgrade
<1>2. Upgrading(p) \in BOOLEAN /\ cut \in BOOLEAN
    BY DEF Upgrading, UpgradeInv, MigrationsTypeOK
<1>3. /\ UNCHANGED <<schema, versionTable, version, excused>>
      /\ upgrade' = [upgrade EXCEPT ![p] = NoUpgrade]
      /\ cut' \in BOOLEAN /\ (cut => cut') /\ (Upgrading(p) => cut')
    BY <1>2 DEF Killed
<1> QED BY <1>1, <1>3, FailureKeeps

-----------------------------------------------------------------------------
(* The invariant of run().                                                 *)

\* What a process has made, stage by stage
StageInv ==
    \A p \in Processes :
        /\ Upgrading(p) => stage[p] = "upgrade"
        /\ stage[p] \in {"engine"} \cup Composed => upgrade[p].step = "done"
        /\ stage[p] # "serving" => port # p
        /\ stage[p] = "off" =>
              \/ bus[p] = "none" /\ provider[p] = "none"
              \/ /\ bus[p] \in {"none", "closed"}
                 /\ provider[p] = "closed" \/ interrupt[p] = "delivered"
        /\ stage[p] \in {"upgrade", "engine"} => bus[p] = "none" /\ provider[p] = "none"
        /\ stage[p] = "learner" => bus[p] = "none" /\ provider[p] = "open"
        /\ stage[p] \in {"agent", "bind", "serving", "closing_bus"} => provider[p] = "open"
        /\ stage[p] = "closing_provider" => bus[p] \in {"none", "closed"} /\ provider[p] = "open"

RuntimeInv == RuntimeTypeOK /\ UpgradeInv /\ StageInv

\* Nothing has been started or made in the beginning.
LEMMA RuntimeInvInit == RuntimeInit => RuntimeInv
<1> SUFFICES ASSUME RuntimeInit PROVE RuntimeInv
    OBVIOUS
<1>1. UpgradeInv
    BY UpgradeInvInit DEF RuntimeInit
<1>2. /\ stage \in [Processes -> {"off", "upgrade", "engine"} \cup Composed]
      /\ bus \in [Processes -> {"none", "new", "running", "closed"}]
      /\ provider \in [Processes -> {"none", "open", "closed"}]
      /\ port \in Processes \cup {NoProcess}
      /\ interrupt \in [Processes -> {"none", "pending", "delivered"}]
    BY DEF RuntimeInit
<1>3. StageInv
    <2>1. \A p \in Processes : ~Upgrading(p)
        BY DEF RuntimeInit, MigrationsInit, NoUpgrade, Upgrading
    <2> QED BY <2>1, RuntimeAssumption DEF RuntimeInit, StageInv, Composed
<1> QED BY <1>1, <1>2, <1>3 DEF RuntimeInv, RuntimeTypeOK, UpgradeInv

\* A step of an upgrade, or its failure, keeps the invariant of the runtime as well.
LEMMA UpgradeStepsKeep ==
    ASSUME RuntimeInv, NEW p \in Processes, UNCHANGED unchangedRun,
           UpgradeStep(p) \/ UpgradeError(p)
    PROVE  RuntimeInv'
<1>1. UpgradeInv'
    BY ReadHeadsKeeps, CreateVersionTableKeeps, ExecuteKeeps, StampKeeps, RefusedKeeps,
       UpgradeErrorKeeps DEF UpgradeStep, RuntimeInv
<1>2. Upgrading(p) /\ \A q \in Processes \ {p} : upgrade'[q] = upgrade[q]
    <2>1. Upgrading(p)
        BY DEF UpgradeStep, ReadHeads, CreateVersionTable, Execute, Stamp, Refused, UpgradeError,
               Upgrading, At, AtEnd
    <2>2. \E u : upgrade' = [upgrade EXCEPT ![p] = u]
        BY DEF UpgradeStep, ReadHeads, CreateVersionTable, Execute, Stamp, Refused, UpgradeError
    <2> QED BY <2>1, <2>2 DEF RuntimeInv, RuntimeTypeOK, MigrationsTypeOK
<1>3. StageInv'
    <2>1. stage[p] = "upgrade"
        BY <1>2 DEF RuntimeInv, StageInv
    <2>2. \A q \in Processes \ {p} : Upgrading(q)' <=> Upgrading(q)
        BY <1>2 DEF Upgrading
    <2> QED BY <1>2, <2>1, <2>2 DEF RuntimeInv, StageInv, unchangedRun, Composed
<1> QED BY <1>1, <1>3 DEF RuntimeInv, RuntimeTypeOK, UpgradeInv, unchangedRun

\* A process that starts has made nothing yet.
LEMMA StartKeeps ==
    ASSUME RuntimeInv, NEW p \in Processes, Start(p)
    PROVE  RuntimeInv'
<1>1. UpgradeInv'
    BY BeginKeeps DEF Start, RuntimeInv
<1>2. \A q \in Processes \ {p} : /\ upgrade'[q] = upgrade[q]
                                 /\ Upgrading(q)' <=> Upgrading(q)
    BY DEF Start, Begin, RuntimeInv, RuntimeTypeOK, MigrationsTypeOK, Upgrading
<1>3. RuntimeTypeOK'
    BY <1>1 DEF Start, Goto, RuntimeInv, RuntimeTypeOK, UpgradeInv
<1>4. StageInv'
    BY <1>2 DEF Start, Goto, RuntimeInv, RuntimeTypeOK, StageInv, Composed
<1> QED BY <1>1, <1>3, <1>4 DEF RuntimeInv

\* What leaves the schema and the upgrades alone keeps all that is said of them.
LEMMA SameUpgrades ==
    ASSUME RuntimeInv, UNCHANGED migrationVars
    PROVE  UpgradeInv' /\ MigrationsTypeOK' /\ \A q \in Processes : Upgrading(q)' <=> Upgrading(q)
BY DEF RuntimeInv, migrationVars, UpgradeInv, MigrationsTypeOK, PrefixInv, PlaceInv, OneAhead, AloneInv,
       TornInv, FailureHasReason, Torn, Running, Ahead, Upgrading, ExecutedBefore, Has

\* Every line of run(), and every way it may raise, keeps the invariant.
LEMMA RunStepKeeps ==
    ASSUME RuntimeInv, NEW p \in Processes, RunStep(p)
    PROVE  RuntimeInv'
<1>1. UNCHANGED migrationVars
    BY DEF RunStep, Upgraded, UpgradeRaises, CreateProvider, ProviderRaises, CreateBus,
           LearnerOrBusRaises, StartBus, AgentRaises, Bind, BindRaises, ServerEnds, CloseBus,
           CloseProvider, CloseProviderCut
<1>2. UpgradeInv' /\ MigrationsTypeOK' /\ \A q \in Processes : Upgrading(q)' <=> Upgrading(q)
    BY <1>1, SameUpgrades
<1>3. upgrade' = upgrade
    BY <1>1 DEF migrationVars
<1> USE DEF RuntimeInv, RuntimeTypeOK, StageInv, Composed, Goto
<1>4. CASE Upgraded(p)
    BY <1>2, <1>3, <1>4 DEF Upgraded, UpgradeIsDone, Upgrading
<1>5. CASE UpgradeRaises(p)
    BY <1>2, <1>3, <1>5 DEF UpgradeRaises, Upgrading
<1>6. CASE CreateProvider(p)
    BY <1>2, <1>3, <1>6 DEF CreateProvider, Upgrading
<1>7. CASE ProviderRaises(p)
    BY <1>2, <1>3, <1>7 DEF ProviderRaises, Upgrading
<1>8. CASE CreateBus(p)
    BY <1>2, <1>3, <1>8 DEF CreateBus, Upgrading
<1>9. CASE LearnerOrBusRaises(p)
    BY <1>2, <1>3, <1>9 DEF LearnerOrBusRaises, Upgrading
<1>10. CASE StartBus(p)
    BY <1>2, <1>3, <1>10 DEF StartBus, Upgrading
<1>11. CASE AgentRaises(p)
    BY <1>2, <1>3, <1>11 DEF AgentRaises, AfterFailedAgent, Upgrading
<1>12. CASE Bind(p)
    BY <1>2, <1>3, <1>12 DEF Bind, Upgrading
<1>13. CASE BindRaises(p)
    BY <1>2, <1>3, <1>13 DEF BindRaises, Upgrading
<1>14. CASE ServerEnds(p)
    BY <1>2, <1>3, <1>14, RuntimeAssumption DEF ServerEnds, Upgrading
<1>15. CASE CloseBus(p)
    BY <1>2, <1>3, <1>15 DEF CloseBus, Upgrading
<1>16. CASE CloseProvider(p)
    BY <1>2, <1>3, <1>16 DEF CloseProvider, Upgrading
<1>17. CASE CloseProviderCut(p)
    BY <1>2, <1>3, <1>17 DEF CloseProviderCut, Upgrading
<1> QED BY <1>4, <1>5, <1>6, <1>7, <1>8, <1>9, <1>10, <1>11, <1>12, <1>13, <1>14, <1>15, <1>16,
           <1>17 DEF RunStep

\* A Ctrl-C is only noted when it comes.
LEMMA InterruptKeeps ==
    ASSUME RuntimeInv, NEW p \in Processes, Interrupt(p)
    PROVE  RuntimeInv'
<1>1. UpgradeInv' /\ MigrationsTypeOK' /\ \A q \in Processes : Upgrading(q)' <=> Upgrading(q)
    BY SameUpgrades DEF Interrupt
<1> QED BY <1>1 DEF Interrupt, migrationVars, RuntimeInv, RuntimeTypeOK, StageInv, Composed

\* A process that is killed takes with it what it had made.
LEMMA KillKeeps ==
    ASSUME RuntimeInv, NEW p \in Processes, Kill(p)
    PROVE  RuntimeInv'
<1>1. UpgradeInv'
    BY KilledKeeps DEF Kill, RuntimeInv
<1>2. /\ upgrade'[p].step = "idle"
      /\ \A q \in Processes \ {p} : upgrade'[q] = upgrade[q] /\ (Upgrading(q)' <=> Upgrading(q))
    BY DEF Kill, Killed, NoUpgrade, RuntimeInv, RuntimeTypeOK, MigrationsTypeOK, Upgrading
<1>3. RuntimeTypeOK'
    BY <1>1 DEF Kill, RuntimeInv, RuntimeTypeOK, UpgradeInv
<1>4. StageInv'
    BY <1>2, RuntimeAssumption DEF Kill, RuntimeInv, RuntimeTypeOK, StageInv, Composed, Upgrading
<1> QED BY <1>1, <1>3, <1>4 DEF RuntimeInv

\* The schema is a prefix of the scripts, and each process has made what its stage needs, in
\* every reachable state.
LEMMA RuntimeInvariant == RuntimeSpec => []RuntimeInv
<1>1. RuntimeInit => RuntimeInv
    BY RuntimeInvInit
<1>2. ASSUME RuntimeInv, [RuntimeNext]_runtimeVars
      PROVE  RuntimeInv'
    <2>1. CASE UNCHANGED runtimeVars
        <3>1. UNCHANGED migrationVars
            BY <2>1 DEF runtimeVars, migrationVars
        <3>2. UpgradeInv' /\ MigrationsTypeOK' /\ \A q \in Processes : Upgrading(q)' <=> Upgrading(q)
            BY <1>2, <3>1, SameUpgrades
        <3> QED BY <1>2, <2>1, <3>2 DEF runtimeVars, RuntimeInv, RuntimeTypeOK, StageInv
    <2>2. ASSUME NEW p \in Processes, Start(p)
          PROVE  RuntimeInv'
        BY <1>2, <2>2, StartKeeps
    <2>3. ASSUME NEW p \in Processes, UpgradeStep(p) \/ UpgradeError(p), UNCHANGED unchangedRun
          PROVE  RuntimeInv'
        BY <1>2, <2>3, UpgradeStepsKeep
    <2>4. ASSUME NEW p \in Processes, RunStep(p) \/ Interrupt(p) \/ Kill(p)
          PROVE  RuntimeInv'
        BY <1>2, <2>4, RunStepKeeps, InterruptKeeps, KillKeeps
    <2> QED BY <1>2, <2>1, <2>2, <2>3, <2>4 DEF RuntimeNext, UpgradeStep
<1> QED BY <1>1, <1>2, PTL DEF RuntimeSpec

-----------------------------------------------------------------------------
(* The theorems.                                                           *)

\* The schema, the upgrades and the processes of main.run keep their types.
THEOREM RuntimeTypeCorrect == RuntimeSpec => []RuntimeTypeOK
BY RuntimeInvariant, PTL DEF RuntimeInv

\* No runtime composes its services over a database that is not at the Alembic
\* head with every object of every migration, whatever was killed or raced.
THEOREM ComposedOnCompleteSchemaHolds == RuntimeSpec => []ComposedOnCompleteSchema
<1>1. ASSUME RuntimeInv
      PROVE  ComposedOnCompleteSchema
    <2> SUFFICES ASSUME NEW p \in Processes, stage[p] \in Composed
                 PROVE  Complete
        BY DEF ComposedOnCompleteSchema
    <2>1. version = HeadVersion
        BY <1>1 DEF RuntimeInv, StageInv, UpgradeInv, PlaceInv
    <2>2. \A m, i : Has(m, i) => Statements[m][i] \in schema
        BY <1>1, <2>1, HeadIsNatural DEF RuntimeInv, UpgradeInv, PrefixInv, Has
    <2>3. SchemaOf(HeadVersion) \subseteq schema
        BY <2>2, SchemaFacts
    <2> QED BY <1>1, <2>1, <2>3 DEF Complete, RuntimeInv, UpgradeInv, MigrationsTypeOK
<1> QED BY <1>1, RuntimeInvariant, PTL

\* An upgrade fails only beside another one, on a torn database or by an error of
\* its own.
THEOREM FailureHasReasonHolds == RuntimeSpec => []FailureHasReason
BY RuntimeInvariant, PTL DEF RuntimeInv, UpgradeInv

\* A torn database is being completed by the one process that is ahead, or an
\* upgrade was cut: a race of upgrades alone tears nothing.
THEOREM TornHasReasonHolds == RuntimeSpec => []TornHasReason
<1>1. ASSUME RuntimeInv
      PROVE  TornHasReason
    BY <1>1 DEF RuntimeInv, UpgradeInv, TornInv, PlaceInv, TornHasReason, Ahead, Running
<1> QED BY <1>1, RuntimeInvariant, PTL

\* Every path out of run() closes the bus, then the provider, and frees the port.
THEOREM ReleasesWhatItMadeHolds == RuntimeSpec => []ReleasesWhatItMade
<1>1. ASSUME RuntimeInv
      PROVE  ReleasesWhatItMade
    BY <1>1 DEF RuntimeInv, RuntimeTypeOK, StageInv, ReleasesWhatItMade, Composed
<1> QED BY <1>1, RuntimeInvariant, PTL
=============================================================================
