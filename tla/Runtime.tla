------------------------------- MODULE Runtime -------------------------------
(***************************************************************************)
(* main.run: the steps of a start, what they acquire, and how it is given  *)
(* back on every path out.  Several processes may be started on the same   *)
(* database file and port, one beside or after the other; each may be      *)
(* interrupted (Ctrl-C) or killed at any point.                            *)
(*                                                                         *)
(* Everything up to the start of the server is synchronous: the            *)
(* cancellation an interrupt requests is delivered at the first await that *)
(* suspends.  What a running server does is in AgentCore, what close() of  *)
(* the bus does in EventBus.                                               *)
(***************************************************************************)
EXTENDS Migrations

CONSTANT NoProcess

ASSUME RuntimeAssumption == NoProcess \notin Processes

VARIABLES
    stage,          \* where run() of each process is
    bus, provider,  \* what it has made
    port,           \* the process that listens
    interrupt       \* a requested cancellation

runtimeVars == <<schema, versionTable, version, upgrade, excused, cut,
                 stage, bus, provider, port, interrupt>>

Composed == {"learner", "agent", "bind", "serving", "closing_bus", "closing_provider"}

RuntimeTypeOK ==
    /\ MigrationsTypeOK
    /\ stage \in [Processes -> {"off", "upgrade", "engine"} \cup Composed]
    /\ bus \in [Processes -> {"none", "new", "running", "closed"}]
    /\ provider \in [Processes -> {"none", "open", "closed"}]
    /\ port \in Processes \cup {NoProcess}
    /\ interrupt \in [Processes -> {"none", "pending", "delivered"}]

RuntimeInit ==
    /\ MigrationsInit
    /\ stage = [p \in Processes |-> "off"]
    /\ bus = [p \in Processes |-> "none"]
    /\ provider = [p \in Processes |-> "none"]
    /\ port = NoProcess
    /\ interrupt = [p \in Processes |-> "none"]

Goto(p, from, to) == stage[p] = from /\ stage' = [stage EXCEPT ![p] = to]

-----------------------------------------------------------------------------
(* The steps of run().                                                     *)

\* Settings and character are loaded (if they cannot be, nothing has happened).
Start(p) ==
    /\ Goto(p, "off", "upgrade")
    /\ Begin(p)
    /\ bus' = [bus EXCEPT ![p] = "none"]
    /\ provider' = [provider EXCEPT ![p] = "none"]
    /\ interrupt' = [interrupt EXCEPT ![p] = "none"]
    /\ UNCHANGED port

UpgradeStep(p) ==
    \/ ReadHeads(p)
    \/ CreateVersionTable(p)
    \/ Execute(p)
    \/ Stamp(p)
    \/ Refused(p)

\* upgrade_memory_database returns; engine, repository and services are objects
\* without I/O (the engine connects when it is first used).
UpgradeIsDoneBug(p) == upgrade[p].step # "failed"
UpgradeIsDone(p) == upgrade[p].step = "done"
Upgraded(p) ==
    /\ UpgradeIsDone(p)
    /\ Goto(p, "upgrade", "engine")
    /\ UNCHANGED <<migrationVars, bus, provider, port, interrupt>>

\* its exception leaves run(): nothing has been made yet
UpgradeRaises(p) ==
    /\ upgrade[p].step = "failed"
    /\ Goto(p, "upgrade", "off")
    /\ UNCHANGED <<migrationVars, bus, provider, port, interrupt>>

CreateProvider(p) ==
    /\ Goto(p, "engine", "learner")
    /\ provider' = [provider EXCEPT ![p] = "open"]
    /\ UNCHANGED <<migrationVars, bus, port, interrupt>>

\* another provider is configured, or no API key
ProviderRaises(p) ==
    /\ Goto(p, "engine", "off")
    /\ UNCHANGED <<migrationVars, bus, provider, port, interrupt>>

CreateBus(p) ==
    /\ Goto(p, "learner", "agent")
    /\ bus' = [bus EXCEPT ![p] = "new"]
    /\ UNCHANGED <<migrationVars, provider, port, interrupt>>

LearnerOrBusRaises(p) ==
    /\ Goto(p, "learner", "closing_provider")
    /\ UNCHANGED <<migrationVars, bus, provider, port, interrupt>>

\* Agent, governance, router and server are objects; start() does not suspend.
StartBus(p) ==
    /\ Goto(p, "agent", "bind")
    /\ bus' = [bus EXCEPT ![p] = "running"]
    /\ UNCHANGED <<migrationVars, provider, port, interrupt>>

AfterFailedAgentBug == "closing_provider"
AfterFailedAgent == "closing_bus"
AgentRaises(p) ==
    /\ Goto(p, "agent", AfterFailedAgent)
    /\ UNCHANGED <<migrationVars, bus, provider, port, interrupt>>

\* server.run binds the port
Bind(p) ==
    /\ interrupt[p] # "pending"
    /\ port = NoProcess
    /\ Goto(p, "bind", "serving")
    /\ port' = p
    /\ UNCHANGED <<migrationVars, bus, provider, interrupt>>

\* The port is taken, or the pending cancellation is delivered at this await.
CannotBindBug(p) == interrupt[p] = "pending"
CannotBind(p) == interrupt[p] = "pending" \/ port # NoProcess
BindRaises(p) ==
    /\ CannotBind(p)
    /\ Goto(p, "bind", "closing_bus")
    /\ interrupt' = [interrupt EXCEPT ![p] = IF @ = "pending" THEN "delivered" ELSE @]
    /\ UNCHANGED <<migrationVars, bus, provider, port>>

\* serve_forever ends by cancellation only; leaving serve() closes the socket
ServerEnds(p) ==
    /\ interrupt[p] = "pending"
    /\ Goto(p, "serving", "closing_bus")
    /\ port' = NoProcess
    /\ interrupt' = [interrupt EXCEPT ![p] = "delivered"]
    /\ UNCHANGED <<migrationVars, bus, provider>>

\* The inner finally.  close() of a running bus may suspend, and a cancellation
\* that hits it there still leaves the bus closed.
CloseBus(p) ==
    /\ Goto(p, "closing_bus", "closing_provider")
    /\ bus' = [bus EXCEPT ![p] = "closed"]
    /\ \/ UNCHANGED interrupt
       \/ /\ bus[p] = "running" /\ interrupt[p] = "pending"
          /\ interrupt' = [interrupt EXCEPT ![p] = "delivered"]
    /\ UNCHANGED <<migrationVars, provider, port>>

\* The outer finally.
CloseProvider(p) ==
    /\ Goto(p, "closing_provider", "off")
    /\ provider' = [provider EXCEPT ![p] = "closed"]
    /\ UNCHANGED <<migrationVars, bus, port, interrupt>>

\* the cancellation hits the client's close()
CloseProviderCut(p) ==
    /\ interrupt[p] = "pending"
    /\ Goto(p, "closing_provider", "off")
    /\ interrupt' = [interrupt EXCEPT ![p] = "delivered"]
    /\ UNCHANGED <<migrationVars, bus, provider, port>>

-----------------------------------------------------------------------------
(* What may happen to a process.                                           *)

\* the first Ctrl-C
Interrupt(p) ==
    /\ stage[p] # "off"
    /\ interrupt[p] = "none"
    /\ interrupt' = [interrupt EXCEPT ![p] = "pending"]
    /\ UNCHANGED <<migrationVars, stage, bus, provider, port>>

\* a crash, a second Ctrl-C, the end of the session
Kill(p) ==
    /\ stage[p] # "off"
    /\ Killed(p)
    /\ stage' = [stage EXCEPT ![p] = "off"]
    /\ bus' = [bus EXCEPT ![p] = "none"]
    /\ provider' = [provider EXCEPT ![p] = "none"]
    /\ port' = IF port = p THEN NoProcess ELSE port
    /\ interrupt' = [interrupt EXCEPT ![p] = "none"]

RunStep(p) ==
    \/ Upgraded(p)
    \/ UpgradeRaises(p)
    \/ CreateProvider(p)
    \/ ProviderRaises(p)
    \/ CreateBus(p)
    \/ LearnerOrBusRaises(p)
    \/ StartBus(p)
    \/ AgentRaises(p)
    \/ Bind(p)
    \/ BindRaises(p)
    \/ ServerEnds(p)
    \/ CloseBus(p)
    \/ CloseProvider(p)
    \/ CloseProviderCut(p)

unchangedRun == <<stage, bus, provider, port, interrupt>>

RuntimeNext ==
    \E p \in Processes :
        \/ Start(p)
        \/ ReadHeads(p) /\ UNCHANGED unchangedRun
        \/ CreateVersionTable(p) /\ UNCHANGED unchangedRun
        \/ Execute(p) /\ UNCHANGED unchangedRun
        \/ Stamp(p) /\ UNCHANGED unchangedRun
        \/ Refused(p) /\ UNCHANGED unchangedRun
        \/ UpgradeError(p) /\ UNCHANGED unchangedRun
        \/ RunStep(p)
        \/ Interrupt(p)
        \/ Kill(p)

RuntimeSpec == RuntimeInit /\ [][RuntimeNext]_runtimeVars

\* run() goes on: it is sequential code, its awaits end (CloseEnds of EventBus,
\* ShutdownEnds of AgentCore).  Nobody has to start, interrupt or kill anything.
RuntimeFairness ==
    \A p \in Processes :
        WF_runtimeVars((UpgradeStep(p) /\ UNCHANGED unchangedRun) \/ RunStep(p))

RuntimeFairSpec == RuntimeSpec /\ RuntimeFairness

-----------------------------------------------------------------------------

\* No runtime composes its services over a database that is not wholly at the
\* head, whatever was killed, torn or raced before.
ComposedOnCompleteSchema ==
    \A p \in Processes : stage[p] \in Composed => Complete

\* On every path out of run() the port is free, the bus closed and then the
\* provider; only an interrupt during the last close leaves the provider open.
ReleasesWhatItMade ==
    \A p \in Processes :
        /\ provider[p] = "closed" => bus[p] \in {"none", "closed"}
        /\ stage[p] = "off" =>
              /\ port # p
              /\ bus[p] \in {"none", "closed"}
              /\ provider[p] = "open" => interrupt[p] = "delivered"

\* A start ends: it serves, or it is over; and an interrupt ends it.
StartEnds ==
    \A p \in Processes :
        /\ stage[p] # "off" ~> stage[p] \in {"off", "serving"}
        /\ interrupt[p] = "pending" ~> stage[p] = "off"
=============================================================================
