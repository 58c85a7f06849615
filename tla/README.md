# Verification of the Desktop Companion Agent

TLA+ models, TLC checks and TLAPS proofs for the Desktop Companion Agent: a
Python agent core (`src/agent_core`), its SQLite memory (`migrations/`), and the
WPF desktop client that talks to it over one WebSocket (`src/Desktop`).

## 1. The system

| Part | State | Operations | Interacts with | What makes it correct |
|---|---|---|---|---|
| Memory persistence (`memory/persistence`) | two tables: memories and their numbered revisions | create, replace, reactivate, expire, delete, adopt an identity key; queries | called by governance, learning, retention, retrieval, each call in a session of its own | one ACTIVE revision, unique numbers, unbroken histories, deleted stays deleted, unique identity keys |
| Memory governance (`memory/governance.py`, `health_aware_governance.py`) | none | inspect, list, history, edit, delete | protocol handler above, repository below | a user's edit or deletion is final for everyone else |
| Memory learning (`memory/learning`) | none | extract, filter, resolve, learn a candidate | the chat turn above; resolver, conflict policy, repository | decides on what it replaces; never overrides the user |
| Memory retention (`retention*.py`) | none | one sweep | repository, clock | expires what is due and nothing else |
| Memory retrieval (`retrieval*.py`, `resilient_retriever.py`) | none | build the context of a turn | repository | ACTIVE revisions of the permitted scopes only |
| Memory health (`health.py`) | AVAILABLE, DEGRADED, UNAVAILABLE (which nobody sets) | reports of successes and failures | resilient retriever and learner, governance | reflects the last operations |
| Event bus (`events/bus.py`) | life-cycle state, bounded queue, dispatcher task | subscribe, start, publish, close | runtime events of the composition root; handlers | FIFO, bounded, drained by a graceful close, clean once closed |
| Agent, router, WebSocket server (`core`, `communication`) | none but the connection | one message at a time per connection | all of the above | every request is answered, one failing part does not end the turn |
| Extraction and eligibility (`memory/learning/llm_extractor.py`, `models.py`, `policy.py`) | none | what a model says about a turn becomes candidates, or is refused | the turn learner, the provider | nothing made here is rejected further on |
| Memory protocol (`memory/protocol.py`, the desktop's `MemoryProtocol.cs`) | none | write, read and answer `memory.*` messages | both sides of the socket | both sides mean the same |
| Providers (`providers`) | the SDK's client | one call, one close | the agent, the extractor | every failure the SDK names has its error, every error its code; anything else escapes |
| Characters (`characters`) | none | load a directory of TOML files, choose one | `main.py` at start-up | nothing in a file is ignored |
| Composition, temporal, configuration, observability | none | formatting and reading | the agent, `main.py` | prompt layout |
| Runtime (`main.py`) | what has been started | start-up, shutdown, interrupt | composes everything | what was started is closed, in reverse order; a start ends |
| Migrations (`migrations/`, `persistence/schema.py`) | schema and its version | three upgrades | the database, before the runtime opens it | nobody serves a half-made schema; an upgrade that nothing disturbs succeeds |
| Desktop client (`AgentClientService`, `WebSocketAgentConnection`) | pending requests, receive loop, socket | connect, send, request, disconnect | view models above, the core below | each request gets its own answer or an end |
| Desktop view models | selection, edit text, lists | load, inspect, save, delete, history | the client services | an answer is applied to what it was asked for |

Hard to test, and the reason for the models: several sessions of one database
that read before their transaction begins; SQLite's reuse of row ids; decisions
of learning that are stale when they are written; a bus whose dispatcher, handlers
and closers die or are cancelled in any order; a client whose callers, receive loop
and disconnect meet on one dictionary; a window in which the user goes on while an
answer is awaited. `PROJECT.json` lists every hazard at its line,
those no property covers yet with the reason.

## 2. The modules

| Module | Models |
|---|---|
| `MemoryRepository` | `sqlite_repository.py` over the tables of `orm.py` |
| `MemoryPolicies` | authority and conflict rules (`conflict.py`), the exact-duplicate rule (`resolver.py`) |
| `MemoryLifecycle` | nothing in the code: what the memory system promises, one atomic step per request |
| `MemoryServices` | governance, learning with its resolver, and expiry, as callers of `MemoryRepository`; implements `MemoryLifecycle` |
| `EventQueue` | nothing in the code: what the bus promises whoever publishes |
| `EventBus` | `events/bus.py`; implements `EventQueue` |
| `AgentClient` | `AgentClientService.cs` over `WebSocketAgentConnection.cs` |
| `AgentCore` | `websocket_server.py`, `message_router.py`, `agent.py`, retrieval, the turn learner and its extractor, `protocol.py`, health, and the life cycle in `main.py` |
| `MemoryView` | `MemoryManagementViewModel.cs` with the window and list box around it, before a core that keeps `MemoryLifecycle` |
| `MemoryProtocol` | `MemoryProtocol.cs`, `MemoryProtocolModels.cs` and `protocol.py`: what each side lets through, writes and reads |
| `MemoryRules` | `llm_extractor.py`, `learning/models.py`, `learning/policy.py`, identity keys, the records `learning/service.py` builds, which of a store's memories a turn retrieves within its limits, when they are due |
| `Characters` | `characters/loader.py`, `characters/models.py` |
| `ProviderErrors` | the `except` clauses and status codes of `deepseek.py`, `errors.py`, the table of codes in `agent.py` |
| `Migrations` | `upgrade_memory_database` with the three migrations, as several processes run it on one file |
| `Runtime` | `main.run` from the first line to the last, over `Migrations` |
| `MemoryRepository_proofs`, `MemoryServices_proofs`, `EventBus_proofs`, `AgentClient_proofs`, `AgentCore_proofs`, `MemoryView_proofs`, `Runtime_proofs`, `MemoryRules_proofs` | theorems about the module of that name (the last one about `MemoryProtocol` too) |
| `MCMemoryRepository`, `MCMemoryServices`, `MCEventBus`, `MCAgentClient`, `MCAgentCore`, `MCMemoryView`, `MCMemoryRules` | bounded instances (the last one of modules without a state) |

### MemoryRepository

`memoryRows` is the table of memories (its identity key is all that matters here),
`revisionRows` the table of revisions by row id, and `call` what each concurrent
caller's repository method is about to do. The steps are those of the sqlite3 driver
under aiosqlite in its default mode: a SELECT before the first write runs in
autocommit mode, and the transaction begins with the first INSERT, UPDATE or DELETE,
which takes SQLite's write lock until the commit. So `replace_active_revision` is
`SelectActive`, `SelectMax` and then one atomic `CommitReplace`, although the code
puts `session.begin()` around all of it. What the code does between its last read
and its commit (UPDATE, flush, INSERT, constraint checks) is one action. A constraint
that fails, a row that is gone (`StaleDataError`), a busy database and a cancelled
caller all end in `Fail`, which changes nothing: every write is rolled back. A crash of the
process between two steps is `Fail` for everybody, so crashes need no action of
their own: nothing is kept in memory. Row ids are the ones SQLite gives to an
`INTEGER PRIMARY KEY` that is not AUTOINCREMENT: one above the largest, hence reused. The
content, source and times of a revision are one opaque payload; domain and scope are
fixed, so a key stands for the triple the unique indexes cover.

The callers of this module ask for anything a well-formed record may say, so its
safety properties do not rest on what the services above read before.

### MemoryServices

Adds `task`, the resolver's scan of each learner, and restricts the callers to what
`MemoryGovernance`, `MemoryLearningService` and `MemoryRetentionService` ask for. Each
request reads (in sessions of its own), decides, and enters the repository with the
revision number it computed: that number is all that links the decision to the
write. `LearnExisting` is the path for a memory found by its key,
`LearnUnnamed`, `ListMemories`, `ScanOther`, `ScanDuplicate` and `LearnNew` the scan for
exact duplicates, one session per memory. A request that decides not to write
(duplicate, deleted, lost conflict, ineligible candidate) is a stuttering step.
`MemoryLifecycle` is the promise: each committed request is one of `Learn`, `Correct`,
`LearnAnew`, `EditByUser`, `Expire`, `DeleteByUser` on the latest revision. An edit may find that
its revision has expired meanwhile and then replaces the expired one, as the code does. The refinement
maps a memory to its latest revision (`Shown`).

### EventBus

One action per stretch of code between two suspension points of the event loop.
`running` are the handler tasks of the current event, `escapes` the BaseExceptions that left
one, `closer` the place where each call of `close()` is suspended; `unfinished` is the counter of
`asyncio.Queue` that `join()` waits for. A caller of `close()` may be cancelled wherever it
waits (`CancelCloser`); asyncio passes the cancellation of a task that awaits another
task on to that task, which is what makes `_stop_dispatcher` interesting. The done
callback of the dispatcher is an action of its own, as it is scheduled.

`EventQueue` is the same bus as a publisher sees it: an open queue of `Bound` places, deliveries in order, one
end. The end may drop what is pending only once there is an excuse; the refinement takes for one that a subscriber's
BaseException or a cancelled `close()` has occurred. The mapping hides the dispatcher, the handlers, the counter and
all callers of `close()`.

### AgentClient

One action per operation on shared state (the socket, the send gate, the concurrent
dictionary), as `ConfigureAwait(false)` puts continuations on pool threads. A
`foreach` over the dictionary is not a snapshot: `FailOne` and `CancelOne` may take any
entry, and the loop ends when the entries it started with are gone (`todo`,
`clearing`). A send that throws or is cancelled gives the gate back (`GateAfterFailure`), the `finally` that
the liveness of every other request rests on. Each `ConnectAsync` starts a loop, and a loop reads the socket that is current
when it checks its condition, as the code does. `DisconnectAsync` is used by the closing
window only, so `Connect` waits until it is over.

### AgentCore

One handler per connection (`turn`), which takes a frame, awaits all it does for it and
sends one reply. Every read of the retrieval, both provider calls and every candidate
are steps of their own, so turns and requests of different connections interleave there. Frames are of
six kinds, told apart by where they lead: a chat, a refused frame, a message with a field
of the wrong JSON type, a chat that cannot be learned from (`MemoryLearningInput` refuses its id or text, after
the provider has answered and outside of the resilient learner), and a `memory.*` request that deletes or that
does something else. `store`
keeps of each memory whether it is absent, ACTIVE or deleted; a governance
or learning request commits in one step, which is what ServicesConcurrent shows of the
layer below (and what ServicesResurrection excepts: a deletion that a turn in flight
reverses is not in this module). `arrived` and `sent` are whole histories, so that a reply can be
compared with its frame. `outcome`, a history variable, records how the operation of each capability that ended
last came out, in the action where it returns or raises; `health` is what `MarkAvailable` and `MarkDegraded` make of
it, and a report that is missing or wrong sets the two apart. The provider fails in two ways: `ProviderFails` with an
`LLMProviderError`, which is answered, and `ProviderRaises` with anything else (a malformed answer, say, makes the
reading of it raise), which neither `generate` nor `process_message` catches and which ends the handler (`Escaped`).
The wait of the server for its handlers, and the delivery
of frames that came before a connection was lost, are those of the `websockets` library.

### MemoryView

Everything in the view model runs on the UI thread, so an operation is two actions: the code
up to its await (`LoadAsync`, `SaveAsync`, ...) and the rest once the answer is there
(`OnList`, `OnEdit`, ...). Between them the user selects, types and closes the history. A request in
`operations` carries what the core has read so far; `ListReads` reads one memory after the other, each in a
session of its own, as `list_memories` does. The core side extends `MemoryLifecycle`: another actor's
commit is one of its steps (`Automatic`), so the deletion that ServicesResurrection reverses is not in
here. `OnFailure` is every way an operation ends without its answer, before or after the core has acted; a
write that was only sent may still be carried out (`late`). Memories have no order, a content is told from another
only by being there or not, and `text` keeps whose text the box holds and whether it is blank.
What the list box does to a selected item that is replaced (`ListBoxDrops`) is WPF's; it
matters because two-way binding calls the setter of `SelectedMemory` with null. `listed` and
`confirmed` are history variables.

### MemoryProtocol, MemoryRules, Characters and ProviderErrors

These have no variables: they are the pure functions between the steps of the other modules, and what they promise
each other is a formula that `MCMemoryRules` and `MCAgentCore` assume, so TLC evaluates it at the start of the
runs MemoryView and AgentCore, and that `MemoryRules_proofs` proves of the first two for any strings.
A string is a member of a set, of which it is given what the code asks: what `strip`, `casefold` and `len` make of
it, whether it has white space in it, whether .NET and Python find it blank.

`MemoryProtocol` follows a request from the desktop's builder to the core's parser, and an entry from the core's
serializer to the desktop's record. The two sides disagree about strings of U+001C to U+001F alone (blank to
Python, not to .NET: the desktop sends them and the core refuses), and the desktop reads revision numbers as 32-bit
integers; everything else the desktop lets through the core understands. Each library reads more spellings of a UUID than
the other. What only .NET reads does not matter because the desktop sends the canonical form. What only Python reads
(`urn:uuid:...`) the desktop refuses although the core would have taken it; `RefusalsCostNothing` says that no more is
lost by it than the spelling.

`MemoryRules` follows a fact: the extractor's output, all of it or none, becomes candidates, the policy compares
them with the turn they come from, the service builds a memory and its first revision, the retriever selects by scope and takes of each domain
no more than its limit, in the order of the store, retention by domain and age. Each stage has its own copy of the rule that relates domain and scope, and of what is
blank; the formulas say that the copies agree. In `Characters` a file is a function from keys to values,
and what it must not do is lose a misspelt key or one of two files with the same id. `ProviderErrors` keeps the order of the
`except` clauses and the class hierarchy they depend on.

### Migrations and Runtime

`schema` is the set of objects in the file, `version` the row of `alembic_version`, and `upgrade` the
migration and statement each process has reached. SQLite has no transactional DDL as Alembic and the
sqlite3 driver use it, so `Execute` commits one CREATE or ALTER and `Stamp` commits the version row after the
last. A statement whose object is there already is `Refused` (`already exists`, `duplicate column name`),
and so is a version row that is not the one expected; the upgrade then raises. `ReadHeads` is done once, before
the first statement: between it and the statements another process may do all or part of the same
migrations. `excused` and `cut` are history variables for the two properties that name a reason.

`Runtime` is `run()` line by line: every call that may raise has an action for it, and where the
exception leads (`off`, the outer or the inner `finally`). `interrupt` is asyncio's treatment of the first
Ctrl-C: the main task is cancelled, and as everything before `server.run()` is synchronous or does not
suspend, the cancellation is delivered at the bind of the port at the earliest (`BindRaises`), or in the serving
runtime, or in one of the two closes. `port` is held by one process at a time. What the
serving runtime does is `AgentCore`; what its bus does when it is closed is `EventBus`, here one step that
leaves it closed, also when it is cancelled. The engine of the memory database is not in the state: `run()`
never disposes of it (`create_memory_engine` says its caller does), which has no effect the model could show.

## 3. The runs

| Run | Shows | Bounds |
|---|---|---|
| RepositoryHistories | integrity, unbroken histories, latest is ACTIVE, a superseded revision has a successor, an identity key names one memory for good | 2 callers, 2 memories, 2 keys, 3 revisions, 4 row ids; a delete meets no other call on its memory |
| ServicesConcurrent | types; learning, editing, expiry and deletion implement the lifecycle; a tombstone stands alone; user edits outrank learning | 2 clients, 2 memories, 3 row ids, 2 contents, 2 times, 3 candidates; a delete meets no other call on its memory |
| ServicesResurrection (violation) | a turn in flight reverses a user's deletion | 2 clients, 1 memory |
| EventBusShutdown | accounting, the bus implements `EventQueue`, clean and graceful close, no dispatch cut short; `close()` ends, accepted events are dispatched | 2 handlers, 2 types, 3 events, capacity 2, 2 closers |
| EventBusCancellation (violation) | a cancelled `close()` may return normally | 1 handler |
| AgentClientSafety | exact bookkeeping of pending requests, own answers only, nobody waits for a closed connection's answer | 2 requests, 2 connections, 1 frame under way |
| AgentClientLiveness | a disconnect frees every pending request; nobody stays at the send gate | 2 requests, 1 connection |
| AgentClientHang (violation) | a receive failure can leave a request waiting for ever | 2 requests, 2 connections |
| AgentCore | replies follow frames, isolated failures, truthful deletions, current health, permitted prompts, provider outlives turns; every frame answered, shutdown ends; before it starts, the formulas of `ProviderErrors` | 2 connections, 2 frames, 4 memories, limit 1; every exception, statuses 100 to 599 |
| MemoryView | text, selection, list and history belong together; nothing goes back to an older version; confirmed deletions stay gone; empty means empty; before it starts, the formulas of `MemoryProtocol`, `MemoryRules` and `Characters` | 2 memories, 2 revisions, 1 content, 1 time, 1 write under way whose caller gave up; 9 strings, 2 ids in 6 spellings, 3 times, answers of up to 2 candidates, directories of up to 2 files |
| Runtime | services are composed on a complete schema only; a failed upgrade and a torn schema have a reason; what was made is given back; a start ends | 2 processes, all 3 migrations with their 8 statements |
| AgentCoreBadMessage (violation) | a message with a field of the wrong type, or a chat with a blank id, ends its connection | 1 frame |

Why the bounds suffice. A race in the repository needs one caller that has read and
another that commits, perhaps twice (edit, then delete), in between: two callers show it.
In RepositoryHistories and ServicesConcurrent no other call is in flight on a memory that is being deleted (the
constraint `DeletesAreAlone`; calls on other memories may be), because the history properties and the refinement
are false otherwise (disagreement 1); that integrity and unique keys survive those as well is proved. Three revisions
give a superseded, a current and a next one; one row id more than rows alive lets ids be
reused. Two memories are what one can do to another. A queue of two with three events
has a full, a draining and an empty state; two handlers give a sibling that is still
running when the other escapes; two closers give one that waits for the other. Two
requests give one that is failed while another registers; two connections give an
old loop beside a new one. Two frames in the agent core are two on one connection (their order) or one on
each (their interleaving); of two memories of one domain, a limit of one leaves one out; the third is
one that learning creates, the fourth of another character. In the memory tab a second memory is the one
selected meanwhile, and a second revision the one committed meanwhile; contents need no names there. Two processes are one that upgrades or serves
and one that is started beside it or after it, again and again; the statements of the migrations are all
there. What holds for every value of the constants is proved where
section 5 says so.

`CHECK_DEADLOCK FALSE` stands in the bus, client and core runs: a closed bus, a
client whose requests and connections are used up and a runtime that has ended do stop. Symmetry is used in runs
without liveness only.

### Fairness

`EventBus!Fairness`: the event loop runs ready tasks (`Dispatching`, `Resume`) and each handler comes
to an end. No one has to publish, close or cancel. `AgentClient!Fairness`: the thread pool
runs what is ready and a send ends; nothing is assumed of the core, the network or
the user. `AgentCore!Fairness`: the event loop runs every handler and `main.run`, and each read, write
and provider call ends (`generate` has a timeout around it). `RuntimeFairness`: `run()` is
sequential code that goes on, its two closes end (`CloseEnds`, `ShutdownEnds`); nobody has to start,
interrupt or kill a process, and a server that nobody interrupts serves for ever. The memory modules state no liveness: a call that fails or is abandoned is a normal
outcome there.

## 4. Disagreements found

1. **A deletion can be reversed.** `replace_active_revision` reads before its transaction and
   updates by row id. A learner that loaded the ACTIVE row, then an edit and a delete by
   the user (which frees the row id and gives it to the tombstone), then the learner's
   write: the tombstone becomes SUPERSEDED and the automatic revision ACTIVE.
   With other actors the row superseded is another memory's, and afterwards governance
   cannot list: a superseded row without content is rejected by the domain model.
   (`ServicesResurrection`; it takes two connections of the client, or one whose old handler still runs.)
2. **A cancelled `close()` may return normally**: `_stop_dispatcher` takes the caller's
   cancellation for the dispatcher's (`EventBusCancellation`).
3. **A request can hang after a receive failure**: the loop ends while the socket stays
   open, or leaves through its condition without failing anybody (`AgentClientHang`).
4. **A bad message can end its connection**: `from_json` checks no types, and what the
   processor raises is not caught. This includes a chat whose id is blank or whose id or text is no string:
   the provider is asked, and then the input of learning is refused (`AgentCoreBadMessage`). An exception of
   the provider that is no `LLMProviderError` takes the same way, which `FailuresAreIsolated` excepts by name.

Beside these, `Runtime` has a behaviour no document speaks about: an upgrade killed between two
statements leaves a file that every later start refuses (`Torn`; FailureHasReason and TornHasReason say
that nothing else does), so chat is out of order as well until somebody repairs the file by hand.

## 5. Proofs

TLAPS (SMT, Zenon and LS4 back-ends) checks these for every value of the constants that satisfies the named
assumptions. Each assumption is evaluated by TLC in the runs of its module:

- `RepositoryAssumption`, `BusAssumption`, `ViewAssumption`, `ClientAssumption`, `RuntimeAssumption`,
  `TimesAssumption`: bounds and times are naturals, "no such value" constants are not values.
- `ServicesAssumption`: a payload is a fact, and what learning brings is an automatic fact. `CoreAssumption`: every
  memory has a scope, a request names a memory, a store is one of memories.
- `ProtocolAssumption`, `ObjectAssumption`, `StringsAssumption`, `TimeAssumption`: what is taken from the two
  languages' libraries.

One hypothesis is not an assumption on a constant: `[]DeletesAreAlone`, in the theorems that say so. It is about
the schedule: no other call on the same memory is in flight while that memory is deleted. The code does not
enforce it, and without it the statements are false: disagreement 1 is the counterexample. Read the other way round,
the theorems say that a deletion which meets another write of the same memory is the only way to break what they
state. Callers that never delete satisfy the hypothesis, which `HistoriesHold` proves.

`MemoryRepository_proofs`
- `TypeCorrect`: `TypeOK`. Inductive on its own.
- `IntegrityHolds`, `UniqueKeysHold`: from an inductive invariant that adds to `Integrity`
  and `UniqueKeys` that a call in flight is about a memory that exists (unless it creates one), which needs
  that memories are never removed. Holds with deletes and any interleaving: the
  unique constraints, not the checks, carry it.
- `KeysStayHolds`: a key once given stays; from the same invariant, one step at a time.
- `HistoryUnbrokenHolds`, `ActiveIsLatestHolds`, `SupersededHasSuccessorHolds`, `TombstoneIsAloneHolds`, under
  `[]DeletesAreAlone`. Their invariant (`HistoryInv`) adds what a call still knows of what it has read
  (`CallsAreSound`): the number before the one it computed exists in a row that is not deleted. A number once taken
  stays taken until a delete, so an INSERT at the number one above a maximum seen earlier succeeds only if that is
  still the maximum; and a row id read earlier still names the same row, since only a delete frees row ids.
- `HistoriesHold`: where `"delete"` is not among the operations, the first three without the hypothesis.

`MemoryServices_proofs`
- `ServicesTypeCorrect`, and `ServicesUseRepository`: each request of governance, learning and retention enters the
  repository with arguments `Begin` allows, so a behaviour of the services is one of `MemoryRepository`, and what is
  proved there holds here (`ServicesKeepTombstones`).
- `UserEditsOutrankLearningHolds`, `RefinesLifecycleHolds`, under `[]DeletesAreAlone`. A request decides on a revision it has read and writes sessions later; the number it
  computed is all that links the two. The invariant (`ServicesInv`) says what remains true of the decision
  (`RequestsAreDecided`): the revision with the number before is still there, with the payload the decision was about
  (superseded perhaps, never changed), a replacement loads no older row than that one, and a delete, which is alone,
  still finds it the latest and ACTIVE. Every commit keeps this for the requests of the others, as it
  changes lifecycles and adds rows but no payload. With the histories this suffices: an INSERT that
  succeeds has a free number, a free number is the next one, so the revision it was decided on is the latest. Each
  commit is then one step of `MemoryLifecycle` on the latest revision, and every other step leaves all of them as they are.

`EventBus_proofs`
- `BusInvariant`, and from it `AccountingHolds`, `FifoHolds`, `ClosedIsCleanHolds`,
  `GracefulDrainHolds`, `DispatchIsNotCutHolds`. None of these is inductive alone. `Lockstep`
  adds how far dispatcher and bus can be apart; its core is that a dispatcher stopped by a `close()`
  nobody cancelled had nothing unfinished, which with the accounting shows that the queue was empty.
  Type correctness is part of the same induction, since `unfinished - 1` stays a natural
  number only because of the accounting.
- `ImplementsQueueHolds`: under that invariant every step of the bus is a step of `EventQueue` or
  leaves what it shows unchanged. The step that matters is the done callback, which drops the queue: a dispatcher
  that ended without an escape was stopped, and unless a caller was cancelled nothing was unfinished then.

`MemoryView_proofs`
- `ViewInvariant`, and from it `ViewTypeCorrect`, `OneOperationHolds`, `TextIsOfSelectedHolds` and
  `SelectionHolds` (`DisplayIsOfOneMemory`). The invariant adds that an answer is about the
  memory it was asked for and has a row for it, and that the list, the selection and the history
  are blank while a refresh is awaited: without that, what `OnList` adds could replace the entry behind
  a selection.
- `FreshInvariant`, and from it `ConfirmedDeletionsAreGoneHolds`, `EmptyIsTruthfulHolds` and `ShownNeverGoesBackHolds`.
  What is listed and what is under way was read at different times; the invariant puts all of it in order: nothing is newer than
  the core's latest revision, an answer to an inspection or an edit is not older than the entry it will replace
  (because only one operation is awaited, and the list was read before it was asked), and a list that was read to
  its end says DELETED of a memory whose deletion is confirmed. It rests on one fact about `MemoryLifecycle`: each
  step moves a memory forward and none leaves a deletion. The bound of the run on writes given up (`OneLateWrite`) is not needed.

`AgentClient_proofs`
- `TypeCorrect`, which is proved only: no run checks `TypeOK` of `AgentClient`.
- `PendingIsExactHolds`: the invariant extends it to calls that are not waiting yet, which a disconnect may complete
  before they are sent.
- `AnswersAreOwnHolds`: adds that a frame in the inbox under a request's id is the core's answer to it, which
  survives `Connect` since a new socket starts empty.
- `DisconnectLeavesNoneHolds`: the dictionary is cancelled twice. From the closing of the connection to the next
  `ConnectAsync` nothing is sent (`ShutOff`), so whoever waits when the second pass begins is in it, and nobody
  joins. The first pass alone would not do.

`AgentCore_proofs`
- `CoreInvariant`, and from it `CoreTypeCorrect`, `RepliesFollowFramesHolds`, `FailuresAreIsolatedHolds`,
  `GovernanceIsTruthfulHolds`, `HealthIsCurrentHolds`, `PromptIsPermittedHolds`, `ProviderOutlivesTurnsHolds`, for any number
  of connections, memories and frames. The invariant follows a frame through its handler: all frames before it are
  answered and none after it is taken, the step the handler is at is one for its kind, what has been read of
  the store is permitted and within the limit at every step (not only when the prompt is made), and a
  confirmation that is not sent yet is already true. The type invariant needs it, as a reply is only one
  because of the frame it answers. That no turn is left when the bus and the provider are closed needs that no
  connection is accepted after the server began to stop.

`Runtime_proofs`
- `RuntimeInvariant`, and from it `RuntimeTypeCorrect`, `ComposedOnCompleteSchemaHolds`, `FailureHasReasonHolds`,
  `TornHasReasonHolds` and `ReleasesWhatItMadeHolds`, for any number of processes. The schema is always a
  prefix of the three scripts laid end to end: the migrations below the version are whole, those above
  the next one are untouched, and what there is of the next one is an initial piece, so a process that
  stands at a statement finds everything before it present. A process that no other one met, on a file
  that was not torn when it began, stands exactly at the end of that piece; from this follows that its
  statements are not refused. That a database once complete stays complete gives the first property.

`MemoryRules_proofs`
- `RequestsAreUnderstoodHolds`, `RefusalsCostNothingHolds`, `AnswersAreReadHolds`, `AnswersAreExpectedHolds` (of
  `MemoryProtocol`): by cases on what a payload contains, from what the two libraries have in common (both read the
  canonical form of a UUID, .NET's blank strings are among Python's). An id in a spelling that only Python reads is
  refused by the desktop alone; the theorem gives the spelling that serves in its place.
- `KeysAreFixedHolds`: stripping, folding and the checks after them leave a normal form alone.
- `ExtractedIsEligibleHolds`, `EligibleIsStoredHolds`, `LearnedIsRetrievedHolds`, `KeptForADayHolds`: each stage accepts what
  the one before it makes, for any candidates, not only those of this extractor where the policy stands between.
  `LearnedIsRetrievedHolds` is for any stores and any limits: a learned memory is in the prompt of whom it concerns as long
  as the ACTIVE memories of its domain and scope are no more than the limit of the domain (they all come before it at
  worst, which is a count of positions), and never in that of another character.

Model-checked only:
- liveness under fairness, which is beyond the prover with everything about ENABLED: `DisconnectFrees`, `GateComesBack`,
  `FramesAreAnswered`, `ShutdownEnds` and what the runs EventBusShutdown and Runtime say of ends;
- `Characters` and `ProviderErrors`: finite tables, which TLC evaluates in full, and a loader's result over
  directories of up to two files.

## 6. Not modelled, and the plan

In this order:

1. `RetentionSweep`: the sweep with its abort on the first stale memory, over `MemoryServices`; nothing in the
   repository calls it yet, so nothing can be said of when it runs.
2. `Characters`: the formula about the loader, for directories of any size.
3. A weaker hypothesis than `DeletesAreAlone`: of the writes that meet a deletion, only those that have loaded
   a row or a maximum before it matter.

Left out for good: the wording and layout of prompts and of extraction requests, the syntax of JSON and TOML,
settings, the clock, logging and the provider's HTTP exchange, which are formatting or I/O without
state of their own; the downgrades of the migrations (run by hand); the list of chat lines in
`MainWindowViewModel`, the layout and styles of the WPF views.
