------------------------------ MODULE AgentCore ------------------------------
(***************************************************************************)
(* The agent core at run time: WebSocketServer with one handler task per   *)
(* connection, RuntimeMessageRouter, Agent.process_message with its        *)
(* resilient retriever and learner, MemoryProtocolHandler over the         *)
(* health-aware governance, MemoryHealthTracker, and the start-up and      *)
(* clean-up of main.run.                                                   *)
(*                                                                         *)
(* A handler takes one frame at a time and awaits everything it does for   *)
(* it, so that handlers of different connections interleave at every read, *)
(* provider call and commit.  The memory store is seen one committed       *)
(* request at a time: how a request gets there is MemoryServices.          *)
(***************************************************************************)
EXTENDS Naturals, Sequences, FiniteSets, Functions

CONSTANTS
    Connections,
    Memories,
    Scope,          \* of each memory: GLOBAL_USER, the active character's, another's
    Limit,          \* how many memories of a domain a prompt may hold
    Requests,       \* the memory.* requests clients may send
    Databases,      \* what the database may hold when the process starts
    MaxFrames       \* bound: frames the clients send, in all

Scopes == {"global", "own", "foreign"}

ASSUME CoreAssumption ==
    /\ Scope \in [Memories -> Scopes]
    /\ Requests \subseteq [kind : {"delete", "use"}, memory : Memories]
    /\ Databases \subseteq [Memories -> {"absent", "active", "deleted"}]
    /\ Limit \in Nat /\ MaxFrames \in Nat

VARIABLES
    runtime,        \* how far main.run has come
    socket,         \* the connections: open, or lost by the client or by the shutdown
    arrived,        \* the frames each client has sent, in order
    taken,          \* how many of them the handler has received
    turn,           \* what each handler is doing
    sent,           \* the replies each client was sent
    store,          \* the latest revision of each memory
    health,         \* MemoryHealthTracker
    outcome         \* how the operation of each capability that ended last came out (history)

vars == <<runtime, socket, arrived, taken, turn, sent, store, health, outcome>>

Capability == {"RETRIEVAL", "AUTOMATIC_LEARNING", "GOVERNANCE"}

\* "chat", a frame that is refused ("bad": binary, no JSON, a field missing, an unknown
\* type or an invalid request), a message with a field of the wrong JSON type
\* ("untyped"), a chat with a blank id, or an id or a text that is no string
\* ("unlearnable"), and memory.* requests that delete a memory or use it otherwise.
Frame == [kind : {"chat", "bad", "untyped", "unlearnable"}] \cup Requests

ReplyKind == {"response", "provider_error", "result", "memory_error", "error"}

Turn == [step : {"none", "idle", "list", "list_own", "read", "generate", "extract", "learn",
                 "govern", "reply", "ended"},
         todo : SUBSET Memories, context : SUBSET Memories,
         reply : ReplyKind \cup {"none", "escaped"}]

At(step) == [step |-> step, todo |-> {}, context |-> {}, reply |-> "none"]
Replying(reply) == [At("reply") EXCEPT !.reply = reply]

\* The end of a handler by an exception of the provider that nobody catches
Escaped == [At("ended") EXCEPT !.reply = "escaped"]

TypeOK ==
    /\ runtime \in {"starting", "serving", "closing_server", "closing_bus",
                    "closing_provider", "ended"}
    /\ socket \in [Connections -> {"none", "open", "lost"}]
    /\ arrived \in [Connections -> Seq(Frame)]
    /\ taken \in [Connections -> Nat]
    /\ turn \in [Connections -> Turn]
    /\ sent \in [Connections -> Seq(ReplyKind)]
    /\ store \in [Memories -> {"absent", "active", "deleted"}]
    /\ health \in [Capability -> {"AVAILABLE", "DEGRADED"}]
    /\ outcome \in [Capability -> {"none", "worked", "failed"}]

Init ==
    /\ runtime = "starting"
    /\ socket = [c \in Connections |-> "none"]
    /\ arrived = [c \in Connections |-> <<>>]
    /\ taken = [c \in Connections |-> 0]
    /\ turn = [c \in Connections |-> At("none")]
    /\ sent = [c \in Connections |-> <<>>]
    /\ store \in Databases
    /\ health = [k \in Capability |-> "AVAILABLE"]
    /\ outcome = [k \in Capability |-> "none"]

Becomes(c, new) == turn' = [turn EXCEPT ![c] = new]

\* What the code tells of an operation: the resilient retriever and learner and the
\* health-aware governance call these where theirs returns or raises.
MarkAvailableBug(capability) == health' = health
MarkAvailable(capability) == health' = [health EXCEPT ![capability] = "AVAILABLE"]

MarkUnavailableBug(capability) == health' = [health EXCEPT ![capability] = "UNAVAILABLE"]
MarkDegraded(capability) == health' = [health EXCEPT ![capability] = "DEGRADED"]

\* What became of it, whoever tells or does not tell
Worked(capability) == outcome' = [outcome EXCEPT ![capability] = "worked"]
Failed(capability) == outcome' = [outcome EXCEPT ![capability] = "failed"]

-----------------------------------------------------------------------------
(* The clients and the network.                                            *)

Outside == <<runtime, taken, turn, sent, store, health, outcome>>

\* The number of frames sent by all clients
AllFrames == FoldFunction(LAMBDA s, n : Len(s) + n, 0, arrived)

Arrive(c, f) ==
    /\ socket[c] = "open" /\ turn[c].step # "ended" /\ AllFrames < MaxFrames
    /\ arrived' = [arrived EXCEPT ![c] = Append(@, f)]
    /\ UNCHANGED <<socket, Outside>>

ClientGone(c) ==
    /\ socket[c] = "open" /\ turn[c].step # "ended"
    /\ socket' = [socket EXCEPT ![c] = "lost"]
    /\ UNCHANGED <<arrived, Outside>>

-----------------------------------------------------------------------------
(* WebSocketServer.handle_connection and the router.                       *)

Accept(c) ==
    /\ runtime = "serving" /\ socket[c] = "none"
    /\ socket' = [socket EXCEPT ![c] = "open"]
    /\ Becomes(c, At("idle"))
    /\ UNCHANGED <<runtime, arrived, taken, sent, store, health, outcome>>

\* Where a frame leads; a field of the wrong type raises out of the router or of the
\* processor, and with that out of handle_connection, which closes the connection.
RouteBug(f) ==
    CASE f.kind = "bad" -> At("idle")
      [] f.kind = "untyped" -> At("ended")
      [] f.kind \in {"chat", "unlearnable"} -> At("list")
      [] OTHER -> At("govern")
Route(f) ==
    CASE f.kind = "bad" -> Replying("error")
      [] f.kind = "untyped" -> At("ended")
      [] f.kind \in {"chat", "unlearnable"} -> At("list")
      [] OTHER -> At("govern")

\* the next raw_message: what arrived before the connection was lost is still delivered
TakeFrame(c) ==
    /\ turn[c].step = "idle" /\ taken[c] < Len(arrived[c])
    /\ taken' = [taken EXCEPT ![c] = @ + 1]
    /\ Becomes(c, Route(arrived[c][taken[c] + 1]))
    /\ UNCHANGED <<runtime, socket, arrived, sent, store, health, outcome>>

NoMoreFrames(c) ==
    /\ turn[c].step = "idle" /\ taken[c] = Len(arrived[c]) /\ socket[c] = "lost"
    /\ Becomes(c, At("ended"))
    /\ UNCHANGED <<runtime, socket, arrived, taken, sent, store, health, outcome>>

\* websocket.send raises once the connection is gone
AfterFailedSendBug(t) == t
AfterFailedSend(t) == At("ended")

Reply(c) ==
    /\ turn[c].step = "reply"
    /\ IF socket[c] = "open"
       THEN sent' = [sent EXCEPT ![c] = Append(@, turn[c].reply)] /\ Becomes(c, At("idle"))
       ELSE sent' = sent /\ Becomes(c, AfterFailedSend(turn[c]))
    /\ UNCHANGED <<runtime, socket, arrived, taken, store, health, outcome>>

-----------------------------------------------------------------------------
(* A chat turn: ResilientMemoryRetriever over MemoryRetrievalService, ...  *)

InTurn == <<runtime, socket, arrived, taken, sent>>

\* the frame the handler is at
Request(c) == arrived[c][taken[c]]

Stored(scope) == {m \in Memories : Scope[m] = scope /\ store[m] # "absent"}

ListGlobal(c) ==
    /\ turn[c].step = "list"
    /\ Becomes(c, [At("list_own") EXCEPT !.todo = Stored("global")])
    /\ UNCHANGED <<InTurn, store, health, outcome>>

ListOwn(c) ==
    /\ turn[c].step = "list_own"
    /\ Becomes(c, [At("read") EXCEPT !.todo = turn[c].todo \cup Stored("own")])
    /\ UNCHANGED <<InTurn, store, health, outcome>>

HasRoomBug(context, m) == Cardinality({n \in context : Scope[n] = Scope[m]}) <= Limit
HasRoom(context, m) == Cardinality({n \in context : Scope[n] = Scope[m]}) < Limit

ReadMemory(c) ==
    \E m \in turn[c].todo :
        LET context == turn[c].context IN
        /\ turn[c].step = "read"
        /\ Becomes(c, [turn[c] EXCEPT
               !.todo = @ \ {m},
               !.context = IF store[m] = "active" /\ HasRoom(context, m)
                           THEN context \cup {m} ELSE context])
        /\ UNCHANGED <<InTurn, store, health, outcome>>

Retrieved(c) ==
    /\ turn[c].step = "read" /\ turn[c].todo = {}
    /\ Becomes(c, [turn[c] EXCEPT !.step = "generate"])
    /\ MarkAvailable("RETRIEVAL") /\ Worked("RETRIEVAL")
    /\ UNCHANGED <<InTurn, store>>

\* any exception of a read: the turn goes on with an empty context
RetrievalFails(c) ==
    /\ turn[c].step \in {"list", "list_own", "read"}
    /\ Becomes(c, At("generate"))
    /\ MarkDegraded("RETRIEVAL") /\ Failed("RETRIEVAL")
    /\ UNCHANGED <<InTurn, store>>

-----------------------------------------------------------------------------
(* ... the provider, which answers or raises within its timeout, ...       *)

\* MemoryLearningInput refuses such a chat outside of the resilient learner: the answer
\* of the provider is lost and the connection ends.
Learnable(f) == IF f.kind = "unlearnable" THEN At("ended") ELSE At("extract")

\* Without a learner, or with a blank message, nothing is learned.
ProviderAnswers(c) ==
    /\ turn[c].step = "generate"
    /\ Becomes(c, Learnable(Request(c))) \/ Becomes(c, Replying("response"))
    /\ UNCHANGED <<InTurn, store, health, outcome>>

\* an LLMProviderError, which has its code and its message
ProviderFails(c) ==
    /\ turn[c].step = "generate"
    /\ Becomes(c, Replying("provider_error"))
    /\ UNCHANGED <<InTurn, store, health, outcome>>

\* Any other exception, of the reading of a malformed answer for example, passes both
\* generate and process_message and leaves handle_connection.
ProviderRaises(c) ==
    /\ turn[c].step = "generate"
    /\ Becomes(c, Escaped)
    /\ UNCHANGED <<InTurn, store, health, outcome>>

-----------------------------------------------------------------------------
(* ... and ResilientMemoryTurnLearner over AutomaticMemoryTurnLearner.     *)

\* The extractor's own provider call.  Candidates have the scopes of the active character.
Extracted(c) ==
    \E candidates \in SUBSET {m \in Memories : Scope[m] # "foreign"} :
        /\ turn[c].step = "extract"
        /\ Becomes(c, [At("learn") EXCEPT !.todo = candidates])
        /\ UNCHANGED <<InTurn, store, health, outcome>>

\* A new fact becomes ACTIVE; an ACTIVE one is corrected or kept; a deleted one stays.
LearnCandidate(c) ==
    \E m \in turn[c].todo :
        /\ turn[c].step = "learn"
        /\ store' = [store EXCEPT ![m] = IF @ = "absent" THEN "active" ELSE @]
        /\ Becomes(c, [turn[c] EXCEPT !.todo = @ \ {m}])
        /\ UNCHANGED <<InTurn, health, outcome>>

Learned(c) ==
    /\ turn[c].step = "learn" /\ turn[c].todo = {}
    /\ Becomes(c, Replying("response"))
    /\ MarkAvailable("AUTOMATIC_LEARNING") /\ Worked("AUTOMATIC_LEARNING")
    /\ UNCHANGED <<InTurn, store>>

\* The first exception skips the candidates that are left.
AfterFailedLearningBug == At("ended")
AfterFailedLearning == Replying("response")

LearningFails(c) ==
    /\ turn[c].step \in {"extract", "learn"}
    /\ Becomes(c, AfterFailedLearning)
    /\ MarkDegraded("AUTOMATIC_LEARNING") /\ Failed("AUTOMATIC_LEARNING")
    /\ UNCHANGED <<InTurn, store>>
-----------------------------------------------------------------------------
(* memory.* requests: MemoryProtocolHandler over the health-aware          *)
(* governance.                                                             *)

\* Listing never fails on a memory; inspection and history show deleted memories too.
GovernanceDone(c) ==
    LET m == Request(c).memory IN
    /\ turn[c].step = "govern"
    /\ Request(c).kind = "delete" => store[m] = "active"
    /\ store' = IF Request(c).kind = "delete" THEN [store EXCEPT ![m] = "deleted"] ELSE store
    /\ Becomes(c, Replying("result"))
    /\ MarkAvailable("GOVERNANCE") /\ Worked("GOVERNANCE")
    /\ UNCHANGED InTurn

\* not found, deleted, not ACTIVE: an answer of a healthy governance, but not marked
GovernanceRefuses(c) ==
    /\ turn[c].step = "govern" /\ store[Request(c).memory] # "active"
    /\ Becomes(c, Replying("memory_error"))
    /\ UNCHANGED <<InTurn, store, health, outcome>>

\* any other exception of a read or of the write, which is rolled back
AfterFailedGovernanceBug == Replying("result")
AfterFailedGovernance == Replying("memory_error")

GovernanceFails(c) ==
    /\ turn[c].step = "govern"
    /\ Becomes(c, AfterFailedGovernance)
    /\ MarkDegraded("GOVERNANCE") /\ Failed("GOVERNANCE")
    /\ UNCHANGED <<InTurn, store>>

-----------------------------------------------------------------------------
(* main.run: the event bus, the server, and what its finally clauses close *)
(* when the task is cancelled or a step of it raises.                      *)

Handlers == <<arrived, taken, turn, sent, store, health, outcome>>

Serve ==
    /\ runtime = "starting"
    /\ runtime' = "serving"
    /\ UNCHANGED <<socket, Handlers>>

\* the bus or the listening socket cannot be started
StartFails ==
    /\ runtime = "starting"
    /\ runtime' = "closing_bus"
    /\ UNCHANGED <<socket, Handlers>>

\* leaving serve(): no more connections, and the open ones are closed (code 1001)
Stop ==
    /\ runtime = "serving"
    /\ runtime' = "closing_server"
    /\ socket' = [c \in Connections |-> IF socket[c] = "open" THEN "lost" ELSE socket[c]]
    /\ UNCHANGED Handlers

\* ... and it waits for the handlers, which are not cancelled
HandlersDoneBug == TRUE
HandlersDone == \A c \in Connections : turn[c].step \in {"none", "ended"}

ServerClosed ==
    /\ runtime = "closing_server" /\ HandlersDone
    /\ runtime' = "closing_bus"
    /\ UNCHANGED <<socket, Handlers>>

CloseBus ==
    /\ runtime = "closing_bus"
    /\ runtime' = "closing_provider"
    /\ UNCHANGED <<socket, Handlers>>

CloseProvider ==
    /\ runtime = "closing_provider"
    /\ runtime' = "ended"
    /\ UNCHANGED <<socket, Handlers>>

-----------------------------------------------------------------------------

HandlerStep(c) ==
    \/ TakeFrame(c)
    \/ NoMoreFrames(c)
    \/ Reply(c)
    \/ ListGlobal(c)
    \/ ListOwn(c)
    \/ ReadMemory(c)
    \/ Retrieved(c)
    \/ RetrievalFails(c)
    \/ ProviderAnswers(c)
    \/ ProviderFails(c)
    \/ ProviderRaises(c)
    \/ Extracted(c)
    \/ LearnCandidate(c)
    \/ Learned(c)
    \/ LearningFails(c)
    \/ GovernanceDone(c)
    \/ GovernanceRefuses(c)
    \/ GovernanceFails(c)

Closing == ServerClosed \/ CloseBus \/ CloseProvider

Next ==
    \/ \E c \in Connections : \/ \E f \in Frame : Arrive(c, f)
                              \/ ClientGone(c)
                              \/ Accept(c)
                              \/ HandlerStep(c)
    \/ Serve
    \/ StartFails
    \/ Stop
    \/ Closing

Spec == Init /\ [][Next]_vars

(***************************************************************************)
(* Fairness: the event loop runs every handler and main.run, and every     *)
(* read, write and provider call ends (the provider's has a timeout).  The *)
(* clients need not send or stay, and nobody has to stop the server.       *)
(***************************************************************************)
Fairness ==
    /\ \A c \in Connections : WF_vars(HandlerStep(c))
    /\ WF_vars(Closing)

FairSpec == Spec /\ Fairness

-----------------------------------------------------------------------------
(* Properties.                                                             *)

\* What each frame may be answered with
Answers(f) ==
    CASE f.kind = "bad" -> {"error"}
      [] f.kind \in {"chat", "unlearnable"} -> {"response", "provider_error"}
      [] f.kind = "untyped" -> {}
      [] OTHER -> {"result", "memory_error"}

\* The replies on a connection answer its frames one by one and in order, each with
\* a reply of its kind: none is skipped, doubled or given to another request.
RepliesFollowFrames ==
    \A c \in Connections :
        /\ Len(sent[c]) <= taken[c]
        /\ \A i \in 1..Len(sent[c]) : sent[c][i] \in Answers(arrived[c][i])
        /\ turn[c].step = "idle" => Len(sent[c]) = taken[c]

\* No failure of memory or learning, and no error of the provider, ends a connection:
\* while its client stays and the server runs, only a message that raises out of its
\* processor itself does, or a chat whose provider raises what is no LLMProviderError.
FailuresAreIsolated ==
    \A c \in Connections : turn[c].step = "ended" /\ socket[c] = "open"
        => \/ Request(c).kind \in {"untyped", "unlearnable"}
           \/ Request(c).kind = "chat" /\ turn[c] = Escaped

\* A deletion that was confirmed has been committed, whatever failed on the way.
GovernanceIsTruthful ==
    \A c \in Connections : \A i \in 1..Len(sent[c]) :
        arrived[c][i].kind = "delete" /\ sent[c][i] = "result"
            => store[arrived[c][i].memory] = "deleted"

\* What is reported of a capability is how its operation that ended last really came
\* out, on whichever connection: a failure is never missed, nor kept after a success,
\* and a refusal, which says nothing about the capability, changes nothing.
HealthIsCurrent ==
    \A k \in Capability :
        health[k] = IF outcome[k] = "failed" THEN "DEGRADED" ELSE "AVAILABLE"

\* The prompt holds memories of the permitted scopes only, and no more than its
\* limits, although two listings and many reads make it up.
PromptIsPermitted ==
    \A c \in Connections : turn[c].step = "generate" =>
        /\ \A m \in turn[c].context : Scope[m] # "foreign"
        /\ \A s \in Scopes : Cardinality({m \in turn[c].context : Scope[m] = s}) <= Limit

\* The provider is closed when no turn can still call it.
ProviderOutlivesTurns ==
    runtime \in {"closing_provider", "ended"}
        => \A c \in Connections : turn[c].step \notin {"generate", "extract"}

\* A frame that was received is answered, or its connection comes to an end.
FramesAreAnswered ==
    \A c \in Connections : \A n \in 1..MaxFrames :
        Len(arrived[c]) >= n ~> Len(sent[c]) >= n \/ turn[c].step = "ended"

\* A shutdown comes to its end, however many turns are under way.
ShutdownEnds == runtime = "closing_server" ~> runtime = "ended"

\* Whatever a client sends is answered: no message ends the connection.
MessagesEndNoConnection ==
    \A c \in Connections : turn[c].step = "ended" => socket[c] # "open"
=============================================================================
