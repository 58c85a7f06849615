------------------------------ MODULE EventBus ------------------------------
(***************************************************************************)
(* The in-process event bus (agent_core/events/bus.py): a bounded queue,   *)
(* one dispatcher task that runs the subscribers of one event at a time,   *)
(* and close(), called by any number of tasks, each of which may be        *)
(* cancelled while it waits.                                               *)
(*                                                                         *)
(* asyncio runs one task at a time, so an action is the code between two   *)
(* suspension points, or the callback of a future.  A task that has been   *)
(* woken but has not run yet appears here as an enabled action.            *)
(***************************************************************************)
EXTENDS Integers, Sequences, FiniteSets

CONSTANTS
    Handlers,       \* the subscribers
    Types,          \* the event types
    TypeOf,         \* the type of each event
    MaxEvents,      \* bound: how many events are published, 1, 2, ... in that order
    Capacity,       \* queue_capacity
    Closers         \* tasks that may call close()

Events == 1..MaxEvents

ASSUME BusAssumption ==
    /\ Capacity \in Nat \ {0}
    /\ MaxEvents \in Nat
    /\ TypeOf \in [Events -> Types]

VARIABLES
    state,          \* _state
    subscriptions,  \* _subscriptions: the handlers of each event type
    queue,          \* the items of _queue
    unfinished,     \* its count of items not yet matched by task_done()
    dispatcher,     \* the dispatcher task
    running,        \* the handler tasks of the current event that are not done
    escapes,        \* the BaseExceptions that reached the current dispatch
    stopping,       \* dispatcher_task.cancel() has been called
    death,          \* how the dispatcher task ended
    closer,         \* where each call of close() is
    cancelled,      \* history: the callers whose close() was cancelled from outside
    accepted,       \* history: the events admitted, in order
    started         \* history: the events whose dispatch began, in order

vars == <<state, subscriptions, queue, unfinished, dispatcher, running, escapes,
          stopping, death, closer, cancelled, accepted, started>>

States == {"NEW", "RUNNING", "CLOSING", "CLOSED"}
Dispatcher == {"none", "waiting", "dispatching", "done", "reaped"}
Waits == {"join", "stop", "force", "wait_closed"}
Ends == {"returned", "raised", "cancelled"}
Deaths == {"cancelled", "base_exception"}

TypeOK ==
    /\ state \in States
    /\ subscriptions \in [Types -> SUBSET Handlers]
    /\ queue \in Seq(Events)
    /\ unfinished \in Nat
    /\ dispatcher \in Dispatcher
    /\ running \in SUBSET Handlers
    /\ escapes \in SUBSET Deaths
    /\ stopping \in BOOLEAN
    /\ death \in Deaths \cup {"none"}
    /\ closer \in [Closers -> {"idle"} \cup Waits \cup Ends]
    /\ cancelled \in SUBSET Closers
    /\ accepted \in Seq(Events)
    /\ started \in Seq(Events)

Init ==
    /\ state = "NEW"
    /\ subscriptions = [t \in Types |-> {}]
    /\ queue = <<>>
    /\ unfinished = 0
    /\ dispatcher = "none"
    /\ running = {}
    /\ escapes = {}
    /\ stopping = FALSE
    /\ death = "none"
    /\ closer = [c \in Closers |-> "idle"]
    /\ cancelled = {}
    /\ accepted = <<>>
    /\ started = <<>>

history == <<accepted, started>>
dispatch == <<dispatcher, running, escapes, death>>

-----------------------------------------------------------------------------
(* subscribe, start, publish.  In a wrong state they raise and change      *)
(* nothing.                                                                *)

Subscribe(h, t) ==
    /\ state = "NEW"
    /\ subscriptions' = [subscriptions EXCEPT ![t] = @ \cup {h}]
    /\ UNCHANGED <<state, queue, unfinished, dispatch, stopping, closer, cancelled, history>>

Start ==
    /\ state = "NEW"
    /\ state' = "RUNNING"
    /\ dispatcher' = "waiting"
    /\ UNCHANGED <<subscriptions, queue, unfinished, running, escapes, stopping, death,
                   closer, cancelled, history>>

MayPublishBug == state # "NEW"
MayPublish == state = "RUNNING"

HasRoomBug == Len(queue) <= Capacity
HasRoom == Len(queue) < Capacity

\* put_nowait; a full queue raises EventBusFullError
Publish(e) ==
    /\ MayPublish
    /\ HasRoom
    /\ Len(accepted) = e - 1
    /\ queue' = Append(queue, e)
    /\ unfinished' = unfinished + 1
    /\ accepted' = Append(accepted, e)
    /\ UNCHANGED <<state, subscriptions, dispatch, stopping, closer, cancelled, started>>

-----------------------------------------------------------------------------
(* The dispatcher task.                                                    *)

\* queue.get() returns and one task per subscriber is created; without any, the
\* dispatch is over at once, with its task_done
Get ==
    /\ dispatcher = "waiting"
    /\ ~stopping
    /\ queue # <<>>
    /\ LET handlers == subscriptions[TypeOf[Head(queue)]] IN
          /\ running' = handlers
          /\ IF handlers = {}
             THEN unfinished' = unfinished - 1 /\ UNCHANGED dispatcher
             ELSE dispatcher' = "dispatching" /\ UNCHANGED unfinished
    /\ queue' = Tail(queue)
    /\ started' = Append(started, Head(queue))
    /\ UNCHANGED <<state, subscriptions, escapes, stopping, death, closer, cancelled, accepted>>

\* a handler returns, or raises an Exception that _run_handler logs
HandlerEnds(h) ==
    /\ h \in running
    /\ running' = running \ {h}
    /\ UNCHANGED <<state, subscriptions, queue, unfinished, dispatcher, escapes, stopping,
                   death, closer, cancelled, history>>

\* a handler raises CancelledError or another BaseException
HandlerEscapes(h, kind) ==
    /\ h \in running
    /\ running' = running \ {h}
    /\ escapes' = escapes \cup {kind}
    /\ UNCHANGED <<state, subscriptions, queue, unfinished, dispatcher, stopping, death,
                   closer, cancelled, history>>

\* all handlers have settled: task_done, and the loop goes on
Settle ==
    /\ dispatcher = "dispatching"
    /\ running = {}
    /\ escapes = {}
    /\ ~stopping
    /\ dispatcher' = "waiting"
    /\ unfinished' = unfinished - 1
    /\ UNCHANGED <<state, subscriptions, queue, running, escapes, stopping, death, closer,
                   cancelled, history>>

\* A BaseException of a handler, or the cancellation of the dispatcher, reaches
\* the dispatch: the siblings are cancelled and awaited, the finally clause calls
\* task_done, and the exception ends the loop.
TaskDoneOnDeathBug == unfinished
TaskDoneOnDeath == unfinished - 1

SiblingsSettledBug == TRUE
SiblingsSettled == running = {}

Die ==
    /\ dispatcher = "dispatching"
    /\ SiblingsSettled
    /\ escapes # {} \/ stopping
    /\ dispatcher' = "done"
    /\ death' \in escapes \cup (IF stopping THEN {"cancelled"} ELSE {})
    /\ unfinished' = TaskDoneOnDeath
    /\ UNCHANGED <<state, subscriptions, queue, running, escapes, stopping, closer,
                   cancelled, history>>

\* cancelled while it waits in queue.get()
StopWaiting ==
    /\ dispatcher = "waiting"
    /\ stopping
    /\ dispatcher' = "done"
    /\ death' = "cancelled"
    /\ UNCHANGED <<state, subscriptions, queue, unfinished, running, escapes, stopping,
                   closer, cancelled, history>>

\* get_nowait and task_done until the queue is empty
Discard ==
    /\ queue' = <<>>
    /\ unfinished' = unfinished - Len(queue)

\* the done callback: an end nobody asked for is terminal for the bus
TerminalStatesBug == {"RUNNING"}
ClosingOnlyBug == {"CLOSING"}
TerminalStates == {"RUNNING", "CLOSING"}

OnDispatcherDone ==
    /\ dispatcher = "done"
    /\ dispatcher' = "reaped"
    /\ IF state \in TerminalStates
       THEN state' = "CLOSED" /\ Discard
       ELSE UNCHANGED <<state, queue, unfinished>>
    /\ UNCHANGED <<subscriptions, running, escapes, stopping, death, closer, cancelled,
                   history>>

-----------------------------------------------------------------------------
(* close().                                                                *)

Goes(c, where) == closer' = [closer EXCEPT ![c] = where]

\* the dispatcher's exception, awaited by _stop_dispatcher: CancelledError and
\* Exception are swallowed there, another BaseException is not
Outcome == IF death = "base_exception" THEN "raised" ELSE "returned"

Close(c) ==
    /\ closer[c] = "idle"
    /\ \/ state = "CLOSED" /\ Goes(c, "returned") /\ UNCHANGED state
       \/ state = "NEW" /\ Goes(c, "returned") /\ state' = "CLOSED"
       \/ state = "CLOSING" /\ Goes(c, "wait_closed") /\ UNCHANGED state
       \/ state = "RUNNING" /\ Goes(c, "join") /\ state' = "CLOSING"
    /\ UNCHANGED <<subscriptions, queue, unfinished, dispatch, stopping, cancelled, history>>

DispatcherEnded == dispatcher \in {"done", "reaped"}

JoinedBug == queue = <<>>
Joined == unfinished = 0

\* queue.join() returns; then _stop_dispatcher, which does not suspend when the
\* dispatcher has ended already
Join(c) ==
    /\ closer[c] = "join"
    /\ Joined
    /\ IF DispatcherEnded
       THEN Goes(c, Outcome) /\ state' = "CLOSED" /\ UNCHANGED stopping
       ELSE Goes(c, "stop") /\ stopping' = TRUE /\ UNCHANGED state
    /\ UNCHANGED <<subscriptions, queue, unfinished, dispatch, cancelled, history>>

\* the dispatcher has ended (its callback ran first); finally: _mark_closed
Stopped(c) ==
    /\ closer[c] = "stop"
    /\ dispatcher = "reaped"
    /\ Goes(c, Outcome)
    /\ state' = "CLOSED"
    /\ UNCHANGED <<subscriptions, queue, unfinished, dispatch, stopping, cancelled, history>>

\* _force_terminal_cleanup after its _stop_dispatcher
ForceOutcome == IF death = "base_exception" THEN "raised" ELSE "cancelled"

Forced(c) ==
    /\ closer[c] = "force"
    /\ dispatcher = "reaped"
    /\ Goes(c, ForceOutcome)
    /\ state' = "CLOSED"
    /\ Discard
    /\ UNCHANGED <<subscriptions, dispatch, stopping, cancelled, history>>

WaitedClosed(c) ==
    /\ closer[c] = "wait_closed"
    /\ state = "CLOSED"
    /\ Goes(c, "returned")
    /\ UNCHANGED <<state, subscriptions, queue, unfinished, dispatch, stopping, cancelled,
                   history>>

\* The caller is cancelled.  While it awaits the dispatcher task, asyncio passes
\* the cancellation on to that task, and the CancelledError that comes back is
\* taken for the dispatcher's own by "except CancelledError: pass".
CancelCloser(c) ==
    /\ closer[c] \in Waits
    /\ cancelled' = cancelled \cup {c}
    /\ \/ /\ closer[c] = "join"
          /\ IF DispatcherEnded
             THEN Goes(c, ForceOutcome) /\ state' = "CLOSED" /\ Discard /\ UNCHANGED stopping
             ELSE /\ Goes(c, "force")
                  /\ stopping' = TRUE
                  /\ UNCHANGED <<state, queue, unfinished>>
       \/ /\ closer[c] = "wait_closed"
          /\ Goes(c, "cancelled")
          /\ UNCHANGED <<state, queue, unfinished, stopping>>
       \/ /\ closer[c] \in {"stop", "force"}
          /\ UNCHANGED <<state, queue, unfinished, stopping, closer>>
    /\ UNCHANGED <<subscriptions, dispatch, history>>

-----------------------------------------------------------------------------
Dispatching ==
    \/ Get
    \/ Settle
    \/ Die
    \/ StopWaiting
    \/ OnDispatcherDone

Resume(c) ==
    \/ Join(c)
    \/ Stopped(c)
    \/ Forced(c)
    \/ WaitedClosed(c)

Next ==
    \/ \E h \in Handlers, t \in Types : Subscribe(h, t)
    \/ Start
    \/ \E e \in Events : Publish(e)
    \/ Dispatching
    \/ \E h \in Handlers : HandlerEnds(h)
    \/ \E h \in Handlers, kind \in Deaths : HandlerEscapes(h, kind)
    \/ \E c \in Closers : Close(c) \/ Resume(c) \/ CancelCloser(c)

Spec == Init /\ [][Next]_vars

(***************************************************************************)
(* Fairness: the event loop runs every task that is ready, and subscribers *)
(* come to an end.  Nobody has to publish, close or cancel anything.       *)
(***************************************************************************)
Fairness ==
    /\ WF_vars(Dispatching)
    /\ \A h \in Handlers : WF_vars(HandlerEnds(h))
    /\ \A c \in Closers : WF_vars(Resume(c))

FairSpec == Spec /\ Fairness

-----------------------------------------------------------------------------
(* Properties.                                                             *)

\* join() counts right: an accepted event is queued, in dispatch or accounted for.
InDispatch == IF dispatcher = "dispatching" THEN 1 ELSE 0

Accounting == unfinished = Len(queue) + InDispatch

\* The queue stays within its bound, and events are dispatched in the order of
\* their admission, none lost, none twice, until the bus is closed.
Fifo ==
    /\ Len(queue) <= Capacity
    /\ Len(started) <= Len(accepted)
    /\ \A i \in 1..Len(started) : started[i] = accepted[i]
    /\ state # "CLOSED" => accepted = started \o queue

\* CLOSED is final for everybody: no queued event, no handler still running, and no
\* dispatcher left behind, whoever was cancelled or died on the way.
ClosedIsClean ==
    state = "CLOSED" =>
        /\ queue = <<>>
        /\ unfinished = 0
        /\ running = {}
        /\ dispatcher \in {"none", "done", "reaped"}

\* Unless a subscriber escaped or a closer was cancelled, closing drained the bus.
GracefulDrain ==
    state = "CLOSED" /\ escapes = {} /\ cancelled = {} => started = accepted

\* Closing alone never cuts a dispatch short: the dispatcher is cancelled between two
\* events, and dies in the middle of one only for a subscriber or a cancelled closer.
DispatchIsNotCut == [][Die => escapes # {} \/ cancelled # {}]_vars

(***************************************************************************)
(* The promise behind all of this: EventQueue, where every step of the bus *)
(* is one step or none.                                                    *)
(***************************************************************************)
PhaseOf == [NEW |-> "new", RUNNING |-> "open", CLOSING |-> "closing", CLOSED |-> "closed"]

Queue == INSTANCE EventQueue
         WITH Items <- Events, Bound <- Capacity, phase <- PhaseOf[state],
              pending <- queue, delivered <- started,
              excused <- escapes # {} \/ cancelled # {}

\* The bus admits, delivers and ends as EventQueue does: within its bound, in order, never
\* after it has closed, and dropping nothing unless somebody broke or was cancelled.
ImplementsQueue == Queue!QueueSpec

\* close(), called while the bus is closing or running, comes to an end.
CloseEnds == \A c \in Closers : closer[c] \in Waits ~> closer[c] \in Ends

\* An accepted event is dispatched, or the bus is closed.
AcceptedIsDispatched ==
    \A n \in Events : Len(accepted) >= n ~> (Len(started) >= n \/ state = "CLOSED")

\* A caller whose close() was cancelled from outside sees the cancellation.
CancellationPropagates ==
    \A c \in cancelled : closer[c] \in Ends => closer[c] # "returned"
=============================================================================
