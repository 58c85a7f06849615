--------------------------- MODULE EventBus_proofs ---------------------------
(***************************************************************************)
(* Proofs about EventBus for any capacity, any subscribers and any number  *)
(* of callers of close().                                                  *)
(***************************************************************************)
EXTENDS EventBus, TLAPS

\* A bus that has not been started is well typed (the constructor, bus.py).
LEMMA TypeInit == Init => TypeOK
  <1> SUFFICES ASSUME Init PROVE TypeOK
    OBVIOUS
  <1> USE DEF Init, States, Dispatcher
  <1>1. /\ state \in States /\ dispatcher \in Dispatcher
        /\ unfinished \in Nat /\ stopping \in BOOLEAN /\ death \in Deaths \cup {"none"}
    OBVIOUS
  <1>5. queue \in Seq(Events) /\ accepted \in Seq(Events) /\ started \in Seq(Events)
    <2>1. <<>> \in Seq(Events)
      OBVIOUS
    <2> QED BY <2>1
  <1>2. /\ running \in SUBSET Handlers /\ escapes \in SUBSET Deaths
        /\ cancelled \in SUBSET Closers
    BY DEF Deaths
  <1>3. subscriptions \in [Types -> SUBSET Handlers]
    OBVIOUS
  <1>4. closer \in [Closers -> {"idle"} \cup Waits \cup Ends]
    OBVIOUS
  <1> QED BY <1>1, <1>2, <1>3, <1>4, <1>5 DEF TypeOK

\* Every step of the publishers, the dispatcher and the closers keeps the bus well typed;
\* the counters of task_done() stay natural numbers because of Accounting.
LEMMA TypeStep == TypeOK /\ Accounting /\ [Next]_vars => TypeOK'
  <1> SUFFICES ASSUME TypeOK, Accounting, [Next]_vars PROVE TypeOK'
    OBVIOUS
  <1> USE DEF TypeOK, States, Dispatcher, Waits, Ends, Deaths, dispatch, history
  <1>1. CASE UNCHANGED vars
    BY <1>1 DEF vars
  <1>2. ASSUME NEW h \in Handlers, NEW t \in Types, Subscribe(h, t) PROVE TypeOK'
    BY <1>2 DEF Subscribe
  <1>3. CASE Start
    BY <1>3 DEF Start
  <1>4. ASSUME NEW e \in Events, Publish(e) PROVE TypeOK'
    BY <1>4 DEF Publish
  <1>5. CASE Get
    <2>1. Head(queue) \in Events /\ Tail(queue) \in Seq(Events) /\ Len(queue) > 0
      BY <1>5 DEF Get
    <2>2. subscriptions[TypeOf[Head(queue)]] \in SUBSET Handlers
      BY <2>1, BusAssumption
    <2>3. unfinished' \in Nat
      BY <1>5, <2>1 DEF Get, Accounting, InDispatch
    <2> QED BY <1>5, <2>1, <2>2, <2>3 DEF Get
  <1>6. CASE Settle
    BY <1>6 DEF Settle, Accounting, InDispatch
  <1>7. CASE Die
    BY <1>7 DEF Die, TaskDoneOnDeath, Accounting, InDispatch
  <1>8. CASE StopWaiting
    BY <1>8 DEF StopWaiting
  <1>9. ASSUME Discard PROVE queue' \in Seq(Events) /\ unfinished' \in Nat
    BY <1>9 DEF Discard, Accounting, InDispatch
  <1>10. CASE OnDispatcherDone
    BY <1>9, <1>10 DEF OnDispatcherDone
  <1>11. ASSUME NEW h \in Handlers, HandlerEnds(h) PROVE TypeOK'
    BY <1>11 DEF HandlerEnds
  <1>12. ASSUME NEW h \in Handlers, NEW kind \in Deaths, HandlerEscapes(h, kind)
         PROVE  TypeOK'
    BY <1>12 DEF HandlerEscapes
  <1>13. ASSUME NEW c \in Closers, Close(c) PROVE TypeOK'
    BY <1>13 DEF Close, Goes
  <1>14. ASSUME NEW c \in Closers, Join(c) PROVE TypeOK'
    BY <1>14 DEF Join, Goes, Outcome
  <1>15. ASSUME NEW c \in Closers, Stopped(c) PROVE TypeOK'
    BY <1>15 DEF Stopped, Goes, Outcome
  <1>16. ASSUME NEW c \in Closers, Forced(c) PROVE TypeOK'
    BY <1>9, <1>16 DEF Forced, Goes, ForceOutcome
  <1>17. ASSUME NEW c \in Closers, WaitedClosed(c) PROVE TypeOK'
    BY <1>17 DEF WaitedClosed, Goes
  <1>18. ASSUME NEW c \in Closers, CancelCloser(c) PROVE TypeOK'
    BY <1>9, <1>18 DEF CancelCloser, Goes, ForceOutcome
  <1> QED BY <1>1, <1>2, <1>3, <1>4, <1>5, <1>6, <1>7, <1>8, <1>10, <1>11, <1>12, <1>13,
             <1>14, <1>15, <1>16, <1>17, <1>18 DEF Next, Dispatching, Resume

(***************************************************************************)
(* The inductive invariant.  Beside the properties themselves it says how  *)
(* far the dispatcher and the bus can be apart: which states of the one    *)
(* each state of the other allows, and that a dispatcher stopped by a      *)
(* close() nobody cancelled had nothing left to do.                        *)
(***************************************************************************)
Lockstep ==
    /\ dispatcher # "dispatching" => running = {}
    /\ dispatcher = "none" => state \in {"NEW", "CLOSED"}
    /\ state = "NEW" => dispatcher = "none" /\ queue = <<>> /\ started = accepted
    /\ dispatcher = "reaped" => state = "CLOSED"
    /\ dispatcher \in {"done", "reaped"} /\ escapes = {} => stopping
    /\ stopping => state \in {"CLOSING", "CLOSED"}
    /\ stopping /\ cancelled = {} => unfinished = 0
    /\ \A c \in Closers : closer[c] \in {"join", "stop", "force", "wait_closed"}
                              => state \in {"CLOSING", "CLOSED"}

BusInv ==
    /\ TypeOK
    /\ Accounting
    /\ Fifo
    /\ ClosedIsClean
    /\ GracefulDrain
    /\ Lockstep

\* The constructed bus satisfies the inductive invariant.
LEMMA BusInit == Init => BusInv
  <1> SUFFICES ASSUME Init PROVE BusInv
    OBVIOUS
  <1>1. TypeOK
    BY TypeInit
  <1>2. accepted = started \o queue
    BY DEF Init
  <1> QED BY <1>1, <1>2, BusAssumption
          DEF Init, BusInv, Accounting, InDispatch, Fifo, ClosedIsClean, GracefulDrain, Lockstep

(***************************************************************************)
(* Sequences: what publishing and taking an event do to the history.       *)
(***************************************************************************)
LEMMA AppendLast ==
  ASSUME NEW S, NEW a \in Seq(S), NEW b \in Seq(S), NEW e \in S
  PROVE  a \o Append(b, e) = Append(a \o b, e)
  OBVIOUS

\* Taking the head of the queue moves it from what waits to what was dispatched.
LEMMA HeadMoves ==
  ASSUME NEW S, NEW a \in Seq(S), NEW b \in Seq(S), b # <<>>
  PROVE  /\ Append(a, Head(b)) \o Tail(b) = a \o b
         /\ Len(a) < Len(a \o b)
         /\ \A i \in 1..Len(a) + 1 : Append(a, Head(b))[i] = (a \o b)[i]
  OBVIOUS

\* A queue of one event is empty once that event is taken.
LEMMA EmptyTail ==
  ASSUME NEW S, NEW a \in Seq(S)
  PROVE  a \o <<>> = a
  OBVIOUS

\* A bus that has nothing left to dispatch and is not yet closed has dispatched all.
LEMMA Drained == ASSUME BusInv, state # "CLOSED", queue = <<>> PROVE started = accepted
  BY EmptyTail DEF BusInv, TypeOK, Fifo

(***************************************************************************)
(* One lemma per group of actions: the invariant, apart from TypeOK, which *)
(* TypeStep has shown.                                                     *)
(***************************************************************************)
Rest == Accounting /\ Fifo /\ ClosedIsClean /\ GracefulDrain /\ Lockstep

\* publish() appends to the queue and to what was accepted, or refuses and changes neither.
LEMMA PublishKeeps == ASSUME BusInv, NEW e \in Events, Publish(e) PROVE Rest'
  <1> USE DEF BusInv, TypeOK
  <1>1. accepted' = started \o queue'
    <2>1. accepted = started \o queue /\ accepted' = Append(accepted, e)
      BY DEF Publish, MayPublish, Fifo
    <2>2. started \o Append(queue, e) = Append(started \o queue, e)
      BY AppendLast
    <2> QED BY <2>1, <2>2 DEF Publish
  <1>2. Accounting'
    BY DEF Publish, Accounting, InDispatch, dispatch
  <1>3. Len(queue') <= Capacity
    BY BusAssumption DEF Publish, HasRoom
  <1>4. Len(started) <= Len(accepted') /\ \A i \in 1..Len(started) : accepted'[i] = accepted[i]
    BY DEF Publish, Fifo
  <1>5. Fifo'
    BY <1>1, <1>3, <1>4 DEF Publish, Fifo
  <1>6. (ClosedIsClean /\ GracefulDrain)'
    BY DEF Publish, MayPublish, ClosedIsClean, GracefulDrain
  <1>7. Lockstep'
    BY DEF Publish, MayPublish, Lockstep, dispatch
  <1> QED BY <1>2, <1>5, <1>6, <1>7 DEF Rest

\* The dispatcher takes the head of the queue, the next event in the order of publish().
LEMMA GetKeeps == ASSUME BusInv, Get PROVE Rest'
  <1> USE DEF BusInv, TypeOK
  <1>1. state \notin {"NEW", "CLOSED"}
    BY DEF Get, ClosedIsClean, Lockstep
  <1>2. accepted = started \o queue
    BY <1>1 DEF Fifo
  <1>3. /\ accepted = started' \o queue'
        /\ Len(started) < Len(accepted)
        /\ \A i \in 1..Len(started') : started'[i] = accepted[i]
        /\ Len(started') = Len(started) + 1
    <2>1. queue # <<>> /\ queue \in Seq(Events) /\ started \in Seq(Events)
      BY DEF Get
    <2>2. /\ Append(started, Head(queue)) \o Tail(queue) = started \o queue
          /\ Len(started) < Len(started \o queue)
          /\ \A i \in 1..Len(started) + 1 :
                 Append(started, Head(queue))[i] = (started \o queue)[i]
      BY <2>1, HeadMoves
    <2>3. /\ started' = Append(started, Head(queue))
          /\ queue' = Tail(queue)
          /\ Len(started') = Len(started) + 1
      BY <2>1 DEF Get
    <2> QED BY <1>2, <2>2, <2>3
  <1>4. Len(queue') = Len(queue) - 1
    BY DEF Get
  <1>5. Accounting'
    BY <1>4 DEF Get, Accounting, InDispatch
  <1>6. Fifo'
    BY <1>3, <1>4, BusAssumption DEF Get, Fifo
  <1>7. (ClosedIsClean /\ GracefulDrain)'
    BY <1>1 DEF Get, ClosedIsClean, GracefulDrain
  <1>8. Lockstep'
    BY <1>1 DEF Get, Lockstep
  <1> QED BY <1>5, <1>6, <1>7, <1>8 DEF Rest

\* The steps of a dispatch that leave the queue and the history alone.
LEMMA DispatchKeeps ==
  ASSUME BusInv,
         \/ Settle
         \/ Die
         \/ \E h \in Handlers : HandlerEnds(h)
         \/ \E h \in Handlers, kind \in Deaths : HandlerEscapes(h, kind)
  PROVE  Rest'
  <1> USE DEF BusInv, TypeOK
  <1>1. dispatcher = "dispatching" /\ state # "CLOSED"
    BY DEF Settle, Die, HandlerEnds, HandlerEscapes, ClosedIsClean, Lockstep
  <1>2. UNCHANGED <<state, queue, stopping, closer, cancelled, accepted, started>>
    BY DEF Settle, Die, HandlerEnds, HandlerEscapes, dispatch, history
  <1>3. Accounting' /\ (stopping /\ cancelled = {} => unfinished' = 0)
    BY <1>1, <1>2 DEF Settle, Die, TaskDoneOnDeath, HandlerEnds, HandlerEscapes, Accounting,
                      InDispatch, Lockstep
  <1>4. (Fifo /\ ClosedIsClean /\ GracefulDrain)'
    BY <1>1, <1>2 DEF Fifo, ClosedIsClean, GracefulDrain
  <1>5. Lockstep'
    BY <1>1, <1>2, <1>3 DEF Settle, Die, SiblingsSettled, HandlerEnds, HandlerEscapes, Lockstep
  <1> QED BY <1>3, <1>4, <1>5 DEF Rest

\* A dispatcher cancelled in queue.get() leaves the queue and the counters as they were.
LEMMA StopWaitingKeeps == ASSUME BusInv, StopWaiting PROVE Rest'
  <1> USE DEF BusInv, TypeOK, StopWaiting
  <1>1. Accounting'
    BY DEF Accounting, InDispatch
  <1>2. (Fifo /\ ClosedIsClean /\ GracefulDrain)'
    BY DEF Fifo, ClosedIsClean, GracefulDrain, history
  <1>3. Lockstep'
    BY DEF Lockstep, history
  <1> QED BY <1>1, <1>2, <1>3 DEF Rest

\* Setting the bus up.
LEMMA SetupKeeps ==
  ASSUME BusInv, Start \/ \E h \in Handlers, t \in Types : Subscribe(h, t)
  PROVE  Rest'
  <1> USE DEF BusInv, TypeOK, Start, Subscribe, dispatch, history
  <1>1. state = "NEW" /\ dispatcher = "none" /\ queue = <<>> /\ started = accepted /\ ~stopping
    BY DEF Lockstep
  <1>2. Accounting'
    BY <1>1 DEF Accounting, InDispatch
  <1>3. (Fifo /\ ClosedIsClean /\ GracefulDrain)'
    BY <1>1 DEF Fifo, ClosedIsClean, GracefulDrain
  <1>4. Lockstep'
    BY <1>1 DEF Lockstep
  <1> QED BY <1>2, <1>3, <1>4 DEF Rest

\* Emptying the queue leaves only the event in dispatch to account for.
LEMMA DiscardLeaves == ASSUME BusInv, Discard PROVE queue' = <<>> /\ unfinished' = InDispatch
  BY DEF BusInv, TypeOK, Discard, Accounting, InDispatch

\* The done callback of the dispatcher discards what waits and closes a bus that is ending.
LEMMA DoneKeeps == ASSUME BusInv, OnDispatcherDone PROVE Rest'
  <1> USE DEF BusInv, TypeOK, OnDispatcherDone
  <1>1. state \in {"RUNNING", "CLOSING", "CLOSED"} /\ state' = "CLOSED"
    BY DEF Lockstep, TerminalStates, States
  <1>2. queue' = <<>> /\ unfinished' = 0 /\ running' = {} /\ dispatcher' = "reaped"
    <2>1. CASE state \in TerminalStates
      BY <2>1, DiscardLeaves DEF InDispatch, Lockstep
    <2>2. CASE state \notin TerminalStates
      BY <1>1, <2>2 DEF ClosedIsClean, TerminalStates
    <2> QED BY <2>1, <2>2
  <1>3. UNCHANGED <<escapes, stopping, cancelled, accepted, started>>
    BY DEF history
  <1>4. Accounting'
    BY <1>2 DEF Accounting, InDispatch
  <1>5. Fifo'
    BY <1>1, <1>2, <1>3, BusAssumption DEF Fifo
  <1>6. ClosedIsClean'
    BY <1>2 DEF ClosedIsClean
  <1>7. GracefulDrain'
    <2> SUFFICES ASSUME escapes = {}, cancelled = {} PROVE started = accepted
      BY <1>3 DEF GracefulDrain
    <2>1. CASE state = "CLOSED"
      BY <2>1 DEF GracefulDrain
    <2>2. CASE state # "CLOSED"
      <3>1. stopping /\ unfinished = 0
        BY DEF Lockstep
      <3>2. queue = <<>>
        BY <3>1 DEF Accounting, InDispatch
      <3> QED BY <2>2, <3>2, Drained
    <2> QED BY <2>1, <2>2
  <1>8. Lockstep'
    BY <1>1, <1>2, <1>3 DEF Lockstep
  <1> QED BY <1>4, <1>5, <1>6, <1>7, <1>8 DEF Rest

(***************************************************************************)
(* close().                                                                *)
(***************************************************************************)
LEMMA CloseKeeps == ASSUME BusInv, NEW c \in Closers, Close(c) PROVE Rest'
  <1> USE DEF BusInv, TypeOK, Close, Goes, dispatch, history
  <1>1. /\ UNCHANGED <<queue, unfinished, dispatcher, running, escapes, stopping, cancelled,
                       accepted, started>>
        /\ state' # "NEW"
        /\ state' = "CLOSED" <=> state \in {"NEW", "CLOSED"}
        /\ state' = "CLOSING" <=> state \in {"CLOSING", "RUNNING"}
    BY DEF States
  <1>2. Accounting'
    BY <1>1 DEF Accounting, InDispatch
  <1>3. CASE state = "NEW"
    <2>1. dispatcher = "none" /\ queue = <<>> /\ started = accepted /\ unfinished = 0
      BY <1>3 DEF Lockstep, Accounting, InDispatch
    <2>2. (Fifo /\ ClosedIsClean /\ GracefulDrain)'
      BY <1>1, <1>3, <2>1 DEF Fifo, ClosedIsClean, GracefulDrain, Lockstep
    <2>3. Lockstep'
      BY <1>1, <1>3, <2>1 DEF Lockstep
    <2> QED BY <1>2, <2>2, <2>3 DEF Rest
  <1>4. CASE state # "NEW"
    <2>1. (Fifo /\ ClosedIsClean /\ GracefulDrain)'
      BY <1>1, <1>4 DEF Fifo, ClosedIsClean, GracefulDrain
    <2>2. Lockstep'
      BY <1>1, <1>4 DEF Lockstep, States
    <2> QED BY <1>2, <2>1, <2>2 DEF Rest
  <1> QED BY <1>3, <1>4

\* queue.join() ends only when no event waits and none is being dispatched.
LEMMA JoinKeeps == ASSUME BusInv, NEW c \in Closers, Join(c) PROVE Rest'
  <1> USE DEF BusInv, TypeOK, Join, Goes, dispatch, history
  <1>1. /\ unfinished = 0 /\ queue = <<>> /\ running = {} /\ dispatcher # "dispatching"
        /\ state \in {"CLOSING", "CLOSED"}
    BY DEF Joined, Accounting, InDispatch, Lockstep
  <1>2. UNCHANGED <<queue, unfinished, dispatcher, running, escapes, cancelled, accepted,
                    started>>
    OBVIOUS
  <1>3. Accounting'
    BY <1>2 DEF Accounting, InDispatch
  <1>4. started = accepted \/ state = "CLOSED"
    BY <1>1, Drained
  <1>5. \/ DispatcherEnded /\ state' = "CLOSED" /\ UNCHANGED stopping
        \/ ~DispatcherEnded /\ stopping' /\ UNCHANGED state
    OBVIOUS
  <1>6. (Fifo /\ ClosedIsClean)'
    BY <1>1, <1>2, <1>5 DEF Fifo, ClosedIsClean, DispatcherEnded
  <1>7. GracefulDrain'
    BY <1>2, <1>4, <1>5 DEF GracefulDrain
  <1>8. Lockstep'
    BY <1>1, <1>2, <1>5 DEF Lockstep, DispatcherEnded
  <1> QED BY <1>3, <1>6, <1>7, <1>8 DEF Rest

\* A closer whose wait for the stopped dispatcher ends leaves the bus settled.
LEMMA StoppedKeeps == ASSUME BusInv, NEW c \in Closers, Stopped(c) \/ WaitedClosed(c) PROVE Rest'
  <1> USE DEF BusInv, TypeOK, Stopped, WaitedClosed, Goes, dispatch, history
  <1>1. state = "CLOSED"
    BY DEF Lockstep
  <1>2. UNCHANGED <<state, queue, unfinished, dispatcher, running, escapes, stopping, cancelled,
                    accepted, started>>
    BY <1>1
  <1>3. (Accounting /\ Fifo /\ ClosedIsClean /\ GracefulDrain)'
    BY <1>2 DEF Accounting, InDispatch, Fifo, ClosedIsClean, GracefulDrain
  <1>4. Lockstep'
    BY <1>1, <1>2 DEF Lockstep
  <1> QED BY <1>3, <1>4 DEF Rest

\* The forced branch of close() discards the queue and settles every counter.
LEMMA ForcedKeeps == ASSUME BusInv, NEW c \in Closers, Forced(c) PROVE Rest'
  <1> USE DEF BusInv, TypeOK, Forced, Goes, dispatch, history
  <1>1. state = "CLOSED" /\ queue = <<>> /\ unfinished = 0
    BY DEF Lockstep, ClosedIsClean
  <1>2. UNCHANGED <<state, queue, unfinished, dispatcher, running, escapes, stopping, cancelled,
                    accepted, started>>
    BY <1>1, DiscardLeaves DEF InDispatch
  <1>3. (Accounting /\ Fifo /\ ClosedIsClean /\ GracefulDrain)'
    BY <1>2 DEF Accounting, InDispatch, Fifo, ClosedIsClean, GracefulDrain
  <1>4. Lockstep'
    BY <1>1, <1>2 DEF Lockstep
  <1> QED BY <1>3, <1>4 DEF Rest

\* Cancelling a closer while it waits leaves the bus to the others, still accounted for.
LEMMA CancelKeeps == ASSUME BusInv, NEW c \in Closers, CancelCloser(c) PROVE Rest'
  <1> USE DEF BusInv, TypeOK, Goes, dispatch, history
  <1>1. /\ UNCHANGED <<dispatcher, running, escapes, accepted, started>>
        /\ cancelled' # {}
    BY DEF CancelCloser
  <1>2. CASE UNCHANGED <<state, queue, unfinished, stopping>>
    <2>1. (Accounting /\ Fifo /\ ClosedIsClean /\ GracefulDrain)'
      BY <1>1, <1>2 DEF Accounting, InDispatch, Fifo, ClosedIsClean, GracefulDrain
    <2>2. \A d \in Closers : closer'[d] \in {"join", "stop", "force", "wait_closed"}
                                 => state \in {"CLOSING", "CLOSED"}
      BY <1>2 DEF CancelCloser, Lockstep
    <2>3. stopping' /\ cancelled' = {} => unfinished' = 0
      BY <1>1
    <2>4. Lockstep'
      BY <1>1, <1>2, <2>2, <2>3 DEF Lockstep
    <2> QED BY <2>1, <2>4 DEF Rest
  <1>3. CASE closer[c] = "join" /\ DispatcherEnded
    <2>1. state' = "CLOSED" /\ Discard /\ UNCHANGED stopping
      BY <1>3 DEF CancelCloser
    <2>2. queue' = <<>> /\ unfinished' = 0
      BY <1>3, <2>1, DiscardLeaves DEF InDispatch, DispatcherEnded
    <2>3. (Accounting /\ Fifo /\ ClosedIsClean /\ GracefulDrain)'
      BY <1>1, <1>3, <2>1, <2>2, BusAssumption
         DEF Accounting, InDispatch, Fifo, ClosedIsClean, GracefulDrain, Lockstep,
             DispatcherEnded
    <2>4. Lockstep'
      BY <1>1, <1>3, <2>1, <2>2 DEF Lockstep, DispatcherEnded
    <2> QED BY <2>3, <2>4 DEF Rest
  <1>4. CASE closer[c] = "join" /\ ~DispatcherEnded
    <2>1. UNCHANGED <<state, queue, unfinished>> /\ stopping'
      BY <1>4 DEF CancelCloser
    <2>2. state \in {"CLOSING", "CLOSED"}
      BY <1>4 DEF Lockstep
    <2>3. (Accounting /\ Fifo /\ ClosedIsClean /\ GracefulDrain)'
      BY <1>1, <2>1 DEF Accounting, InDispatch, Fifo, ClosedIsClean, GracefulDrain
    <2>4. Lockstep'
      BY <1>1, <1>4, <2>1, <2>2 DEF Lockstep, DispatcherEnded
    <2> QED BY <2>3, <2>4 DEF Rest
  <1> QED BY <1>2, <1>3, <1>4 DEF CancelCloser

\* The invariant is inductive: every step of every actor keeps it.
LEMMA BusStep == BusInv /\ [Next]_vars => BusInv'
  <1> SUFFICES ASSUME BusInv, [Next]_vars PROVE BusInv'
    OBVIOUS
  <1>1. TypeOK'
    BY TypeStep DEF BusInv
  <1>2. Rest'
    <2>1. CASE UNCHANGED vars
      BY <2>1 DEF BusInv, Rest, vars, Accounting, InDispatch, Fifo, ClosedIsClean,
                  GracefulDrain, Lockstep
    <2>2. CASE Next
      BY <2>2, PublishKeeps, GetKeeps, DispatchKeeps, StopWaitingKeeps, SetupKeeps, DoneKeeps,
         CloseKeeps, JoinKeeps, StoppedKeeps, ForcedKeeps, CancelKeeps
         DEF Next, Dispatching, Resume
    <2> QED BY <2>1, <2>2
  <1> QED BY <1>1, <1>2 DEF BusInv, Rest

\* The bus is always in a state the invariant describes.
THEOREM BusInvariant == Spec => []BusInv
  BY BusInit, BusStep, PTL DEF Spec

\* The count that join() waits for never loses or gains an item (task_done in the
\* finally clause of the loop, put_nowait, the discarding of pending events).
THEOREM AccountingHolds == Spec => []Accounting
  <1>1. BusInv => Accounting
    BY DEF BusInv
  <1> QED BY <1>1, BusInvariant, PTL

\* Whatever the capacity and however many publish, the queue is bounded and the events
\* are dispatched in the order of publish(), none skipped or repeated.
THEOREM FifoHolds == Spec => []Fifo
  <1>1. BusInv => Fifo
    BY DEF BusInv
  <1> QED BY <1>1, BusInvariant, PTL

\* A closed bus has no event, handler or dispatcher left, however many callers close it,
\* are cancelled while they wait, and whichever handlers end the dispatcher.
THEOREM ClosedIsCleanHolds == Spec => []ClosedIsClean
  <1>1. BusInv => ClosedIsClean
    BY DEF BusInv
  <1> QED BY <1>1, BusInvariant, PTL

\* close() without a cancellation and without an escaped BaseException dispatches every
\* event that publish() admitted.
THEOREM GracefulDrainHolds == Spec => []GracefulDrain
  <1>1. BusInv => GracefulDrain
    BY DEF BusInv
  <1> QED BY <1>1, BusInvariant, PTL

\* close() cancels the dispatcher only once nothing is unfinished, so it does not cut a
\* running dispatch.
THEOREM DispatchIsNotCutHolds == Spec => DispatchIsNotCut
  <1>1. BusInv /\ [Next]_vars => [Die => escapes # {} \/ cancelled # {}]_vars
    BY DEF BusInv, TypeOK, Accounting, InDispatch, Lockstep, Die
  <1> QED BY <1>1, BusInvariant, PTL DEF Spec, DispatchIsNotCut

(***************************************************************************)
(* The bus implements the queue it promises.                               *)
(***************************************************************************)
Excused == escapes # {} \/ cancelled # {}

\* A step that leaves what the queue shows alone, or only adds an excuse to a bus that
\* was started.
LEMMA Unseen ==
    ASSUME BusInv, UNCHANGED <<state, queue, started>>, Excused => Excused',
           Excused' => Excused \/ state # "NEW"
    PROVE  [Queue!QueueNext]_Queue!queueVars
  <1>1. CASE Excused' = Excused
    BY <1>1 DEF Excused, Queue!queueVars
  <1>2. CASE Excused' /\ ~Excused
    <2>1. PhaseOf[state] # "new"
      BY <1>2 DEF BusInv, TypeOK, States, PhaseOf
    <2> QED BY <1>2, <2>1 DEF Excused, Queue!QueueNext, Queue!Excuse
  <1> QED BY <1>1, <1>2 DEF Excused

\* A step to CLOSED that empties the queue, with an excuse for what was in it.
LEMMA Ended ==
    ASSUME BusInv, state # "CLOSED", state' = "CLOSED", queue' = <<>>, UNCHANGED started,
           Excused => Excused', queue # <<>> => Excused'
    PROVE  [Queue!QueueNext]_Queue!queueVars
  <1>1. PhaseOf[state] # "closed" /\ PhaseOf[state'] = "closed"
    BY DEF BusInv, TypeOK, States, PhaseOf
  <1> QED BY <1>1 DEF Excused, Queue!QueueNext, Queue!End

\* A constructed bus is a new queue (__init__, bus.py).
LEMMA QueueStarts == Init => Queue!QueueInit
  BY DEF Init, Queue!QueueInit, PhaseOf

\* publish() admits, and the dispatcher's get() delivers.
LEMMA PublishAdmits ==
    ASSUME BusInv, NEW e \in Events, Publish(e)
    PROVE  [Queue!QueueNext]_Queue!queueVars
  <1>1. PhaseOf[state] = "open" /\ UNCHANGED <<state, started, escapes, cancelled>>
    BY DEF Publish, MayPublish, PhaseOf, dispatch
  <1>2. Queue!Admit(e)
    BY <1>1 DEF Publish, HasRoom, Queue!Admit
  <1> QED BY <1>2 DEF Queue!QueueNext

\* Taking an event off the queue delivers it: the bus is open or closing then.
LEMMA GetDelivers == ASSUME BusInv, Get PROVE [Queue!QueueNext]_Queue!queueVars
  <1>1. state \in {"RUNNING", "CLOSING"}
    BY DEF BusInv, TypeOK, States, ClosedIsClean, Lockstep, Get
  <1>2. PhaseOf[state] \in {"open", "closing"}
    BY <1>1 DEF PhaseOf
  <1>3. Queue!Deliver
    BY <1>2 DEF Get, Queue!Deliver
  <1> QED BY <1>3 DEF Queue!QueueNext

\* The done callback drops what is queued only if the dispatcher was broken or cancelled.
LEMMA DoneEnds == ASSUME BusInv, OnDispatcherDone PROVE [Queue!QueueNext]_Queue!queueVars
  <1>1. UNCHANGED <<started, escapes, cancelled>>
    BY DEF OnDispatcherDone, history
  <1>2. CASE state \in TerminalStates
    <2>1. state # "CLOSED" /\ state' = "CLOSED" /\ queue' = <<>>
      BY <1>2 DEF OnDispatcherDone, Discard, TerminalStates
    <2>2. queue # <<>> => Excused
      <3>1. ~Excused => unfinished = 0
        BY DEF BusInv, Lockstep, Excused, OnDispatcherDone
      <3>2. unfinished = 0 => queue = <<>>
        BY DEF BusInv, Accounting, InDispatch, TypeOK
      <3> QED BY <3>1, <3>2
    <2> QED BY <1>1, <2>1, <2>2, Ended DEF Excused
  <1>3. CASE state \notin TerminalStates
    BY <1>1, <1>3, Unseen DEF OnDispatcherDone, Excused
  <1> QED BY <1>2, <1>3

\* close() on a bus that was never started ends it, on a running one begins to.
LEMMA CloseCloses ==
    ASSUME BusInv, NEW c \in Closers, Close(c)
    PROVE  [Queue!QueueNext]_Queue!queueVars
  <1>1. UNCHANGED <<queue, started, escapes, cancelled>>
    BY DEF Close, dispatch, history
  <1>2. CASE state' = state
    BY <1>1, <1>2, Unseen DEF Excused
  <1>3. CASE state = "NEW" /\ state' = "CLOSED"
    <2>1. queue = <<>>
      BY <1>3 DEF BusInv, Lockstep
    <2> QED BY <1>1, <1>3, <2>1, Ended DEF Excused
  <1>4. CASE state = "RUNNING" /\ state' = "CLOSING"
    <2>1. Queue!BeginClose
      BY <1>1, <1>4 DEF Queue!BeginClose, PhaseOf
    <2> QED BY <2>1 DEF Queue!QueueNext
  <1> QED BY <1>2, <1>3, <1>4 DEF Close

\* A close() that is resumed ends the bus if nothing is unfinished or if it was cancelled.
LEMMA ResumeEnds ==
    ASSUME BusInv, NEW c \in Closers, Resume(c)
    PROVE  [Queue!QueueNext]_Queue!queueVars
  <1>1. UNCHANGED <<started, escapes, cancelled>>
    BY DEF Resume, Join, Stopped, Forced, WaitedClosed, dispatch, history
  <1>2. state' \in {state, "CLOSED"}
    BY DEF Resume, Join, Stopped, Forced, WaitedClosed
  <1>3. CASE Join(c)
    <2>1. queue = <<>> /\ queue' = <<>>
      BY <1>3 DEF Join, Joined, BusInv, Accounting, InDispatch, TypeOK
    <2>2. CASE state' = state
      BY <1>1, <2>1, <2>2, Unseen DEF Excused
    <2>3. CASE state' # state
      BY <1>1, <1>2, <2>1, <2>3, Ended DEF Excused
    <2> QED BY <2>2, <2>3
  <1>4. CASE Stopped(c) \/ Forced(c) \/ WaitedClosed(c)
    <2>1. state = "CLOSED" /\ queue = <<>>
      BY <1>4 DEF Stopped, Forced, WaitedClosed, BusInv, Lockstep, ClosedIsClean
    <2>2. state' = state /\ queue' = queue
      BY <1>2, <1>4, <2>1 DEF Stopped, Forced, WaitedClosed, Discard
    <2> QED BY <1>1, <2>2, Unseen DEF Excused
  <1> QED BY <1>3, <1>4 DEF Resume

\* A cancelled close() is an excuse; where the dispatcher is gone it ends the bus at once.
LEMMA CancelExcuses ==
    ASSUME BusInv, NEW c \in Closers, CancelCloser(c)
    PROVE  [Queue!QueueNext]_Queue!queueVars
  <1>1. UNCHANGED <<started, escapes>> /\ Excused'
    BY DEF CancelCloser, dispatch, history, Excused
  <1>2. CASE UNCHANGED <<state, queue>>
    <2>1. state # "NEW"
      BY DEF CancelCloser, Waits, BusInv, Lockstep
    <2> QED BY <1>1, <1>2, <2>1, Unseen
  <1>3. CASE ~UNCHANGED <<state, queue>>
    <2>1. state' = "CLOSED" /\ queue' = <<>>
      BY <1>3 DEF CancelCloser, Discard
    <2>2. state # "CLOSED"
      BY <1>3, <2>1 DEF BusInv, ClosedIsClean
    <2> QED BY <1>1, <2>1, <2>2, Ended
  <1> QED BY <1>2, <1>3

\* Publishers, dispatcher, handlers and closers (bus.py), in whatever order they run, do
\* nothing a bounded queue that ends once would not do; what is dropped has an excuse.
THEOREM ImplementsQueueHolds == Spec => ImplementsQueue
  <1>1. BusInv /\ [Next]_vars => [Queue!QueueNext]_Queue!queueVars
    <2> SUFFICES ASSUME BusInv, [Next]_vars PROVE [Queue!QueueNext]_Queue!queueVars
      OBVIOUS
    <2>1. CASE UNCHANGED vars
      BY <2>1, Unseen DEF vars, Excused
    <2>2. ASSUME NEW h \in Handlers, NEW t \in Types, Subscribe(h, t)
          PROVE  [Queue!QueueNext]_Queue!queueVars
      BY <2>2, Unseen DEF Subscribe, dispatch, history, Excused
    <2>3. CASE Start
      <3>1. Queue!Open
        BY <2>3 DEF Start, Queue!Open, PhaseOf, history
      <3> QED BY <3>1 DEF Queue!QueueNext
    <2>4. CASE Settle \/ Die \/ StopWaiting
      BY <2>4, Unseen DEF Settle, Die, StopWaiting, history, Excused
    <2>5. ASSUME NEW h \in Handlers, HandlerEnds(h) PROVE [Queue!QueueNext]_Queue!queueVars
      BY <2>5, Unseen DEF HandlerEnds, history, Excused
    <2>6. ASSUME NEW h \in Handlers, NEW kind \in Deaths, HandlerEscapes(h, kind)
          PROVE  [Queue!QueueNext]_Queue!queueVars
      <3>1. state # "NEW"
        BY <2>6 DEF HandlerEscapes, BusInv, Lockstep
      <3> QED BY <2>6, <3>1, Unseen DEF HandlerEscapes, history, Excused
    <2> QED BY <2>1, <2>2, <2>3, <2>4, <2>5, <2>6, PublishAdmits, GetDelivers, DoneEnds,
               CloseCloses, ResumeEnds, CancelExcuses DEF Next, Dispatching
  <1> QED BY <1>1, QueueStarts, BusInvariant, PTL DEF Spec, ImplementsQueue, Queue!QueueSpec
=============================================================================
