----------------------------- MODULE AgentClient -----------------------------
(***************************************************************************)
(* The desktop's client of the agent core (AgentClientService.cs over      *)
(* WebSocketAgentConnection.cs): callers send requests and await their     *)
(* answers, a receive loop per connection completes them, and connecting   *)
(* and disconnecting race with both.                                       *)
(*                                                                         *)
(* Callers, the loop and DisconnectAsync run on several threads.  An       *)
(* action is one operation on what they share: the socket, the gate of the *)
(* senders or the concurrent dictionary of pending requests.  A foreach    *)
(* over that dictionary is no snapshot: it meets every entry it started    *)
(* with unless somebody removes it first, and perhaps later ones.          *)
(***************************************************************************)
EXTENDS Integers, Sequences

CONSTANTS
    Requests,       \* the calls of SendRequestAsync, each with an id of its own
    NoRequest,
    Chat, Bad,      \* a message without a request_id; a frame that is no AgentMessage
    MaxConnections, \* bound: how often the client connects
    MaxInbox        \* bound: the frames that wait to be received

ASSUME ClientAssumption ==
    /\ MaxConnections \in Nat \ {0}
    /\ MaxInbox \in Nat
    /\ NoRequest \notin Requests
    /\ Chat \notin Requests /\ Bad \notin Requests /\ Chat # Bad

Connection == 1..MaxConnections

VARIABLES
    open,           \* IsConnected: the state of the current socket is Open
    current,        \* how many sockets there have been: the current one
    loop,           \* where the receive loop started by each ConnectAsync is
    on,             \* the socket it is receiving on
    token,          \* its _receiveCancellation has been cancelled
    task,           \* _receiveTask: the loop started last, or 0
    todo,           \* the entries a failing loop has still to meet
    pending,        \* the keys of _pendingRequests
    completion,     \* the TaskCompletionSource of each request
    call,           \* where each SendRequestAsync is
    gate,           \* who holds _sendGate
    inbox,          \* the frames that have arrived on the current socket
    sent,           \* the requests that have reached the core on it
    answered,       \* history: the requests the core has answered
    disconnect,     \* where DisconnectAsync is
    clearing        \* the entries its CancelPendingRequests has still to meet

socketVars == <<open, current, inbox, sent>>
loopVars == <<loop, on, token, task, todo>>
callVars == <<call, gate>>
disconnectVars == <<disconnect, clearing>>
vars == <<socketVars, loopVars, callVars, disconnectVars, pending, completion, answered>>

Ends == {"returned", "threw"}
InCall == {"gate", "sending", "waiting", "catching"}

TypeOK ==
    /\ open \in BOOLEAN
    /\ current \in 0..MaxConnections
    /\ loop \in [Connection -> {"none", "checking", "receiving", "failing", "ended"}]
    /\ on \in [Connection -> 0..MaxConnections]
    /\ token \in [Connection -> BOOLEAN]
    /\ task \in 0..MaxConnections
    /\ todo \in [Connection -> SUBSET Requests]
    /\ pending \in SUBSET Requests
    /\ completion \in [Requests -> {"none", "result", "exception", "canceled"}]
    /\ call \in [Requests -> {"idle", "checked"} \cup InCall \cup Ends]
    /\ gate \in Requests \cup {NoRequest}
    /\ inbox \in Seq(Requests \cup {Chat, Bad})
    /\ Len(inbox) <= MaxInbox
    /\ sent \in SUBSET Requests
    /\ answered \in SUBSET Requests
    /\ disconnect \in {"idle", "cancelling", "joining", "closing", "clearing"}
    /\ clearing \in SUBSET Requests

Init ==
    /\ open = FALSE
    /\ current = 0
    /\ loop = [g \in Connection |-> "none"]
    /\ on = [g \in Connection |-> 0]
    /\ token = [g \in Connection |-> FALSE]
    /\ task = 0
    /\ todo = [g \in Connection |-> {}]
    /\ pending = {}
    /\ completion = [r \in Requests |-> "none"]
    /\ call = [r \in Requests |-> "idle"]
    /\ gate = NoRequest
    /\ inbox = <<>>
    /\ sent = {}
    /\ answered = {}
    /\ disconnect = "idle"
    /\ clearing = {}

-----------------------------------------------------------------------------
(* The socket and the core at its other end.                               *)

\* the frames that were under way are lost with the socket
CloseSocket == open' = FALSE /\ inbox' = <<>> /\ sent' = {} /\ UNCHANGED current

\* the core closes it, the network fails, a chat that was being sent is cancelled
SocketDies ==
    /\ open
    /\ CloseSocket
    /\ UNCHANGED <<loopVars, callVars, disconnectVars, pending, completion, answered>>

\* the core answers a request (perhaps twice), chats, or sends what is no message
Arrive(frame) ==
    /\ open
    /\ Len(inbox) < MaxInbox
    /\ frame \in sent \cup {Chat, Bad}
    /\ inbox' = Append(inbox, frame)
    /\ answered' = answered \cup (Requests \cap {frame})
    /\ UNCHANGED <<open, current, sent, loopVars, callVars, disconnectVars, pending,
                   completion>>

\* The new loop runs at once, up to its first ReceiveAsync.  Connecting is left to the
\* window's button, which is gone once it disconnects.
Connect ==
    /\ ~open
    /\ disconnect = "idle"
    /\ current < MaxConnections
    /\ open' = TRUE
    /\ current' = current + 1
    /\ task' = current'
    /\ loop' = [loop EXCEPT ![current'] = "receiving"]
    /\ on' = [on EXCEPT ![current'] = current']
    /\ UNCHANGED <<inbox, sent, token, todo, callVars, disconnectVars, pending,
                   completion, answered>>

-----------------------------------------------------------------------------
(* SendRequestAsync.                                                       *)

Moves(r, from, to) == call[r] = from /\ call' = [call EXCEPT ![r] = to]

\* remove the entry of r, whoever finds it there completes it
Complete(r, how) ==
    /\ pending' = pending \ {r}
    /\ completion' = [completion EXCEPT ![r] = how]

\* IsConnected, else InvalidOperationException
Check(r) ==
    /\ Moves(r, "idle", "checked")
    /\ open
    /\ UNCHANGED <<socketVars, loopVars, gate, disconnectVars, pending, completion, answered>>

Register(r) ==
    /\ Moves(r, "checked", "gate")
    /\ pending' = pending \cup {r}
    /\ UNCHANGED <<socketVars, loopVars, gate, disconnectVars, completion, answered>>

TakeGate(r) ==
    /\ Moves(r, "gate", "sending")
    /\ gate = NoRequest
    /\ gate' = r
    /\ UNCHANGED <<socketVars, loopVars, disconnectVars, pending, completion, answered>>

\* the finally of SendMessageAsync, where the send has thrown
GateAfterFailureBug == gate
GateAfterFailure == NoRequest

Send(r) ==
    /\ IF open
       THEN Moves(r, "sending", "waiting") /\ sent' = sent \cup {r} /\ gate' = NoRequest
       ELSE Moves(r, "sending", "catching") /\ UNCHANGED sent /\ gate' = GateAfterFailure
    /\ UNCHANGED <<open, current, inbox, loopVars, disconnectVars, pending, completion,
                   answered>>

\* the awaited completion
Awake(r) ==
    /\ completion[r] # "none"
    /\ Moves(r, "waiting", IF completion[r] = "result" THEN "returned" ELSE "catching")
    /\ UNCHANGED <<socketVars, loopVars, gate, disconnectVars, pending, completion, answered>>

ForgetBug(r) == pending
Forget(r) == pending \ {r}

\* catch { TryRemove; throw; }
Catch(r) ==
    /\ Moves(r, "catching", "threw")
    /\ pending' = Forget(r)
    /\ UNCHANGED <<socketVars, loopVars, gate, disconnectVars, completion, answered>>

\* The caller's token is cancelled: the registration completes the request, a
\* wait for the gate ends, and a SendAsync under way aborts the socket.
CancelRequest(r) ==
    /\ call[r] \in {"gate", "sending", "waiting"}
    /\ IF r \in pending THEN Complete(r, "canceled") ELSE UNCHANGED <<pending, completion>>
    /\ \/ Moves(r, "gate", "catching") /\ UNCHANGED <<gate, socketVars>>
       \/ Moves(r, "sending", "catching") /\ gate' = GateAfterFailure /\ CloseSocket
       \/ Moves(r, "waiting", "waiting") /\ UNCHANGED <<gate, socketVars>>
    /\ UNCHANGED <<loopVars, disconnectVars, answered>>

-----------------------------------------------------------------------------
(* ReceiveLoopAsync, started by the connection g.                          *)

LoopMoves(g, from, to) == loop[g] = from /\ loop' = [loop EXCEPT ![g] = to]

\* The condition of the loop.  The socket is the one that is current by now.
LoopCheck(g) ==
    /\ IF ~token[g] /\ open
       THEN LoopMoves(g, "checking", "receiving") /\ on' = [on EXCEPT ![g] = current]
       ELSE LoopMoves(g, "checking", "ended") /\ UNCHANGED on
    /\ UNCHANGED <<token, task, todo, socketVars, callVars, disconnectVars, pending,
                   completion, answered>>

Readable(g) == loop[g] = "receiving" /\ open /\ on[g] = current

AnswersBug(frame, r) == r \in pending
Answers(frame, r) == r \in pending /\ frame = r

\* A message: an answer completes its request if that is pending, an unknown or
\* repeated answer is dropped, anything else goes to MessageReceived.
LoopReceive(g) ==
    /\ Readable(g)
    /\ inbox # <<>>
    /\ Head(inbox) # Bad
    /\ LoopMoves(g, "receiving", "checking")
    /\ inbox' = Tail(inbox)
    /\ \/ \E r \in Requests : Answers(Head(inbox), r) /\ Complete(r, "result")
       \/ /\ \A r \in Requests : ~Answers(Head(inbox), r)
          /\ UNCHANGED <<pending, completion>>
    /\ UNCHANGED <<open, current, sent, on, token, task, todo, callVars, disconnectVars,
                   answered>>

\* ReceiveAsync throws: the socket is not open any more, or the frame is bad (which
\* leaves the socket open).  FailPendingRequests begins.
LoopThrows(g) ==
    /\ LoopMoves(g, "receiving", "failing")
    /\ \/ ~(open /\ on[g] = current) /\ UNCHANGED inbox
       \/ /\ Readable(g)
          /\ inbox # <<>>
          /\ Head(inbox) = Bad
          /\ inbox' = Tail(inbox)
    /\ todo' = [todo EXCEPT ![g] = pending]
    /\ UNCHANGED <<open, current, sent, on, token, task, callVars, disconnectVars, pending,
                   completion, answered>>

FailOne(g, r) ==
    /\ loop[g] = "failing"
    /\ r \in pending
    /\ Complete(r, "exception")
    /\ UNCHANGED <<socketVars, loopVars, callVars, disconnectVars, answered>>

\* the foreach is over; ReceiveFailed
LoopFailed(g) ==
    /\ todo[g] \cap pending = {}
    /\ LoopMoves(g, "failing", "ended")
    /\ UNCHANGED <<on, token, task, todo, socketVars, callVars, disconnectVars, pending,
                   completion, answered>>

\* cancelled in ReceiveAsync, which aborts the socket it reads
LoopCancelled(g) ==
    /\ token[g]
    /\ LoopMoves(g, "receiving", "ended")
    /\ IF on[g] = current THEN CloseSocket ELSE UNCHANGED socketVars
    /\ UNCHANGED <<on, token, task, todo, callVars, disconnectVars, pending, completion,
                   answered>>

-----------------------------------------------------------------------------
(* DisconnectAsync.                                                        *)

\* what the foreach of CancelPendingRequests is sure to meet
LeftOverBug == {}
LeftOver == pending

DisconnectMoves(from, to) == disconnect = from /\ disconnect' = to

Disconnect ==
    /\ DisconnectMoves("idle", "cancelling")
    /\ token' = [g \in Connection |-> token[g] \/ g = task]
    /\ clearing' = LeftOver
    /\ UNCHANGED <<socketVars, loop, on, task, todo, callVars, pending, completion, answered>>

\* CancelPendingRequests, called before and after the connection is closed
CancelOne(r) ==
    /\ disconnect \in {"cancelling", "clearing"}
    /\ r \in pending
    /\ Complete(r, "canceled")
    /\ UNCHANGED <<socketVars, loopVars, callVars, disconnectVars, answered>>

Cleared == clearing \cap pending = {}

AwaitLoop ==
    /\ DisconnectMoves("cancelling", "joining")
    /\ Cleared
    /\ UNCHANGED <<socketVars, loopVars, callVars, clearing, pending, completion, answered>>

\* _receiveTask has ended: the connection is closed (CloseAsync leaves Open at once)
CloseConnection ==
    /\ task # 0 => loop[task] = "ended"
    /\ DisconnectMoves("joining", "closing")
    /\ CloseSocket
    /\ UNCHANGED <<loopVars, callVars, clearing, pending, completion, answered>>

\* finally: the second pass
ClearAgain ==
    /\ DisconnectMoves("closing", "clearing")
    /\ clearing' = LeftOver
    /\ UNCHANGED <<socketVars, loopVars, callVars, pending, completion, answered>>

Disconnected ==
    /\ DisconnectMoves("clearing", "idle")
    /\ Cleared
    /\ task' = 0
    /\ UNCHANGED <<socketVars, loop, on, token, todo, callVars, clearing, pending,
                   completion, answered>>

-----------------------------------------------------------------------------
CallStep(r) == Register(r) \/ TakeGate(r) \/ Send(r) \/ Awake(r) \/ Catch(r)

LoopStep(g) ==
    \/ LoopCheck(g)
    \/ LoopReceive(g)
    \/ LoopThrows(g)
    \/ \E r \in Requests : FailOne(g, r)
    \/ LoopFailed(g)
    \/ LoopCancelled(g)

DisconnectStep ==
    \/ \E r \in Requests : CancelOne(r)
    \/ AwaitLoop
    \/ CloseConnection
    \/ ClearAgain
    \/ Disconnected

Next ==
    \/ SocketDies
    \/ \E frame \in Requests \cup {Chat, Bad} : Arrive(frame)
    \/ Connect
    \/ \E r \in Requests : Check(r) \/ CallStep(r) \/ CancelRequest(r)
    \/ \E g \in Connection : LoopStep(g)
    \/ Disconnect
    \/ DisconnectStep

Spec == Init /\ [][Next]_vars

(***************************************************************************)
(* Fairness: the thread pool runs what is ready, and a send ends.  Nothing *)
(* is assumed of the core, the network or the user.                        *)
(***************************************************************************)
Fairness ==
    /\ \A r \in Requests : WF_vars(CallStep(r))
    /\ \A g \in Connection : WF_vars(LoopStep(g))
    /\ WF_vars(DisconnectStep)

FairSpec == Spec /\ Fairness

-----------------------------------------------------------------------------
(* Properties.                                                             *)

Waiting(r) == call[r] = "waiting" /\ completion[r] = "none"

\* The dictionary holds no entry of a call that is over, however it ended, and a
\* request that still waits for its answer can be found there.
PendingIsExact ==
    \A r \in Requests :
        /\ r \in pending => call[r] \in InCall /\ completion[r] = "none"
        /\ Waiting(r) => r \in pending

\* A caller gets a message only if it is the core's answer to its own request.
AnswersAreOwn == \A r \in Requests : completion[r] = "result" => r \in answered

\* Once DisconnectAsync is over nobody waits for an answer, although requests may be
\* registered and sent while it runs.
DisconnectLeavesNone == task = 0 /\ disconnect = "idle" => \A r \in Requests : ~Waiting(r)

\* A request that is pending when DisconnectAsync begins comes to an end.
DisconnectFrees ==
    \A r \in Requests : (disconnect = "cancelling" /\ r \in pending) ~> call[r] \in Ends

\* Whoever waits for the gate gets through it, or is cancelled: no send that failed or was
\* cancelled keeps it, which would block every later request for good.
GateComesBack == \A r \in Requests : call[r] = "gate" ~> call[r] # "gate"

\* A request waits only as long as there is a loop to complete it.
ReceiveFailureReachesAll ==
    disconnect = "idle" /\ (\A g \in Connection : loop[g] \in {"none", "ended"})
        => \A r \in Requests : ~Waiting(r)
=============================================================================
