-------------------------- MODULE AgentClient_proofs --------------------------
(***************************************************************************)
(* Proofs about AgentClient for any number of requests, connections and    *)
(* frames under way.                                                       *)
(***************************************************************************)
EXTENDS AgentClient, SequenceTheorems, TLAPS

-----------------------------------------------------------------------------
(* Frames.                                                                 *)

Frame == Requests \cup {Chat, Bad}

\* Receiving takes a frame off the front of the inbox; the others were there before.
LEMMA TailType ==
    ASSUME NEW q \in Seq(Frame), q # <<>>
    PROVE  /\ Head(q) \in Frame
           /\ Tail(q) \in Seq(Frame)
           /\ Len(Tail(q)) <= Len(q)
           /\ Head(q) = q[1] /\ 1 \in DOMAIN q
           /\ \A i \in DOMAIN Tail(q) : i + 1 \in DOMAIN q /\ Tail(q)[i] = q[i + 1]
  BY HeadTailProperties

\* An arriving frame comes behind those that wait.
LEMMA AppendType ==
    ASSUME NEW q \in Seq(Frame), NEW f \in Frame
    PROVE  /\ Append(q, f) \in Seq(Frame)
           /\ Len(Append(q, f)) = Len(q) + 1
           /\ \A i \in DOMAIN Append(q, f) :
                 \/ i \in DOMAIN q /\ Append(q, f)[i] = q[i]
                 \/ Append(q, f)[i] = f
  BY AppendProperties

\* The frames under way are lost with the socket.
LEMMA NoFrames == <<>> \in Seq(Frame) /\ Len(<<>>) = 0 /\ DOMAIN <<>> = {}
  OBVIOUS

\* What an inbox is
Inbox(q) == q \in Seq(Frame) /\ Len(q) <= MaxInbox

\* An inbox stays one when it is emptied, and when its first frame is received.
LEMMA InboxShrinks ==
    /\ Inbox(<<>>)
    /\ \A q : Inbox(q) /\ q # <<>> => Inbox(Tail(q))
  <1>1. Inbox(<<>>)
    BY NoFrames, ClientAssumption DEF Inbox
  <1>2. ASSUME NEW q, Inbox(q), q # <<>> PROVE Inbox(Tail(q))
    <2>1. q \in Seq(Frame) /\ Len(q) <= MaxInbox
      BY <1>2 DEF Inbox
    <2>2. Tail(q) \in Seq(Frame) /\ Len(Tail(q)) <= Len(q)
      BY <1>2, <2>1, TailType
    <2>3. Len(q) \in Nat /\ Len(Tail(q)) \in Nat /\ MaxInbox \in Nat
      BY <2>1, <2>2, LenProperties, ClientAssumption
    <2>4. Len(Tail(q)) <= MaxInbox
      BY <2>1, <2>2, <2>3
    <2> QED BY <2>2, <2>4 DEF Inbox
  <1> QED BY <1>1, <1>2

-----------------------------------------------------------------------------
(* Types.                                                                  *)

\* No operation of the callers, the loops or DisconnectAsync leaves the ranges of the
\* shared state; in particular the inbox never exceeds its bound.
LEMMA TypeStep == TypeOK /\ [Next]_vars => TypeOK'
  <1> SUFFICES ASSUME TypeOK, [Next]_vars PROVE TypeOK'
    OBVIOUS
  <1> USE DEF TypeOK
  <1>a. inbox \in Seq(Frame)
    BY DEF Frame
  <1>b. MaxInbox \in Nat /\ MaxConnections \in Nat
    BY ClientAssumption
  <1>c. ASSUME CloseSocket PROVE /\ open' \in BOOLEAN /\ current' \in 0..MaxConnections
                                 /\ inbox' \in Seq(Requests \cup {Chat, Bad})
                                 /\ Len(inbox') <= MaxInbox
                                 /\ sent' \in SUBSET Requests
    <2>1. inbox' \in Seq(Requests \cup {Chat, Bad}) /\ Len(inbox') <= MaxInbox
      BY <1>c, InboxShrinks DEF CloseSocket, Inbox, Frame
    <2> QED BY <1>c, <2>1 DEF CloseSocket
  <1>1. CASE UNCHANGED vars
    BY <1>1 DEF vars, socketVars, loopVars, callVars, disconnectVars
  <1>2. CASE SocketDies
    BY <1>2, <1>c DEF SocketDies, loopVars, callVars, disconnectVars
  <1>3. ASSUME NEW f \in Requests \cup {Chat, Bad}, Arrive(f) PROVE TypeOK'
    <2>1. inbox' \in Seq(Requests \cup {Chat, Bad}) /\ Len(inbox') <= MaxInbox
      BY <1>3, <1>a, <1>b, AppendType, LenProperties DEF Arrive, Frame
    <2> QED BY <1>3, <2>1 DEF Arrive, loopVars, callVars, disconnectVars
  <1>4. CASE Connect
    <2>1. current' \in 0..MaxConnections /\ current' \in Connection
      BY <1>4, <1>b DEF Connect, Connection
    <2> QED BY <1>4, <2>1 DEF Connect, callVars, disconnectVars
  <1>5. ASSUME NEW r \in Requests, Check(r) \/ CallStep(r) PROVE TypeOK'
    BY <1>5 DEF Check, CallStep, Register, TakeGate, Send, Awake, Catch, Forget, Moves, InCall,
                Ends, GateAfterFailure, socketVars, loopVars, disconnectVars
  <1>6. ASSUME NEW r \in Requests, CancelRequest(r) PROVE TypeOK'
    <2>1. /\ pending' \in SUBSET Requests
          /\ completion' \in [Requests -> {"none", "result", "exception", "canceled"}]
      BY <1>6 DEF CancelRequest, Complete
    <2>2. /\ open' \in BOOLEAN /\ current' \in 0..MaxConnections
          /\ inbox' \in Seq(Requests \cup {Chat, Bad})
          /\ Len(inbox') <= MaxInbox
          /\ sent' \in SUBSET Requests
      BY <1>6, <1>c DEF CancelRequest, socketVars
    <2>3. /\ call' \in [Requests -> {"idle", "checked"} \cup InCall \cup Ends]
          /\ gate' \in Requests \cup {NoRequest}
      BY <1>6 DEF CancelRequest, Moves, InCall, Ends, GateAfterFailure
    <2> QED BY <1>6, <2>1, <2>2, <2>3 DEF CancelRequest, loopVars, disconnectVars
  <1>7. ASSUME NEW g \in Connection, LoopStep(g) PROVE TypeOK'
    <2>1. CASE LoopCheck(g)
      BY <2>1 DEF LoopCheck, LoopMoves, socketVars, callVars, disconnectVars
    <2>2. CASE LoopReceive(g) \/ LoopThrows(g)
      <3>1. inbox' \in Seq(Requests \cup {Chat, Bad}) /\ Len(inbox') <= MaxInbox
        <4>1. Inbox(inbox)
          BY <1>a DEF Inbox
        <4>2. inbox' = inbox \/ (inbox # <<>> /\ inbox' = Tail(inbox))
          BY <2>2 DEF LoopReceive, LoopThrows
        <4>3. Inbox(inbox')
          BY <4>1, <4>2, InboxShrinks
        <4> QED BY <4>3 DEF Inbox, Frame
      <3>2. /\ pending' \in SUBSET Requests
            /\ completion' \in [Requests -> {"none", "result", "exception", "canceled"}]
        BY <2>2 DEF LoopReceive, LoopThrows, Complete
      <3> QED BY <2>2, <3>1, <3>2 DEF LoopReceive, LoopThrows, LoopMoves, callVars, disconnectVars
    <2>3. ASSUME NEW r \in Requests, FailOne(g, r) PROVE TypeOK'
      BY <2>3 DEF FailOne, Complete, socketVars, loopVars, callVars, disconnectVars
    <2>4. CASE LoopFailed(g)
      BY <2>4 DEF LoopFailed, LoopMoves, socketVars, callVars, disconnectVars
    <2>5. CASE LoopCancelled(g)
      BY <1>c, <2>5 DEF LoopCancelled, LoopMoves, socketVars, callVars, disconnectVars
    <2> QED BY <1>7, <2>1, <2>2, <2>3, <2>4, <2>5 DEF LoopStep
  <1>8. CASE Disconnect
    BY <1>8 DEF Disconnect, DisconnectMoves, LeftOver, socketVars, callVars
  <1>9. ASSUME NEW r \in Requests, CancelOne(r) PROVE TypeOK'
    BY <1>9 DEF CancelOne, Complete, socketVars, loopVars, callVars, disconnectVars
  <1>10. CASE AwaitLoop \/ CloseConnection \/ ClearAgain \/ Disconnected
    BY <1>10, <1>b, <1>c DEF AwaitLoop, CloseConnection, ClearAgain, Disconnected,
       DisconnectMoves, LeftOver, socketVars, loopVars, callVars
  <1> QED BY <1>1, <1>2, <1>3, <1>4, <1>5, <1>6, <1>7, <1>8, <1>9, <1>10
          DEF Next, DisconnectStep

\* A client that has not connected is well typed.
LEMMA TypeInit == Init => TypeOK
  <1> SUFFICES ASSUME Init PROVE TypeOK
    OBVIOUS
  <1>1. inbox \in Seq(Requests \cup {Chat, Bad}) /\ Len(inbox) <= MaxInbox
    BY InboxShrinks DEF Init, Inbox, Frame
  <1>2. MaxConnections \in Nat
    BY ClientAssumption
  <1>3. 0 \in 0..MaxConnections
    BY <1>2
  <1>4. current \in 0..MaxConnections /\ task \in 0..MaxConnections
    BY <1>3 DEF Init
  <1>5. on \in [Connection -> 0..MaxConnections]
    BY <1>3 DEF Init
  <1>6. /\ loop \in [Connection -> {"none", "checking", "receiving", "failing", "ended"}]
        /\ token \in [Connection -> BOOLEAN]
        /\ todo \in [Connection -> SUBSET Requests]
        /\ completion \in [Requests -> {"none", "result", "exception", "canceled"}]
        /\ call \in [Requests -> {"idle", "checked"} \cup InCall \cup Ends]
    BY DEF Init
  <1> QED BY <1>1, <1>4, <1>5, <1>6 DEF Init, TypeOK

\* Every reachable state of the client is well typed.
THEOREM TypeCorrect == Spec => []TypeOK
  BY TypeInit, TypeStep, PTL DEF Spec

-----------------------------------------------------------------------------
(* The dictionary of pending requests.                                     *)

\* Each request is completed by whoever removes its entry, and by nobody else; an entry
\* is only there while the call is.  This is PendingIsExact, and for a call that does
\* not wait yet too: it may be completed before it is sent.
PendingInv ==
    \A r \in Requests :
        /\ r \in pending => call[r] \in InCall /\ completion[r] = "none"
        /\ call[r] \in {"idle", "checked"} => completion[r] = "none"
        /\ call[r] \in {"gate", "sending", "waiting"} /\ completion[r] = "none"
               => r \in pending

\* Completing one request takes its entry away, and leaves the others alone.
LEMMA CompleteKeeps ==
    ASSUME TypeOK, PendingInv, NEW r \in pending, NEW how \in {"result", "exception", "canceled"},
           Complete(r, how), UNCHANGED call
    PROVE  PendingInv'
  BY DEF Complete, PendingInv, TypeOK, InCall

\* Every operation of the callers, the loops and DisconnectAsync keeps the dictionary
\* exact.
LEMMA PendingStep == TypeOK /\ PendingInv /\ [Next]_vars => PendingInv'
  <1> SUFFICES ASSUME TypeOK, PendingInv, [Next]_vars PROVE PendingInv'
    OBVIOUS
  <1>1. ASSUME UNCHANGED <<pending, completion, call>> PROVE PendingInv'
    BY <1>1 DEF PendingInv
  <1>2. CASE UNCHANGED vars
    BY <1>1, <1>2 DEF vars, callVars
  <1>3. CASE SocketDies \/ Connect \/ Disconnect
    BY <1>1, <1>3 DEF SocketDies, Connect, Disconnect, callVars
  <1>4. ASSUME NEW f \in Requests \cup {Chat, Bad}, Arrive(f) PROVE PendingInv'
    BY <1>1, <1>4 DEF Arrive, callVars
  <1>5. ASSUME NEW r \in Requests, Check(r) \/ CallStep(r) PROVE PendingInv'
    <2>1. CASE Check(r)
      BY <2>1 DEF Check, Moves, PendingInv, TypeOK, InCall
    <2>2. CASE Register(r)
      BY <2>2 DEF Register, Moves, PendingInv, TypeOK, InCall
    <2>3. CASE TakeGate(r)
      BY <2>3 DEF TakeGate, Moves, PendingInv, TypeOK, InCall
    <2>4. CASE Send(r)
      BY <2>4 DEF Send, Moves, PendingInv, TypeOK, InCall
    <2>5. CASE Awake(r)
      BY <2>5 DEF Awake, Moves, PendingInv, TypeOK, InCall
    <2>6. CASE Catch(r)
      BY <2>6 DEF Catch, Forget, Moves, PendingInv, TypeOK, InCall
    <2> QED BY <1>5, <2>1, <2>2, <2>3, <2>4, <2>5, <2>6 DEF CallStep
  <1>6. ASSUME NEW r \in Requests, CancelRequest(r) PROVE PendingInv'
    BY <1>6 DEF CancelRequest, Complete, Moves, PendingInv, TypeOK, InCall
  <1>7. ASSUME NEW g \in Connection, LoopStep(g) PROVE PendingInv'
    <2>1. CASE LoopReceive(g)
      BY <1>1, <2>1, CompleteKeeps DEF LoopReceive, Answers, callVars
    <2>2. ASSUME NEW r \in Requests, FailOne(g, r) PROVE PendingInv'
      BY <2>2, CompleteKeeps DEF FailOne, callVars
    <2>3. CASE LoopCheck(g) \/ LoopThrows(g) \/ LoopFailed(g) \/ LoopCancelled(g)
      BY <1>1, <2>3 DEF LoopCheck, LoopThrows, LoopFailed, LoopCancelled, callVars
    <2> QED BY <1>7, <2>1, <2>2, <2>3 DEF LoopStep
  <1>8. ASSUME NEW r \in Requests, CancelOne(r) PROVE PendingInv'
    BY <1>8, CompleteKeeps DEF CancelOne, callVars
  <1>9. CASE AwaitLoop \/ CloseConnection \/ ClearAgain \/ Disconnected
    BY <1>1, <1>9 DEF AwaitLoop, CloseConnection, ClearAgain, Disconnected, callVars
  <1> QED BY <1>2, <1>3, <1>4, <1>5, <1>6, <1>7, <1>8, <1>9 DEF Next, DisconnectStep

\* Every reachable dictionary is exact in this sense.
LEMMA PendingInvHolds == Spec => [](TypeOK /\ PendingInv)
  <1>1. Init => PendingInv
    BY DEF Init, PendingInv
  <1> QED BY <1>1, TypeInit, TypeStep, PendingStep, PTL DEF Spec

\* Answers, cancellations, failing loops, disconnects and the callers' own clean-up race
\* for the same entries: none is left of a call that is over, and none is missing of a
\* request that waits.
THEOREM PendingIsExactHolds == Spec => []PendingIsExact
  <1>1. PendingInv => PendingIsExact
    BY DEF PendingInv, PendingIsExact, Waiting
  <1> QED BY <1>1, PendingInvHolds, PTL

-----------------------------------------------------------------------------
(* Answers.                                                                *)

\* What waits to be received under the id of a request is the core's answer to it.
AnswersInv ==
    /\ AnswersAreOwn
    /\ \A i \in DOMAIN inbox : inbox[i] \in Requests => inbox[i] \in answered

\* No operation makes up an answer: a frame enters the inbox when the core sends it, and
\* a completion with a result takes the frame of its own id.
LEMMA AnswersStep == TypeOK /\ AnswersInv /\ [Next]_vars => AnswersInv'
  <1> SUFFICES ASSUME TypeOK, AnswersInv, [Next]_vars PROVE AnswersInv'
    OBVIOUS
  <1>1. ASSUME UNCHANGED <<completion, answered>>, inbox' = inbox \/ inbox' = <<>>
        PROVE  AnswersInv'
    BY <1>1, NoFrames DEF AnswersInv, AnswersAreOwn
  <1>2. inbox \in Seq(Frame)
    BY DEF TypeOK, Frame
  <1>3. CASE UNCHANGED vars
    BY <1>1, <1>3 DEF vars, socketVars
  <1>4. CASE SocketDies \/ Connect \/ Disconnect
    BY <1>1, <1>4 DEF SocketDies, CloseSocket, Connect, Disconnect, socketVars
  <1>5. ASSUME NEW f \in Requests \cup {Chat, Bad}, Arrive(f) PROVE AnswersInv'
    <2>1. \A i \in DOMAIN inbox' : \/ i \in DOMAIN inbox /\ inbox'[i] = inbox[i]
                                \/ inbox'[i] = f
      BY <1>2, <1>5, AppendType DEF Arrive, Frame
    <2> QED BY <1>5, <2>1 DEF Arrive, AnswersInv, AnswersAreOwn
  <1>6. ASSUME NEW r \in Requests, Check(r) \/ CallStep(r) PROVE AnswersInv'
    BY <1>1, <1>6 DEF Check, CallStep, Register, TakeGate, Send, Awake, Catch, socketVars
  <1>7. ASSUME NEW r \in Requests, NEW how \in {"exception", "canceled"}, Complete(r, how),
               UNCHANGED answered, inbox' = inbox \/ inbox' = <<>>
        PROVE  AnswersInv'
    BY <1>7, NoFrames DEF Complete, AnswersInv, AnswersAreOwn, TypeOK
  <1>8. ASSUME NEW r \in Requests, CancelRequest(r) PROVE AnswersInv'
    BY <1>1, <1>7, <1>8 DEF CancelRequest, CloseSocket, socketVars
  <1>9. ASSUME NEW g \in Connection, LoopStep(g) PROVE AnswersInv'
    <2>1. ASSUME inbox # <<>>, inbox' = Tail(inbox)
          PROVE  /\ \A i \in DOMAIN inbox' : inbox'[i] \in Requests => inbox'[i] \in answered
                 /\ Head(inbox) \in Requests => Head(inbox) \in answered
      BY <1>2, <2>1, TailType DEF AnswersInv
    <2>2. CASE LoopReceive(g)
      BY <2>1, <2>2 DEF LoopReceive, Answers, Complete, AnswersInv, AnswersAreOwn, TypeOK
    <2>3. CASE LoopThrows(g)
      BY <1>1, <2>1, <2>3 DEF LoopThrows, AnswersInv, AnswersAreOwn
    <2>4. ASSUME NEW r \in Requests, FailOne(g, r) PROVE AnswersInv'
      BY <1>7, <2>4 DEF FailOne, socketVars
    <2>5. CASE LoopCheck(g) \/ LoopFailed(g) \/ LoopCancelled(g)
      BY <1>1, <2>5 DEF LoopCheck, LoopFailed, LoopCancelled, CloseSocket, socketVars
    <2> QED BY <1>9, <2>2, <2>3, <2>4, <2>5 DEF LoopStep
  <1>10. ASSUME NEW r \in Requests, CancelOne(r) PROVE AnswersInv'
    BY <1>7, <1>10 DEF CancelOne, socketVars
  <1>11. CASE AwaitLoop \/ CloseConnection \/ ClearAgain \/ Disconnected
    BY <1>1, <1>11 DEF AwaitLoop, CloseConnection, CloseSocket, ClearAgain, Disconnected,
                       socketVars
  <1> QED BY <1>3, <1>4, <1>5, <1>6, <1>8, <1>9, <1>10, <1>11 DEF Next, DisconnectStep

\* However answers are repeated, late or overtaken by a new connection, a caller is only
\* given what the core answered to its own request.
THEOREM AnswersAreOwnHolds == Spec => []AnswersAreOwn
  <1>1. Init => AnswersInv
    BY NoFrames DEF Init, AnswersInv, AnswersAreOwn
  <1>2. AnswersInv => AnswersAreOwn
    BY DEF AnswersInv
  <1> QED BY <1>1, <1>2, TypeCorrect, AnswersStep, PTL DEF Spec

-----------------------------------------------------------------------------
(* Disconnecting.                                                          *)
(*                                                                         *)
(* DisconnectAsync cancels what is pending before and after it closes the  *)
(* connection.  The first pass cannot be enough: requests register and are *)
(* sent until the socket is closed.  From then on nothing is sent, so what *)
(* waits was pending when the second pass began.                           *)

\* From the closing of the connection to the next ConnectAsync
ShutOff == disconnect \in {"closing", "clearing"} \/ (disconnect = "idle" /\ task = 0)

DisconnectInv ==
    /\ ShutOff => ~open
    /\ disconnect = "clearing" => \A r \in Requests : Waiting(r) => r \in clearing
    /\ DisconnectLeavesNone

\* An operation that opens no socket, and neither begins nor ends a phase of
\* DisconnectAsync, keeps the invariant unless it makes a request wait.
LEMMA NothingSent ==
    ASSUME DisconnectInv, UNCHANGED <<disconnect, clearing, task>>, open' => open,
           \A r \in Requests : Waiting(r)' => Waiting(r)
    PROVE  DisconnectInv'
  BY DEF DisconnectInv, DisconnectLeavesNone, ShutOff

\* No operation sends between the closing of the connection and the next one, and the
\* second pass leaves none of those that wait.
LEMMA DisconnectInvStep ==
    TypeOK /\ PendingInv /\ DisconnectInv /\ [Next]_vars => DisconnectInv'
  <1> SUFFICES ASSUME TypeOK, PendingInv, DisconnectInv, [Next]_vars PROVE DisconnectInv'
    OBVIOUS
  <1>1. ASSUME UNCHANGED <<call, completion>> PROVE \A r \in Requests : Waiting(r)' => Waiting(r)
    BY <1>1 DEF Waiting
  <1>2. ASSUME NEW r \in Requests, NEW how \in {"result", "exception", "canceled"},
               Complete(r, how), UNCHANGED call
        PROVE  \A s \in Requests : Waiting(s)' => Waiting(s)
    BY <1>2 DEF Complete, Waiting, TypeOK
  <1>3. CASE UNCHANGED vars
    BY <1>1, <1>3, NothingSent DEF vars, socketVars, loopVars, callVars, disconnectVars
  <1>4. CASE SocketDies
    BY <1>1, <1>4, NothingSent DEF SocketDies, CloseSocket, loopVars, callVars, disconnectVars
  <1>5. ASSUME NEW f \in Requests \cup {Chat, Bad}, Arrive(f) PROVE DisconnectInv'
    BY <1>1, <1>5, NothingSent DEF Arrive, loopVars, callVars, disconnectVars
  <1>6. CASE Connect
    <2>1. task' # 0 /\ disconnect' = "idle"
      BY <1>6 DEF Connect, TypeOK, disconnectVars
    <2> QED BY <2>1 DEF DisconnectInv, DisconnectLeavesNone, ShutOff
  <1>7. ASSUME NEW r \in Requests, Check(r) \/ CallStep(r) PROVE DisconnectInv'
    <2>1. UNCHANGED <<disconnect, clearing, task, open>>
      BY <1>7 DEF Check, CallStep, Register, TakeGate, Send, Awake, Catch, socketVars, loopVars,
                  disconnectVars
    <2>2. CASE Send(r)
      <3>1. CASE ShutOff
        <4>1. \A s \in Requests : Waiting(s)' => Waiting(s)
          BY <2>2, <3>1 DEF DisconnectInv, Send, Moves, Waiting, TypeOK
        <4> QED BY <2>1, <4>1, NothingSent
      <3>2. CASE ~ShutOff
        BY <2>1, <3>2 DEF DisconnectInv, DisconnectLeavesNone, ShutOff
      <3> QED BY <3>1, <3>2
    <2>3. CASE ~Send(r)
      <3>1. \A s \in Requests : Waiting(s)' => Waiting(s)
        BY <1>7, <2>3 DEF Check, CallStep, Register, TakeGate, Awake, Catch, Moves, Waiting,
                          TypeOK
      <3> QED BY <2>1, <3>1, NothingSent
    <2> QED BY <2>2, <2>3
  <1>8. ASSUME NEW r \in Requests, CancelRequest(r) PROVE DisconnectInv'
    <2>1. \A s \in Requests : Waiting(s)' => Waiting(s)
      BY <1>8 DEF CancelRequest, Complete, Moves, Waiting, TypeOK
    <2>2. UNCHANGED <<disconnect, clearing, task>> /\ (open' => open)
      BY <1>8 DEF CancelRequest, CloseSocket, socketVars, loopVars, disconnectVars
    <2> QED BY <2>1, <2>2, NothingSent
  <1>9. ASSUME NEW g \in Connection, LoopStep(g) PROVE DisconnectInv'
    <2>1. UNCHANGED <<disconnect, clearing, task>> /\ (open' => open)
      BY <1>9 DEF LoopStep, LoopCheck, LoopReceive, LoopThrows, FailOne, LoopFailed,
                  LoopCancelled, CloseSocket, socketVars, loopVars, disconnectVars
    <2>2. \A s \in Requests : Waiting(s)' => Waiting(s)
      BY <1>1, <1>2, <1>9 DEF LoopStep, LoopCheck, LoopReceive, LoopThrows, FailOne, LoopFailed,
                  LoopCancelled, callVars
    <2> QED BY <2>1, <2>2, NothingSent
  <1>10. CASE Disconnect
    BY <1>10 DEF Disconnect, DisconnectMoves, DisconnectInv, DisconnectLeavesNone, ShutOff
  <1>11. ASSUME NEW r \in Requests, CancelOne(r) PROVE DisconnectInv'
    BY <1>2, <1>11, NothingSent DEF CancelOne, socketVars, loopVars, callVars, disconnectVars
  <1>12. CASE AwaitLoop
    BY <1>12 DEF AwaitLoop, DisconnectMoves, DisconnectInv, DisconnectLeavesNone, ShutOff
  <1>13. CASE CloseConnection
    BY <1>13 DEF CloseConnection, CloseSocket, DisconnectMoves, DisconnectInv,
                 DisconnectLeavesNone, ShutOff
  <1>14. CASE ClearAgain
    <2>1. ~open' /\ disconnect' = "clearing" /\ clearing' = pending
      BY <1>14 DEF ClearAgain, DisconnectMoves, LeftOver, DisconnectInv, ShutOff, socketVars
    <2>2. \A r \in Requests : Waiting(r)' => r \in pending
      BY <1>14 DEF ClearAgain, callVars, PendingInv, Waiting
    <2> QED BY <2>1, <2>2 DEF DisconnectInv, DisconnectLeavesNone
  <1>15. CASE Disconnected
    <2>1. ~open' /\ disconnect' = "idle"
      BY <1>15 DEF Disconnected, DisconnectMoves, DisconnectInv, ShutOff, socketVars
    <2>2. \A r \in Requests : ~Waiting(r)
      BY <1>15 DEF Disconnected, DisconnectMoves, Cleared, DisconnectInv, PendingInv, Waiting
    <2>3. \A r \in Requests : ~Waiting(r)'
      BY <1>15, <2>2 DEF Disconnected, callVars, Waiting
    <2> QED BY <2>1, <2>3 DEF DisconnectInv, DisconnectLeavesNone
  <1> QED BY <1>3, <1>4, <1>5, <1>6, <1>7, <1>8, <1>9, <1>10, <1>11, <1>12, <1>13, <1>14, <1>15
          DEF Next, DisconnectStep

\* When DisconnectAsync is over nobody waits for an answer, although requests register and
\* are sent while it runs, and whatever the core and the network do.
THEOREM DisconnectLeavesNoneHolds == Spec => []DisconnectLeavesNone
  <1>1. Init => DisconnectInv
    BY DEF Init, DisconnectInv, ShutOff, DisconnectLeavesNone, Waiting
  <1>2. DisconnectInv => DisconnectLeavesNone
    BY DEF DisconnectInv
  <1> QED BY <1>1, <1>2, PendingInvHolds, DisconnectInvStep, PTL DEF Spec
===============================================================================
