--------------------------- MODULE AgentCore_proofs ---------------------------
(***************************************************************************)
(* Proofs about AgentCore for any number of connections, memories, frames  *)
(* and limits.                                                             *)
(***************************************************************************)
EXTENDS AgentCore, SequenceTheorems, FiniteSetTheorems, TLAPS

-----------------------------------------------------------------------------
(* Frames and turns.                                                       *)

Steps == {"none", "idle", "list", "list_own", "read", "generate", "extract", "learn",
          "govern", "reply", "ended"}
ChatSteps == {"list", "list_own", "read", "generate", "extract", "learn"}

\* The steps between the receipt of a frame and its reply
Busy == ChatSteps \cup {"govern", "reply"}

Chats == {"chat", "unlearnable"}
Uses == {"delete", "use"}

\* What a client may send is of one of six kinds.
LEMMA FrameKinds ==
    ASSUME NEW f \in Frame
    PROVE  /\ f.kind \in {"chat", "bad", "untyped", "unlearnable", "delete", "use"}
           /\ f.kind \in Uses => f.memory \in Memories
  BY CoreAssumption DEF Frame, Uses

\* At, Replying and Escaped make turns.
LEMMA TurnsMade ==
    /\ \A step \in Steps : /\ At(step) \in Turn
                           /\ At(step).step = step
                           /\ At(step).todo = {} /\ At(step).context = {}
    /\ \A reply \in ReplyKind : /\ Replying(reply) \in Turn
                                /\ Replying(reply).step = "reply"
                                /\ Replying(reply).todo = {} /\ Replying(reply).context = {}
                                /\ Replying(reply).reply = reply
    /\ Escaped \in Turn
    /\ Escaped.step = "ended" /\ Escaped.todo = {} /\ Escaped.context = {}
  BY DEF At, Replying, Escaped, Turn, Steps

\* A handler's turn changes no other handler's.
LEMMA BecomesOne ==
    ASSUME turn \in [Connections -> Turn], NEW c \in Connections, NEW new \in Turn,
           Becomes(c, new)
    PROVE  /\ turn' \in [Connections -> Turn]
           /\ turn'[c] = new
           /\ \A d \in Connections : d # c => turn'[d] = turn[d]
  BY DEF Becomes

\* Which turn may be made of which frame
Fits(t, f) ==
    /\ t.step \in ChatSteps => f.kind \in Chats
    /\ t.step = "govern" => f.kind \in Uses
    /\ t.step = "reply" => t.reply \in Answers(f)

\* What a frame may be answered with, by its kind
LEMMA AnswersOf ==
    ASSUME NEW f \in Frame
    PROVE  /\ f.kind = "bad" => Answers(f) = {"error"}
           /\ f.kind \in Chats => Answers(f) = {"response", "provider_error"}
           /\ f.kind \in Uses => Answers(f) = {"result", "memory_error"}
           /\ Answers(f) \subseteq ReplyKind
  BY FrameKinds DEF Answers, Chats, Uses, ReplyKind

\* The memories a prompt may speak of
Permitted == {m \in Memories : Scope[m] # "foreign"}

\* A prompt within its limits
Prompt(context) ==
    /\ context \subseteq Permitted
    /\ IsFiniteSet(context)
    /\ \A s \in Scopes : Cardinality({m \in context : Scope[m] = s}) <= Limit

\* An empty prompt is within any limits.
LEMMA EmptyPrompt == \A context : context = {} => Prompt(context)
  <1>0. SUFFICES Prompt({})
    OBVIOUS
  <1>1. \A s \in Scopes : {m \in {} : Scope[m] = s} = {}
    OBVIOUS
  <1>2. Limit \in Nat
    BY CoreAssumption
  <1> QED BY <1>1, <1>2, FS_EmptySet DEF Prompt

\* A memory that finds room joins the prompt.
LEMMA PromptGrows ==
    ASSUME NEW context, Prompt(context), NEW m \in Permitted, HasRoom(context, m)
    PROVE  Prompt(context \cup {m})
  <1> DEFINE Of(s) == {n \in context : Scope[n] = s}
             New(s) == {n \in context \cup {m} : Scope[n] = s}
  <1>1. IsFiniteSet(context) /\ Limit \in Nat /\ context \cup {m} \subseteq Permitted
    BY CoreAssumption DEF Prompt
  <1>2. IsFiniteSet(context \cup {m})
    BY <1>1, FS_AddElement
  <1>3. ASSUME NEW s \in Scopes PROVE Cardinality(New(s)) <= Limit
    <2>1. IsFiniteSet(Of(s)) /\ Cardinality(Of(s)) \in Nat
      BY <1>1, FS_Subset, FS_CardinalityType
    <2>2. CASE Scope[m] # s
      <3>1. New(s) = Of(s)
        BY <2>2
      <3> QED BY <3>1 DEF Prompt
    <2>3. CASE Scope[m] = s
      <3>1. New(s) = Of(s) \cup {m}
        BY <2>3
      <3>2. Cardinality(Of(s)) < Limit
        BY <2>3 DEF HasRoom
      <3>3. Cardinality(New(s)) <= Cardinality(Of(s)) + 1
        <4> HIDE DEF Of, New
        <4>1. \/ Cardinality(Of(s) \cup {m}) = Cardinality(Of(s))
              \/ Cardinality(Of(s) \cup {m}) = Cardinality(Of(s)) + 1
          BY <2>1, FS_AddElement
        <4> QED BY <2>1, <3>1, <4>1
      <3>4. IsFiniteSet(New(s))
        BY <1>2, FS_Subset
      <3>5. Cardinality(New(s)) \in Nat
        BY <3>4, FS_CardinalityType
      <3> QED BY <1>1, <2>1, <3>2, <3>3, <3>5
    <2> QED BY <2>2, <2>3
  <1> QED BY <1>1, <1>2, <1>3 DEF Prompt

-----------------------------------------------------------------------------
(* The inductive invariant.                                                *)

\* How far the handler of c is with what its client has sent: everything before the frame
\* it is at has been answered, and its turn is one of that frame.
FramesInOrder(c) ==
    /\ taken[c] <= Len(arrived[c])
    /\ Len(sent[c]) <= taken[c]
    /\ \A i \in 1..Len(sent[c]) : sent[c][i] \in Answers(arrived[c][i])
    /\ turn[c].step \in {"none", "idle"} => Len(sent[c]) = taken[c]
    /\ turn[c].step \in Busy => Len(sent[c]) + 1 = taken[c] /\ Fits(turn[c], Request(c))

\* Whatever it has read is permitted.
TurnIsPermitted(c) == turn[c].todo \subseteq Permitted /\ Prompt(turn[c].context)

\* A deletion whose confirmation is under way, or out, has been committed.
Truthful(c) ==
    /\ \A i \in 1..Len(sent[c]) :
          arrived[c][i].kind = "delete" /\ sent[c][i] = "result"
              => store[arrived[c][i].memory] = "deleted"
    /\ turn[c].step = "reply" /\ turn[c].reply = "result" /\ Request(c).kind = "delete"
           => store[Request(c).memory] = "deleted"

\* Which turns there may be before a connection is accepted, and which main.run leaves to
\* the stages that close the bus and the provider
RuntimeOutlivesTurns ==
    /\ \A c \in Connections : socket[c] = "none" => turn[c].step = "none"
    /\ runtime = "starting" => \A c \in Connections : turn[c].step = "none"
    /\ runtime \in {"closing_bus", "closing_provider", "ended"}
           => \A c \in Connections : turn[c].step \in {"none", "ended"}

Handling(c) == FramesInOrder(c) /\ TurnIsPermitted(c) /\ Truthful(c)

CoreInv ==
    /\ TypeOK
    /\ \A c \in Connections : Handling(c)
    /\ FailuresAreIsolated
    /\ HealthIsCurrent
    /\ RuntimeOutlivesTurns

-----------------------------------------------------------------------------
(* What a handler does between a frame and its reply.                      *)

InnerStep(c) ==
    \/ ListGlobal(c) \/ ListOwn(c) \/ ReadMemory(c) \/ Retrieved(c) \/ RetrievalFails(c)
    \/ ProviderAnswers(c) \/ ProviderFails(c) \/ ProviderRaises(c)
    \/ Extracted(c) \/ LearnCandidate(c) \/ Learned(c) \/ LearningFails(c)
    \/ GovernanceDone(c) \/ GovernanceRefuses(c) \/ GovernanceFails(c)

\* What may become of a turn that is at the frame f
Continues(old, new, f) ==
    /\ new \in Turn
    /\ \/ new.step \in Busy /\ Fits(new, f)
       \/ new.step = "ended" /\ f.kind = "unlearnable"
       \/ new = Escaped /\ f.kind \in Chats
    /\ new.todo \subseteq Permitted /\ Prompt(new.context)

\* What the store may become: a deleted memory stays deleted, and no memory but an ACTIVE
\* one is deleted.
StoreMoves ==
    /\ store' \in [Memories -> {"absent", "active", "deleted"}]
    /\ \A m \in Memories : store[m] = "deleted" => store'[m] = "deleted"

\* A turn under way has a frame, which was received and is not answered yet.
LEMMA RequestIsFrame ==
    ASSUME TypeOK, NEW c \in Connections, FramesInOrder(c), turn[c].step \in Busy
    PROVE  Request(c) \in Frame /\ taken[c] \in 1..Len(arrived[c])
  <1>1. arrived[c] \in Seq(Frame) /\ taken[c] \in Nat /\ sent[c] \in Seq(ReplyKind)
    BY DEF TypeOK
  <1>2. Len(sent[c]) \in Nat /\ Len(arrived[c]) \in Nat
    BY <1>1, LenProperties
  <1>3. taken[c] \in 1..Len(arrived[c])
    BY <1>1, <1>2 DEF FramesInOrder
  <1> QED BY <1>1, <1>3, ElementOfSeq DEF Request

\* Every step of a turn continues it in one of the ways its frame allows, and prompts stay
\* within their limits; nothing else is touched but the store and the health.
LEMMA InnerMoves ==
    ASSUME TypeOK, NEW c \in Connections, FramesInOrder(c), TurnIsPermitted(c), InnerStep(c)
    PROVE  /\ turn[c].step \in Busy
           /\ UNCHANGED InTurn
           /\ \E new : Becomes(c, new) /\ Continues(turn[c], new, Request(c))
           /\ StoreMoves
  <1> DEFINE f == Request(c)
             t == turn[c]
  <1> USE DEF ChatSteps
  <1>1. t \in Turn /\ t.todo \subseteq Permitted /\ Prompt(t.context)
        /\ store \in [Memories -> {"absent", "active", "deleted"}]
    BY DEF TypeOK, TurnIsPermitted
  <1>2. t.step \in Busy /\ UNCHANGED InTurn
    BY DEF InnerStep, ListGlobal, ListOwn, ReadMemory, Retrieved, RetrievalFails, ProviderAnswers,
           ProviderFails, ProviderRaises, Extracted, LearnCandidate, Learned, LearningFails,
           GovernanceDone,
           GovernanceRefuses, GovernanceFails, Busy
  <1>3. f \in Frame /\ Fits(t, f)
    BY <1>2, RequestIsFrame DEF FramesInOrder
  <1>4. \A new : new \in Turn /\ new.step \in ChatSteps /\ f.kind \in Chats
                   /\ new.todo \subseteq Permitted /\ Prompt(new.context)
               => Continues(t, new, f)
    BY DEF Continues, Fits, Busy
  <1>5. \A step \in ChatSteps : f.kind \in Chats => Continues(t, At(step), f)
    BY <1>4, TurnsMade, EmptyPrompt DEF Steps
  <1>6. \A reply \in ReplyKind : reply \in Answers(f) => Continues(t, Replying(reply), f)
    BY TurnsMade, EmptyPrompt DEF Continues, Fits, Busy
  <1>7. f.kind \in Chats => Continues(t, Replying("response"), f)
                            /\ Continues(t, Replying("provider_error"), f)
    BY <1>3, <1>6, AnswersOf DEF ReplyKind
  <1>8. f.kind \in Uses => Continues(t, Replying("result"), f)
                           /\ Continues(t, Replying("memory_error"), f)
    BY <1>3, <1>6, AnswersOf DEF ReplyKind
  <1>9. ASSUME UNCHANGED store PROVE StoreMoves
    BY <1>1, <1>9 DEF StoreMoves
  <1>10. t.step \in ChatSteps => f.kind \in Chats
    BY <1>3 DEF Fits
  <1>11. t.step = "govern" => f.kind \in Uses
    BY <1>3 DEF Fits
  <1> HIDE DEF f, t
  <1> DEFINE Reading(step, todo) == [At(step) EXCEPT !.todo = todo]
  <1> HIDE DEF Reading
  <1>12. ASSUME NEW todo \in SUBSET Permitted, NEW step \in {"list_own", "read", "learn"}
         PROVE  /\ Reading(step, todo) \in Turn
                /\ Reading(step, todo).step = step
                /\ Reading(step, todo).todo = todo
                /\ Reading(step, todo).context = {}
    BY DEF Reading, At, Turn, Permitted
  <1>13. ASSUME NEW todo \in SUBSET Permitted, NEW step \in {"list_own", "read", "learn"},
                f.kind \in Chats
         PROVE  Continues(t, Reading(step, todo), f)
    <2>1. Prompt(Reading(step, todo).context)
      BY <1>12, EmptyPrompt
    <2> QED BY <1>4, <1>12, <1>13, <2>1
  <1>14. Stored("global") \subseteq Permitted /\ Stored("own") \subseteq Permitted
    BY DEF Stored, Permitted
  <1>20. CASE ListGlobal(c)
    BY <1>9, <1>10, <1>13, <1>14, <1>2, <1>20 DEF ListGlobal, Reading, t, f
  <1>21. CASE ListOwn(c)
    <2>1. t.todo \cup Stored("own") \subseteq Permitted
      BY <1>1, <1>14
    <2> QED BY <1>9, <1>10, <1>13, <1>2, <2>1, <1>21 DEF ListOwn, Reading, t, f
  <1>22. CASE ReadMemory(c)
    <2>1. PICK m \in t.todo : Becomes(c, [t EXCEPT
               !.todo = @ \ {m},
               !.context = IF store[m] = "active" /\ HasRoom(t.context, m)
                           THEN t.context \cup {m} ELSE t.context])
      BY <1>22 DEF ReadMemory, t
    <2> DEFINE context == IF store[m] = "active" /\ HasRoom(t.context, m)
                          THEN t.context \cup {m} ELSE t.context
               new == [t EXCEPT !.todo = @ \ {m}, !.context = context]
    <2>2. Prompt(context) /\ context \subseteq Memories
      BY <1>1, PromptGrows DEF Permitted, Prompt
    <2> HIDE DEF context
    <2>3. new \in Turn /\ new.step = t.step /\ new.todo = t.todo \ {m} /\ new.context = context
      BY <1>1, <2>2 DEF Turn
    <2>4. t.step = "read" /\ UNCHANGED store
      BY <1>22 DEF ReadMemory, t
    <2>5. Continues(t, new, f)
      BY <1>1, <1>4, <1>10, <2>2, <2>3, <2>4
    <2>6. Becomes(c, new)
      BY <2>1 DEF context
    <2> QED BY <1>2, <1>9, <2>4, <2>5, <2>6 DEF f, t
  <1>23. CASE Retrieved(c)
    <2>1. t.step = "read" /\ UNCHANGED store /\ Becomes(c, [t EXCEPT !.step = "generate"])
      BY <1>23 DEF Retrieved, t
    <2>2. [t EXCEPT !.step = "generate"] \in Turn
          /\ [t EXCEPT !.step = "generate"].step = "generate"
          /\ [t EXCEPT !.step = "generate"].todo = t.todo
          /\ [t EXCEPT !.step = "generate"].context = t.context
      BY <1>1 DEF Turn
    <2>3. Continues(t, [t EXCEPT !.step = "generate"], f)
      BY <1>1, <1>4, <1>10, <2>1, <2>2
    <2> QED BY <1>2, <1>9, <2>1, <2>3 DEF f, t
  <1>24. CASE RetrievalFails(c)
    BY <1>2, <1>5, <1>9, <1>10, <1>24 DEF RetrievalFails, t, f
  <1>25. CASE ProviderAnswers(c)
    <2>1. t.step = "generate" /\ UNCHANGED store /\ f.kind \in Chats
      BY <1>10, <1>25 DEF ProviderAnswers, t
    <2>2. Continues(t, Learnable(f), f)
      <3>1. CASE f.kind = "unlearnable"
        BY <3>1, TurnsMade, EmptyPrompt DEF Learnable, Continues, Steps
      <3>2. CASE f.kind # "unlearnable"
        BY <1>5, <2>1, <3>2 DEF Learnable
      <3> QED BY <3>1, <3>2
    <2> QED BY <1>2, <1>7, <1>9, <2>1, <2>2, <1>25 DEF ProviderAnswers, t, f
  <1>26. CASE ProviderFails(c)
    BY <1>2, <1>7, <1>9, <1>10, <1>26 DEF ProviderFails, t, f
  <1>27. CASE Extracted(c)
    BY <1>2, <1>9, <1>10, <1>13, <1>27 DEF Extracted, Permitted, Reading, t, f
  <1>28. CASE LearnCandidate(c)
    <2>1. PICK m \in t.todo : /\ store' = [store EXCEPT ![m] = IF @ = "absent" THEN "active" ELSE @]
                              /\ Becomes(c, [t EXCEPT !.todo = @ \ {m}])
      BY <1>28 DEF LearnCandidate, t
    <2>2. t.step = "learn"
      BY <1>28 DEF LearnCandidate, t
    <2>3. [t EXCEPT !.todo = @ \ {m}] \in Turn
          /\ [t EXCEPT !.todo = @ \ {m}].step = t.step
          /\ [t EXCEPT !.todo = @ \ {m}].todo = t.todo \ {m}
          /\ [t EXCEPT !.todo = @ \ {m}].context = t.context
      BY <1>1 DEF Turn
    <2>4. Continues(t, [t EXCEPT !.todo = @ \ {m}], f)
      BY <1>1, <1>4, <1>10, <2>2, <2>3
    <2>5. StoreMoves
      BY <1>1, <2>1 DEF StoreMoves, Permitted
    <2> QED BY <1>2, <2>1, <2>4, <2>5 DEF f, t
  <1>29. CASE Learned(c)
    BY <1>2, <1>7, <1>9, <1>10, <1>29 DEF Learned, t, f
  <1>30. CASE LearningFails(c)
    BY <1>2, <1>7, <1>9, <1>10, <1>30 DEF LearningFails, AfterFailedLearning, t, f
  <1>31. CASE GovernanceDone(c)
    <2>1. t.step = "govern" /\ Becomes(c, Replying("result"))
      BY <1>31 DEF GovernanceDone, t
    <2>2. StoreMoves
      BY <1>1, <1>31 DEF GovernanceDone, StoreMoves
    <2> QED BY <1>2, <1>8, <1>11, <2>1, <2>2 DEF f, t
  <1>32. CASE GovernanceRefuses(c)
    BY <1>2, <1>8, <1>9, <1>11, <1>32 DEF GovernanceRefuses, t, f
  <1>33. CASE GovernanceFails(c)
    BY <1>2, <1>8, <1>9, <1>11, <1>33 DEF GovernanceFails, AfterFailedGovernance, t, f
  <1>34. CASE ProviderRaises(c)
    <2>1. Continues(t, Escaped, f)
      BY <1>10, <1>34, TurnsMade, EmptyPrompt DEF ProviderRaises, Continues, t
    <2> QED BY <1>2, <1>9, <2>1, <1>34 DEF ProviderRaises, t, f
  <1> QED BY <1>20, <1>21, <1>22, <1>23, <1>24, <1>25, <1>26, <1>27, <1>28, <1>29, <1>30, <1>31,
             <1>32, <1>33, <1>34 DEF InnerStep

\* The only step that prepares the confirmation of a deletion is the one that commits it.
LEMMA InnerIsTruthful ==
    ASSUME TypeOK, NEW c \in Connections, FramesInOrder(c), InnerStep(c),
           turn'[c].step = "reply", turn'[c].reply = "result", Request(c).kind = "delete"
    PROVE  store'[Request(c).memory] = "deleted"
  <1>1. turn[c].step \in Busy
    BY DEF InnerStep, ListGlobal, ListOwn, ReadMemory, Retrieved, RetrievalFails, ProviderAnswers,
           ProviderFails, ProviderRaises, Extracted, LearnCandidate, Learned, LearningFails,
           GovernanceDone,
           GovernanceRefuses, GovernanceFails, Busy, ChatSteps
  <1>2. turn[c].step \notin ChatSteps
    BY <1>1 DEF FramesInOrder, Fits, Chats
  <1>3. GovernanceDone(c) \/ GovernanceRefuses(c) \/ GovernanceFails(c)
    BY <1>2 DEF InnerStep, ListGlobal, ListOwn, ReadMemory, Retrieved, RetrievalFails,
           ProviderAnswers, ProviderFails, ProviderRaises, Extracted, LearnCandidate, Learned, LearningFails,
           ChatSteps
  <1>4. turn \in [Connections -> Turn] /\ store \in [Memories -> {"absent", "active", "deleted"}]
    BY DEF TypeOK
  <1>5. Request(c).memory \in Memories
    BY <1>1, RequestIsFrame, FrameKinds DEF Uses
  <1>6. ASSUME Becomes(c, Replying("memory_error")) PROVE FALSE
    BY <1>4, <1>6, BecomesOne, TurnsMade DEF ReplyKind
  <1>7. GovernanceDone(c)
    BY <1>3, <1>6 DEF GovernanceRefuses, GovernanceFails, AfterFailedGovernance
  <1> QED BY <1>4, <1>5, <1>7 DEF GovernanceDone

\* A step of a turn that works or fails marks its capability so, and no other marks one.
Reported(k) ==
    \/ MarkAvailable(k) /\ Worked(k)
    \/ MarkDegraded(k) /\ Failed(k)

\* Which steps end an operation, and that each of them tells of it
LEMMA HealthMoves ==
    ASSUME NEW c \in Connections, InnerStep(c)
    PROVE  UNCHANGED <<health, outcome>> \/ \E k \in Capability : Reported(k)
  <1>1. CASE Retrieved(c) \/ RetrievalFails(c)
    BY <1>1 DEF Retrieved, RetrievalFails, Capability, Reported
  <1>2. CASE Learned(c) \/ LearningFails(c)
    BY <1>2 DEF Learned, LearningFails, Capability, Reported
  <1>3. CASE GovernanceDone(c) \/ GovernanceFails(c)
    BY <1>3 DEF GovernanceDone, GovernanceFails, Capability, Reported
  <1>4. CASE \/ ListGlobal(c) \/ ListOwn(c) \/ ReadMemory(c) \/ ProviderAnswers(c)
             \/ ProviderFails(c) \/ ProviderRaises(c) \/ Extracted(c) \/ LearnCandidate(c)
             \/ GovernanceRefuses(c)
    BY <1>4 DEF ListGlobal, ListOwn, ReadMemory, ProviderAnswers, ProviderFails, ProviderRaises,
                Extracted, LearnCandidate, GovernanceRefuses
  <1> QED BY <1>1, <1>2, <1>3, <1>4 DEF InnerStep

\* What a handler does is take a frame, end, reply, or a step of a turn.
LEMMA HandlerSteps ==
    ASSUME NEW c \in Connections, HandlerStep(c)
    PROVE  TakeFrame(c) \/ NoMoreFrames(c) \/ Reply(c) \/ InnerStep(c)
  BY DEF HandlerStep, InnerStep

\* What main.run does touches no handler.
LifeStep == Serve \/ StartFails \/ Stop \/ Closing

\* At most, it closes connections.
LEMMA LifeLeavesHandlers ==
    ASSUME LifeStep
    PROVE  UNCHANGED <<arrived, taken, turn, sent, store, health, outcome>>
  BY DEF LifeStep, Serve, StartFails, Stop, Closing, ServerClosed, CloseBus, CloseProvider, Handlers

\* The frame that TakeFrame takes, and the turn it becomes
LEMMA TakenFrame ==
    ASSUME TypeOK, NEW c \in Connections, FramesInOrder(c), TakeFrame(c)
    PROVE  LET f == arrived[c][taken[c] + 1] IN
           /\ f \in Frame
           /\ taken[c] + 1 \in 1..Len(arrived[c])
           /\ taken' = [taken EXCEPT ![c] = taken[c] + 1]
           /\ Len(sent[c]) = taken[c]
           /\ turn'[c] = Route(f) /\ turn'[c] \in Turn
           /\ \A d \in Connections : d # c => turn'[d] = turn[d]
           /\ turn' \in [Connections -> Turn]
           /\ turn'[c].step \in Busy => Fits(turn'[c], f)
           /\ turn'[c].step \notin {"none", "idle"}
           /\ turn'[c].step = "ended" => f.kind = "untyped"
           /\ turn'[c].step = "reply" => turn'[c].reply = "error"
           /\ turn'[c].todo = {} /\ turn'[c].context = {}
  <1> DEFINE f == arrived[c][taken[c] + 1]
  <1>1. arrived[c] \in Seq(Frame) /\ taken[c] \in Nat /\ turn \in [Connections -> Turn]
    BY DEF TypeOK
  <1>2. Len(arrived[c]) \in Nat /\ taken[c] < Len(arrived[c])
    BY <1>1, LenProperties DEF TakeFrame
  <1>3. taken[c] + 1 \in 1..Len(arrived[c])
    BY <1>1, <1>2
  <1>4. f \in Frame
    BY <1>1, <1>3, ElementOfSeq
  <1>5. turn[c].step = "idle" /\ Becomes(c, Route(f)) /\ taken' = [taken EXCEPT ![c] = taken[c] + 1]
    BY DEF TakeFrame
  <1> HIDE DEF f
  <1>6. /\ Route(f) \in Turn
        /\ Route(f).step \in Busy => Fits(Route(f), f)
        /\ Route(f).step \notin {"none", "idle"}
        /\ Route(f).step = "ended" => f.kind = "untyped"
        /\ Route(f).step = "reply" => Route(f).reply = "error"
        /\ Route(f).todo = {} /\ Route(f).context = {}
    <2>1. CASE f.kind = "bad"
      <3>1. Route(f) = Replying("error")
        BY <2>1 DEF Route
      <3> QED BY <1>4, <2>1, <3>1, TurnsMade, AnswersOf DEF ReplyKind, Fits, ChatSteps
    <2>2. CASE f.kind = "untyped"
      <3>1. Route(f) = At("ended")
        BY <2>2 DEF Route
      <3> QED BY <2>2, <3>1, TurnsMade DEF Steps, Busy, ChatSteps
    <2>3. CASE f.kind \in Chats
      <3>1. Route(f) = At("list")
        BY <2>3 DEF Route, Chats
      <3> QED BY <2>3, <3>1, TurnsMade DEF Steps, Fits
    <2>4. CASE f.kind \in Uses
      <3>1. Route(f) = At("govern")
        BY <2>4 DEF Route, Uses
      <3> QED BY <2>4, <3>1, TurnsMade DEF Steps, Fits, ChatSteps
    <2> QED BY <1>4, <2>1, <2>2, <2>3, <2>4, FrameKinds DEF Chats, Uses
  <1>7. /\ turn'[c] = Route(f) /\ turn' \in [Connections -> Turn]
        /\ \A d \in Connections : d # c => turn'[d] = turn[d]
    BY <1>1, <1>5, <1>6, BecomesOne
  <1> HIDE DEF f
  <1>8. Len(sent[c]) = taken[c]
    BY <1>5 DEF FramesInOrder
  <1> QED BY <1>3, <1>4, <1>5, <1>6, <1>7, <1>8 DEF f

-----------------------------------------------------------------------------
(* Types.                                                                  *)

\* No step leaves the ranges of the state.  That a reply is one needs the turn's frame.
LEMMA TypeStep ==
    TypeOK /\ (\A c \in Connections : Handling(c)) /\ [Next]_vars => TypeOK'
  <1> SUFFICES ASSUME TypeOK, \A c \in Connections : Handling(c), [Next]_vars PROVE TypeOK'
    OBVIOUS
  <1>1. CASE UNCHANGED vars
    BY <1>1 DEF vars, TypeOK
  <1>2. ASSUME NEW c \in Connections, NEW f \in Frame, Arrive(c, f) PROVE TypeOK'
    <2>1. arrived' \in [Connections -> Seq(Frame)]
      <3>1. Append(arrived[c], f) \in Seq(Frame)
        BY AppendProperties DEF TypeOK
      <3> QED BY <1>2, <3>1 DEF Arrive, TypeOK
    <2> QED BY <1>2, <2>1 DEF Arrive, Outside, TypeOK
  <1>3. ASSUME NEW c \in Connections, ClientGone(c) PROVE TypeOK'
    BY <1>3 DEF ClientGone, Outside, TypeOK
  <1>4. ASSUME NEW c \in Connections, Accept(c) PROVE TypeOK'
    <2>1. turn' \in [Connections -> Turn]
      BY <1>4, BecomesOne, TurnsMade DEF Accept, Steps, TypeOK
    <2> QED BY <1>4, <2>1 DEF Accept, TypeOK
  <1>5. ASSUME NEW c \in Connections, HandlerStep(c) PROVE TypeOK'
    <2> USE DEF Handling
    <2>1. CASE TakeFrame(c)
      <3>1. turn' \in [Connections -> Turn] /\ taken' \in [Connections -> Nat]
        <4>1. FramesInOrder(c)
          OBVIOUS
        <4>2. turn' \in [Connections -> Turn] /\ taken' = [taken EXCEPT ![c] = taken[c] + 1]
          BY <2>1, <4>1, TakenFrame
        <4> QED BY <4>2 DEF TypeOK
      <3> QED BY <2>1, <3>1 DEF TakeFrame, TypeOK
    <2>2. CASE NoMoreFrames(c)
      <3>1. turn' \in [Connections -> Turn]
        BY <2>2, BecomesOne, TurnsMade DEF NoMoreFrames, Steps, TypeOK
      <3> QED BY <2>2, <3>1 DEF NoMoreFrames, TypeOK
    <2>3. CASE Reply(c)
      <3>1. turn' \in [Connections -> Turn]
        BY <2>3, BecomesOne, TurnsMade DEF Reply, AfterFailedSend, Steps, TypeOK
      <3>2. turn[c].reply \in ReplyKind
        <4>1. turn[c].step = "reply" /\ turn[c].step \in Busy
          BY <2>3 DEF Reply, Busy
        <4>2. FramesInOrder(c)
          OBVIOUS
        <4>3. Request(c) \in Frame
          BY <4>1, <4>2, RequestIsFrame
        <4>4. turn[c].reply \in Answers(Request(c))
          BY <4>1, <4>2 DEF FramesInOrder, Fits
        <4> QED BY <4>3, <4>4, AnswersOf
      <3>3. Append(sent[c], turn[c].reply) \in Seq(ReplyKind)
        BY <3>2, AppendProperties DEF TypeOK
      <3>4. sent' \in [Connections -> Seq(ReplyKind)]
        BY <2>3, <3>3 DEF Reply, TypeOK
      <3> QED BY <2>3, <3>1, <3>4 DEF Reply, TypeOK
    <2>4. CASE InnerStep(c)
      <3>1. /\ UNCHANGED InTurn
            /\ StoreMoves
            /\ \E new \in Turn : Becomes(c, new)
        BY <2>4, InnerMoves DEF Continues
      <3>2. turn' \in [Connections -> Turn]
        BY <3>1, BecomesOne DEF TypeOK
      <3>3. /\ health' \in [Capability -> {"AVAILABLE", "DEGRADED"}]
            /\ outcome' \in [Capability -> {"none", "worked", "failed"}]
        <4>1. CASE UNCHANGED <<health, outcome>>
          BY <4>1 DEF TypeOK
        <4>2. ASSUME NEW k \in Capability, Reported(k)
              PROVE  /\ health' \in [Capability -> {"AVAILABLE", "DEGRADED"}]
                     /\ outcome' \in [Capability -> {"none", "worked", "failed"}]
          BY <4>2 DEF Reported, MarkAvailable, MarkDegraded, Worked, Failed, TypeOK
        <4> QED BY <2>4, <4>1, <4>2, HealthMoves
      <3> QED BY <3>1, <3>2, <3>3 DEF InTurn, StoreMoves, TypeOK
    <2> QED BY <1>5, <2>1, <2>2, <2>3, <2>4, HandlerSteps
  <1>6. CASE LifeStep
    <2>1. runtime' \in {"starting", "serving", "closing_server", "closing_bus",
                        "closing_provider", "ended"}
      BY <1>6 DEF LifeStep, Serve, StartFails, Stop, Closing, ServerClosed, CloseBus, CloseProvider
    <2>2. socket' \in [Connections -> {"none", "open", "lost"}]
      BY <1>6 DEF LifeStep, Serve, StartFails, Stop, Closing, ServerClosed, CloseBus, CloseProvider,
                  TypeOK
    <2> QED BY <1>6, <2>1, <2>2, LifeLeavesHandlers DEF TypeOK
  <1> QED BY <1>1, <1>2, <1>3, <1>4, <1>5, <1>6 DEF Next, LifeStep

-----------------------------------------------------------------------------
(* Handlers.                                                               *)

\* What was received is what was sent, and frames keep their kinds.
LEMMA SentFrames ==
    ASSUME TypeOK, NEW c \in Connections, FramesInOrder(c)
    PROVE  /\ arrived[c] \in Seq(Frame) /\ Len(arrived[c]) \in Nat
           /\ taken[c] \in Nat
           /\ sent[c] \in Seq(ReplyKind) /\ Len(sent[c]) \in Nat
           /\ \A i \in 1..Len(sent[c]) : i \in 1..Len(arrived[c]) /\ arrived[c][i] \in Frame
  <1>1. /\ arrived[c] \in Seq(Frame) /\ Len(arrived[c]) \in Nat
        /\ taken[c] \in Nat
        /\ sent[c] \in Seq(ReplyKind) /\ Len(sent[c]) \in Nat
    BY LenProperties DEF TypeOK
  <1>2. \A i \in 1..Len(sent[c]) : i \in 1..Len(arrived[c])
    BY <1>1 DEF FramesInOrder
  <1> QED BY <1>1, <1>2, ElementOfSeq

\* A handler that does nothing stays as it is while others write to the store.
LEMMA HandlingStays ==
    ASSUME TypeOK, NEW c \in Connections, Handling(c), StoreMoves,
           arrived'[c] = arrived[c], taken'[c] = taken[c], turn'[c] = turn[c], sent'[c] = sent[c]
    PROVE  Handling(c)'
  <1>1. FramesInOrder(c)' /\ TurnIsPermitted(c)'
    BY DEF Handling, FramesInOrder, TurnIsPermitted, Request
  <1>2. \A i \in 1..Len(sent[c]) :
           arrived[c][i].kind = "delete" => arrived[c][i].memory \in Memories
    BY SentFrames, FrameKinds DEF Handling, Uses
  <1>3. turn[c].step = "reply" /\ Request(c).kind = "delete" => Request(c).memory \in Memories
    BY RequestIsFrame, FrameKinds DEF Handling, Uses, Busy
  <1>4. Truthful(c)'
    BY <1>2, <1>3 DEF Handling, Truthful, StoreMoves, Request
  <1> QED BY <1>1, <1>4 DEF Handling

\* An arriving frame changes nothing of those that came before it.
LEMMA HandlingArrive ==
    ASSUME TypeOK, NEW c \in Connections, Handling(c), NEW f \in Frame, Arrive(c, f)
    PROVE  Handling(c)'
  <1>1. /\ arrived'[c] = Append(arrived[c], f)
        /\ UNCHANGED <<taken, turn, sent, store>>
    BY DEF Arrive, Outside, TypeOK
  <1>2. /\ Len(arrived'[c]) = Len(arrived[c]) + 1
        /\ \A i \in 1..Len(arrived[c]) : arrived'[c][i] = arrived[c][i]
    BY <1>1, AppendProperties, SentFrames DEF Handling
  <1>3. taken[c] <= Len(arrived'[c])
    BY <1>2, SentFrames DEF Handling, FramesInOrder
  <1>4. \A i \in 1..Len(sent[c]) : arrived'[c][i] = arrived[c][i]
    BY <1>2, SentFrames DEF Handling
  <1>5. turn[c].step \in Busy => arrived'[c][taken[c]] = Request(c)
    BY <1>2, RequestIsFrame DEF Handling, Request
  <1>6. FramesInOrder(c)'
    BY <1>1, <1>3, <1>4, <1>5 DEF Handling, FramesInOrder, Request
  <1>7. TurnIsPermitted(c)'
    BY <1>1 DEF Handling, TurnIsPermitted
  <1>8. turn[c].step = "reply" => arrived'[c][taken[c]] = Request(c)
    BY <1>5 DEF Busy
  <1>9. Truthful(c)'
    BY <1>1, <1>4, <1>8 DEF Handling, Truthful, Request
  <1> QED BY <1>6, <1>7, <1>9 DEF Handling

\* The frame taken is the first that is not answered.
LEMMA HandlingTake ==
    ASSUME TypeOK, NEW c \in Connections, Handling(c), TakeFrame(c)
    PROVE  Handling(c)'
  <1> DEFINE f == arrived[c][taken[c] + 1]
  <1>1. FramesInOrder(c)
    BY DEF Handling
  <1>2. /\ taken[c] \in Nat /\ taken'[c] = taken[c] + 1 /\ taken'[c] <= Len(arrived[c])
        /\ UNCHANGED <<arrived, sent, store>>
    BY <1>1, TakenFrame, SentFrames DEF TakeFrame, TypeOK
  <1>3. /\ Len(sent[c]) = taken[c]
        /\ turn'[c].step \in Busy => Fits(turn'[c], f)
        /\ turn'[c].step \notin {"none", "idle"}
        /\ turn'[c].step = "reply" => turn'[c].reply = "error"
        /\ turn'[c].todo = {} /\ turn'[c].context = {}
    BY <1>1, TakenFrame
  <1>4. Request(c)' = f
    BY <1>2 DEF Request
  <1> HIDE DEF f
  <1>5. FramesInOrder(c)'
    BY <1>1, <1>2, <1>3, <1>4 DEF FramesInOrder
  <1>6. TurnIsPermitted(c)'
    BY <1>3, EmptyPrompt DEF TurnIsPermitted
  <1>7. Truthful(c)'
    BY <1>2, <1>3 DEF Handling, Truthful
  <1> QED BY <1>5, <1>6, <1>7 DEF Handling

\* The reply that is sent answers the frame that was taken.
LEMMA HandlingReply ==
    ASSUME TypeOK, NEW c \in Connections, Handling(c), Reply(c)
    PROVE  Handling(c)'
  <1>1. /\ turn[c].step = "reply" /\ turn[c].step \in Busy
        /\ UNCHANGED <<arrived, taken, store>>
    BY DEF Reply, Busy
  <1>2. /\ Len(sent[c]) + 1 = taken[c] /\ turn[c].reply \in Answers(Request(c))
        /\ FramesInOrder(c)
    BY <1>1 DEF Handling, FramesInOrder, Fits
  <1>3. turn[c].reply \in ReplyKind
    BY <1>1, <1>2, RequestIsFrame, AnswersOf
  <1>4. CASE socket[c] = "open"
    <2>1. sent'[c] = Append(sent[c], turn[c].reply) /\ turn'[c] = At("idle")
      BY <1>4, TurnsMade, BecomesOne DEF Reply, Steps, TypeOK
    <2>2. /\ Len(sent'[c]) = Len(sent[c]) + 1
          /\ \A i \in 1..Len(sent[c]) : sent'[c][i] = sent[c][i]
          /\ sent'[c][Len(sent[c]) + 1] = turn[c].reply
      BY <1>2, <1>3, <2>1, AppendProperties, SentFrames
    <2>3. /\ Len(sent'[c]) = taken[c]
          /\ \A i \in 1..Len(sent'[c]) :
                \/ i \in 1..Len(sent[c]) /\ sent'[c][i] = sent[c][i]
                \/ i = taken[c] /\ sent'[c][i] = turn[c].reply
      BY <1>2, <2>2, SentFrames
    <2>4. turn'[c].step = "idle" /\ turn'[c].todo = {} /\ turn'[c].context = {}
      BY <2>1, TurnsMade DEF Steps
    <2>5. FramesInOrder(c)'
      BY <1>1, <1>2, <2>3, <2>4, SentFrames DEF FramesInOrder, Request, Busy, ChatSteps
    <2>6. TurnIsPermitted(c)'
      BY <2>4, EmptyPrompt DEF TurnIsPermitted
    <2>7. Truthful(c)'
      BY <1>1, <2>3, <2>4 DEF Handling, Truthful, Request
    <2> QED BY <2>5, <2>6, <2>7 DEF Handling
  <1>5. CASE socket[c] # "open"
    <2>1. sent' = sent /\ turn'[c] = At("ended")
      BY <1>5, TurnsMade, BecomesOne DEF Reply, AfterFailedSend, Steps, TypeOK
    <2>2. turn'[c].step = "ended" /\ turn'[c].todo = {} /\ turn'[c].context = {}
      BY <2>1, TurnsMade DEF Steps
    <2>3. FramesInOrder(c)'
      BY <1>1, <1>2, <2>1, <2>2 DEF FramesInOrder, Busy, ChatSteps
    <2>4. TurnIsPermitted(c)'
      BY <2>2, EmptyPrompt DEF TurnIsPermitted
    <2>5. Truthful(c)'
      BY <1>1, <2>1, <2>2 DEF Handling, Truthful
    <2> QED BY <2>3, <2>4, <2>5 DEF Handling
  <1> QED BY <1>4, <1>5

\* A turn goes on with its frame.
LEMMA HandlingInner ==
    ASSUME TypeOK, NEW c \in Connections, Handling(c), InnerStep(c)
    PROVE  Handling(c)' /\ StoreMoves
  <1>1. FramesInOrder(c) /\ TurnIsPermitted(c)
    BY DEF Handling
  <1>2. /\ turn[c].step \in Busy
        /\ UNCHANGED <<arrived, taken, sent>>
        /\ StoreMoves
    BY <1>1, InnerMoves DEF InTurn
  <1>3. PICK new : Becomes(c, new) /\ Continues(turn[c], new, Request(c))
    BY <1>1, InnerMoves
  <1>4. turn'[c] = new
    BY <1>3, BecomesOne DEF Continues, TypeOK
  <1>5. Request(c)' = Request(c)
    BY <1>2 DEF Request
  <1>6. FramesInOrder(c)'
    BY <1>1, <1>2, <1>3, <1>4, <1>5, TurnsMade DEF FramesInOrder, Continues, Busy, ChatSteps
  <1>7. TurnIsPermitted(c)'
    BY <1>3, <1>4 DEF TurnIsPermitted, Continues
  <1>8. \A i \in 1..Len(sent[c]) :
           arrived[c][i].kind = "delete" => arrived[c][i].memory \in Memories
    BY <1>1, SentFrames, FrameKinds DEF Uses
  <1>9. Truthful(c)'
    BY <1>1, <1>2, <1>5, <1>8, InnerIsTruthful DEF Handling, Truthful, StoreMoves
  <1> QED BY <1>2, <1>6, <1>7, <1>9 DEF Handling

\* Whatever happens, the replies on every connection are those of its frames, prompts are
\* within their limits and confirmations true.
LEMMA HandlingStep ==
    TypeOK /\ (\A c \in Connections : Handling(c)) /\ RuntimeOutlivesTurns /\ [Next]_vars
        => (\A c \in Connections : Handling(c))'
  <1> SUFFICES ASSUME TypeOK, \A c \in Connections : Handling(c), RuntimeOutlivesTurns,
                      [Next]_vars, NEW c \in Connections
               PROVE  Handling(c)'
    OBVIOUS
  <1>1. ASSUME UNCHANGED store PROVE StoreMoves
    BY <1>1 DEF StoreMoves, TypeOK
  <1>2. ASSUME UNCHANGED <<arrived, taken, turn, sent, store>> PROVE Handling(c)'
    BY <1>1, <1>2, HandlingStays
  <1>3. CASE UNCHANGED vars
    BY <1>2, <1>3 DEF vars
  <1>4. CASE LifeStep
    BY <1>2, <1>4, LifeLeavesHandlers
  <1>5. ASSUME NEW d \in Connections, NEW f \in Frame, Arrive(d, f) PROVE Handling(c)'
    <2>1. CASE d = c
      BY <1>5, <2>1, HandlingArrive
    <2>2. CASE d # c
      <3>1. UNCHANGED <<taken, turn, sent, store>> /\ arrived'[c] = arrived[c]
        BY <1>5, <2>2 DEF Arrive, Outside, TypeOK
      <3> QED BY <1>1, <3>1, HandlingStays
    <2> QED BY <2>1, <2>2
  <1>6. ASSUME NEW d \in Connections, ClientGone(d) PROVE Handling(c)'
    BY <1>2, <1>6 DEF ClientGone, Outside
  <1>7. ASSUME NEW d \in Connections, Accept(d) PROVE Handling(c)'
    <2>1. UNCHANGED <<arrived, taken, sent, store>>
      BY <1>7 DEF Accept
    <2>2. turn'[d] = At("idle") /\ (c # d => turn'[c] = turn[c])
      BY <1>7, TurnsMade, BecomesOne DEF Accept, Steps, TypeOK
    <2>3. CASE c # d
      BY <1>1, <2>1, <2>2, <2>3, HandlingStays
    <2>4. CASE c = d
      <3>1. turn'[c].step = "idle" /\ turn'[c].todo = {} /\ turn'[c].context = {}
        BY <2>2, <2>4, TurnsMade DEF Steps
      <3>2. turn[c].step = "none"
        BY <1>7, <2>4 DEF Accept, RuntimeOutlivesTurns
      <3>3. FramesInOrder(c)'
        BY <2>1, <3>1, <3>2 DEF Handling, FramesInOrder, Request, Busy, ChatSteps
      <3>4. TurnIsPermitted(c)'
        BY <3>1, EmptyPrompt DEF TurnIsPermitted
      <3>5. Truthful(c)'
        BY <2>1, <3>1 DEF Handling, Truthful, Request
      <3> QED BY <3>3, <3>4, <3>5 DEF Handling
    <2> QED BY <2>3, <2>4
  <1>8. ASSUME NEW d \in Connections, HandlerStep(d) PROVE Handling(c)'
    <2>1. CASE d = c
      <3>1. CASE NoMoreFrames(c)
        <4>1. UNCHANGED <<arrived, taken, sent, store>> /\ turn'[c] = At("ended")
          BY <3>1, TurnsMade, BecomesOne DEF NoMoreFrames, Steps, TypeOK
        <4>2. turn'[c].step = "ended" /\ turn'[c].todo = {} /\ turn'[c].context = {}
          BY <4>1, TurnsMade DEF Steps
        <4>3. FramesInOrder(c)'
          BY <4>1, <4>2 DEF Handling, FramesInOrder, Busy, ChatSteps
        <4>4. TurnIsPermitted(c)'
          BY <4>2, EmptyPrompt DEF TurnIsPermitted
        <4>5. Truthful(c)'
          BY <4>1, <4>2 DEF Handling, Truthful
        <4> QED BY <4>3, <4>4, <4>5 DEF Handling
      <3> QED BY <1>8, <2>1, <3>1, HandlerSteps, HandlingTake, HandlingReply, HandlingInner
    <2>2. CASE d # c
      <3>1. CASE InnerStep(d)
        <4>1. StoreMoves /\ UNCHANGED <<arrived, taken, sent>>
          BY <3>1, InnerMoves, HandlingInner DEF Handling, InTurn
        <4>2. PICK new \in Turn : Becomes(d, new)
          BY <3>1, InnerMoves DEF Handling, Continues
        <4>3. turn'[c] = turn[c]
          BY <2>2, <4>2, BecomesOne DEF TypeOK
        <4> QED BY <4>1, <4>3, HandlingStays
      <3>2. CASE TakeFrame(d)
        <4>1. turn'[c] = turn[c]
          BY <2>2, <3>2, TakenFrame DEF Handling
        <4>2. UNCHANGED <<arrived, sent, store>> /\ taken'[c] = taken[c]
          BY <2>2, <3>2 DEF TakeFrame, TypeOK
        <4> QED BY <1>1, <4>1, <4>2, HandlingStays
      <3>3. CASE NoMoreFrames(d)
        <4>1. turn'[c] = turn[c]
          BY <2>2, <3>3, TurnsMade, BecomesOne DEF NoMoreFrames, Steps, TypeOK
        <4>2. UNCHANGED <<arrived, taken, sent, store>>
          BY <3>3 DEF NoMoreFrames
        <4> QED BY <1>1, <4>1, <4>2, HandlingStays
      <3>4. CASE Reply(d)
        <4>1. turn'[c] = turn[c]
          BY <2>2, <3>4, TurnsMade, BecomesOne DEF Reply, AfterFailedSend, Steps, TypeOK
        <4>2. UNCHANGED <<arrived, taken, store>> /\ sent'[c] = sent[c]
          BY <2>2, <3>4 DEF Reply, TypeOK
        <4> QED BY <1>1, <4>1, <4>2, HandlingStays
      <3> QED BY <1>8, <3>1, <3>2, <3>3, <3>4, HandlerSteps
    <2> QED BY <2>1, <2>2
  <1> QED BY <1>3, <1>4, <1>5, <1>6, <1>7, <1>8 DEF Next, LifeStep

-----------------------------------------------------------------------------
(* Failures, health and the end of the process.                            *)

\* Why the handler of c may have come to its end while its client was there
MayEnd(c) ==
    \/ Request(c).kind \in {"untyped", "unlearnable"}
    \/ Request(c).kind = "chat" /\ turn[c] = Escaped

\* Only a message that raises out of its processor, or a chat whose provider raises what
\* is none of its errors, ends a connection that is open.
LEMMA FailuresStep ==
    TypeOK /\ (\A c \in Connections : Handling(c)) /\ FailuresAreIsolated /\ [Next]_vars
        => FailuresAreIsolated'
  <1> SUFFICES ASSUME TypeOK, \A c \in Connections : Handling(c), FailuresAreIsolated, [Next]_vars,
                      NEW c \in Connections, turn'[c].step = "ended", socket'[c] = "open"
               PROVE  MayEnd(c)'
    BY DEF FailuresAreIsolated, MayEnd
  <1>1. ASSUME turn'[c] = turn[c], socket[c] = "open",
               arrived'[c] = arrived[c], taken'[c] = taken[c]
        PROVE  MayEnd(c)'
    BY <1>1 DEF FailuresAreIsolated, MayEnd, Request
  <1>2. CASE UNCHANGED vars
    BY <1>1, <1>2 DEF vars
  <1>3. CASE LifeStep
    <2>1. socket[c] = "open"
      BY <1>3 DEF LifeStep, Serve, StartFails, Stop, Closing, ServerClosed, CloseBus, CloseProvider,
                  TypeOK
    <2> QED BY <1>1, <1>3, <2>1, LifeLeavesHandlers
  <1>4. ASSUME NEW d \in Connections, NEW f \in Frame, Arrive(d, f)
        PROVE  MayEnd(c)'
    BY <1>1, <1>4 DEF Arrive, Outside, TypeOK
  <1>5. ASSUME NEW d \in Connections, ClientGone(d)
        PROVE  MayEnd(c)'
    BY <1>1, <1>5 DEF ClientGone, Outside, TypeOK
  <1>6. ASSUME NEW d \in Connections, Accept(d)
        PROVE  MayEnd(c)'
    <2>1. turn'[d].step = "idle" /\ (c # d => turn'[c] = turn[c])
      BY <1>6, TurnsMade, BecomesOne DEF Accept, Steps, TypeOK
    <2> QED BY <1>1, <1>6, <2>1 DEF Accept, TypeOK
  <1>7. ASSUME NEW d \in Connections, HandlerStep(d)
        PROVE  MayEnd(c)'
    <2>1. UNCHANGED <<socket, arrived>> /\ FramesInOrder(c) /\ FramesInOrder(d)
      BY <1>7, HandlerSteps, InnerMoves DEF TakeFrame, NoMoreFrames, Reply, InTurn, Handling
    <2>2. CASE InnerStep(d)
      <3>1. UNCHANGED taken
        BY <2>2, InnerMoves DEF Handling, InTurn
      <3>2. PICK new : Becomes(d, new) /\ Continues(turn[d], new, Request(d))
        BY <2>2, InnerMoves DEF Handling
      <3>3. turn'[d] = new /\ (c # d => turn'[c] = turn[c])
        BY <3>2, BecomesOne DEF Continues, TypeOK
      <3>4. CASE c = d
        <4>1. Request(c)' = Request(c)
          BY <2>1, <3>1 DEF Request
        <4>2. \/ Request(c).kind = "unlearnable"
              \/ new = Escaped /\ Request(c).kind \in Chats
          BY <3>2, <3>3, <3>4 DEF Continues, Busy, ChatSteps
        <4> QED BY <3>3, <3>4, <4>1, <4>2 DEF MayEnd, Chats
      <3> QED BY <1>1, <2>1, <3>1, <3>3, <3>4
    <2>3. CASE TakeFrame(d)
      <3>1. CASE c = d
        BY <2>1, <2>3, <3>1, TakenFrame DEF Request, MayEnd, TypeOK
      <3>2. CASE c # d
        <4>1. turn'[c] = turn[c]
          BY <2>1, <2>3, <3>2, TakenFrame
        <4> QED BY <1>1, <2>1, <2>3, <3>2, <4>1 DEF TakeFrame, TypeOK
      <3> QED BY <3>1, <3>2
    <2>4. CASE NoMoreFrames(d)
      <3>1. c # d
        BY <2>1, <2>4 DEF NoMoreFrames
      <3>2. turn'[c] = turn[c] /\ UNCHANGED taken
        BY <2>4, <3>1, TurnsMade, BecomesOne DEF NoMoreFrames, Steps, TypeOK
      <3> QED BY <1>1, <2>1, <3>2
    <2>5. CASE Reply(d)
      <3>1. c # d
        BY <2>1, <2>5, TurnsMade, BecomesOne DEF Reply, Steps, TypeOK
      <3>2. turn'[c] = turn[c] /\ UNCHANGED taken
        BY <2>5, <3>1, TurnsMade, BecomesOne DEF Reply, AfterFailedSend, Steps, TypeOK
      <3> QED BY <1>1, <2>1, <3>2
    <2> QED BY <1>7, <2>2, <2>3, <2>4, <2>5, HandlerSteps
  <1> QED BY <1>2, <1>3, <1>4, <1>5, <1>6, <1>7 DEF Next, LifeStep

\* Whatever ends an operation tells of it in the same step.
LEMMA HealthStep == TypeOK /\ HealthIsCurrent /\ [Next]_vars => HealthIsCurrent'
  <1> SUFFICES ASSUME TypeOK, HealthIsCurrent, [Next]_vars PROVE HealthIsCurrent'
    OBVIOUS
  <1>1. ASSUME UNCHANGED <<health, outcome>> PROVE HealthIsCurrent'
    BY <1>1 DEF HealthIsCurrent
  <1>2. ASSUME NEW k \in Capability, Reported(k)
        PROVE  HealthIsCurrent'
    BY <1>2 DEF Reported, MarkAvailable, MarkDegraded, Worked, Failed, HealthIsCurrent, TypeOK
  <1>3. CASE UNCHANGED vars
    BY <1>1, <1>3 DEF vars
  <1>4. CASE LifeStep
    BY <1>1, <1>4, LifeLeavesHandlers
  <1>5. ASSUME NEW c \in Connections, NEW f \in Frame, Arrive(c, f) PROVE HealthIsCurrent'
    BY <1>1, <1>5 DEF Arrive, Outside
  <1>6. ASSUME NEW c \in Connections, ClientGone(c) \/ Accept(c) PROVE HealthIsCurrent'
    BY <1>1, <1>6 DEF ClientGone, Accept, Outside
  <1>7. ASSUME NEW c \in Connections, HandlerStep(c) PROVE HealthIsCurrent'
    <2>1. CASE TakeFrame(c) \/ NoMoreFrames(c) \/ Reply(c)
      BY <1>1, <2>1 DEF TakeFrame, NoMoreFrames, Reply
    <2>2. CASE InnerStep(c)
      BY <1>1, <1>2, <2>2, HealthMoves
    <2> QED BY <1>7, <2>1, <2>2, HandlerSteps
  <1> QED BY <1>3, <1>4, <1>5, <1>6, <1>7 DEF Next, LifeStep

\* Connections are accepted while the process serves, and it closes the bus and the
\* provider only when no handler is left.
LEMMA RuntimeStep ==
    TypeOK /\ (\A c \in Connections : Handling(c)) /\ RuntimeOutlivesTurns /\ [Next]_vars
        => RuntimeOutlivesTurns'
  <1> SUFFICES ASSUME TypeOK, \A c \in Connections : Handling(c), RuntimeOutlivesTurns, [Next]_vars
               PROVE  RuntimeOutlivesTurns'
    OBVIOUS
  <1>1. ASSUME UNCHANGED <<runtime, turn>>,
               \A c \in Connections : socket'[c] = "none" => socket[c] = "none"
        PROVE  RuntimeOutlivesTurns'
    BY <1>1 DEF RuntimeOutlivesTurns
  <1>2. CASE UNCHANGED vars
    BY <1>1, <1>2 DEF vars
  <1>3. CASE LifeStep
    <2>1. UNCHANGED turn
      BY <1>3, LifeLeavesHandlers
    <2>2. \A c \in Connections : socket'[c] = "none" => socket[c] = "none"
      BY <1>3 DEF LifeStep, Serve, StartFails, Stop, Closing, ServerClosed, CloseBus, CloseProvider
    <2>3. runtime' # "starting"
      BY <1>3 DEF LifeStep, Serve, StartFails, Stop, Closing, ServerClosed, CloseBus, CloseProvider
    <2>4. runtime' \in {"closing_bus", "closing_provider", "ended"}
             => \A c \in Connections : turn[c].step \in {"none", "ended"}
      BY <1>3 DEF LifeStep, Serve, StartFails, Stop, Closing, ServerClosed, HandlersDone, CloseBus,
                  CloseProvider, RuntimeOutlivesTurns
    <2> QED BY <2>1, <2>2, <2>3, <2>4 DEF RuntimeOutlivesTurns
  <1>4. ASSUME NEW c \in Connections, NEW f \in Frame, Arrive(c, f) PROVE RuntimeOutlivesTurns'
    BY <1>1, <1>4 DEF Arrive, Outside
  <1>5. ASSUME NEW c \in Connections, ClientGone(c) PROVE RuntimeOutlivesTurns'
    BY <1>1, <1>5 DEF ClientGone, Outside, TypeOK
  <1>6. ASSUME NEW c \in Connections, Accept(c) PROVE RuntimeOutlivesTurns'
    <2>1. \A d \in Connections : d # c => turn'[d] = turn[d] /\ socket'[d] = socket[d]
      BY <1>6, TurnsMade, BecomesOne DEF Accept, Steps, TypeOK
    <2>2. runtime' = "serving" /\ socket'[c] = "open"
      BY <1>6 DEF Accept, TypeOK
    <2> QED BY <2>1, <2>2 DEF RuntimeOutlivesTurns
  <1>7. ASSUME NEW c \in Connections, HandlerStep(c) PROVE RuntimeOutlivesTurns'
    <2>1. UNCHANGED <<runtime, socket>>
      BY <1>7, HandlerSteps, InnerMoves DEF TakeFrame, NoMoreFrames, Reply, InTurn, Handling
    <2>2. turn[c].step \notin {"none", "ended"}
      BY <1>7, HandlerSteps, InnerMoves DEF TakeFrame, NoMoreFrames, Reply, Handling, Busy, ChatSteps
    <2>3. \A d \in Connections : d # c => turn'[d] = turn[d]
      <3>1. CASE TakeFrame(c)
        BY <3>1, TakenFrame DEF Handling
      <3>2. CASE NoMoreFrames(c) \/ Reply(c)
        BY <3>2, TurnsMade, BecomesOne DEF NoMoreFrames, Reply, AfterFailedSend, Steps, TypeOK
      <3>3. CASE InnerStep(c)
        <4>1. PICK new \in Turn : Becomes(c, new)
          BY <3>3, InnerMoves DEF Handling, Continues
        <4> QED BY <4>1, BecomesOne DEF TypeOK
      <3> QED BY <1>7, <3>1, <3>2, <3>3, HandlerSteps
    <2> QED BY <2>1, <2>2, <2>3 DEF RuntimeOutlivesTurns
  <1> QED BY <1>2, <1>3, <1>4, <1>5, <1>6, <1>7 DEF Next, LifeStep

-----------------------------------------------------------------------------
(* Theorems.                                                               *)

\* The invariant holds when the process starts.
LEMMA CoreInit == Init => CoreInv
  <1> SUFFICES ASSUME Init PROVE CoreInv
    OBVIOUS
  <1>1. TypeOK
    <2>1. turn \in [Connections -> Turn]
      BY TurnsMade DEF Init, Steps
    <2>2. /\ arrived \in [Connections -> Seq(Frame)]
          /\ sent \in [Connections -> Seq(ReplyKind)]
      BY EmptySeq DEF Init
    <2>3. store \in [Memories -> {"absent", "active", "deleted"}]
      BY CoreAssumption DEF Init
    <2> QED BY <2>1, <2>2, <2>3 DEF Init, TypeOK
  <1>2. ASSUME NEW c \in Connections PROVE Handling(c)
    <2>1. turn[c].step = "none" /\ turn[c].todo = {} /\ turn[c].context = {}
      BY TurnsMade DEF Init, Steps
    <2>2. arrived[c] = <<>> /\ sent[c] = <<>> /\ taken[c] = 0
      BY DEF Init
    <2>3. FramesInOrder(c)
      BY <2>1, <2>2 DEF FramesInOrder, Busy, ChatSteps
    <2>4. TurnIsPermitted(c)
      BY <2>1, EmptyPrompt DEF TurnIsPermitted
    <2>5. Truthful(c)
      BY <2>1, <2>2 DEF Truthful
    <2> QED BY <2>3, <2>4, <2>5 DEF Handling
  <1>3. \A c \in Connections : turn[c].step = "none"
    BY TurnsMade DEF Init, Steps
  <1>4. FailuresAreIsolated /\ RuntimeOutlivesTurns
    BY <1>3 DEF Init, FailuresAreIsolated, RuntimeOutlivesTurns
  <1>5. HealthIsCurrent
    BY DEF Init, HealthIsCurrent
  <1> QED BY <1>1, <1>2, <1>4, <1>5 DEF CoreInv

\* Every reachable state of the agent core satisfies the invariant.
THEOREM CoreInvariant == Spec => []CoreInv
  <1>1. CoreInv /\ [Next]_vars => CoreInv'
    BY TypeStep, HandlingStep, FailuresStep, HealthStep, RuntimeStep DEF CoreInv
  <1> QED BY <1>1, CoreInit, PTL DEF Spec

\* The connections, the turns, the store and the health keep their types.
THEOREM CoreTypeCorrect == Spec => []TypeOK
  <1>1. CoreInv => TypeOK
    BY DEF CoreInv
  <1> QED BY <1>1, CoreInvariant, PTL

\* The replies of websocket_server.py answer the frames of their connection one by one and
\* in order, however many connections there are and whatever fails.
THEOREM RepliesFollowFramesHolds == Spec => []RepliesFollowFrames
  <1>1. CoreInv => RepliesFollowFrames
    BY DEF CoreInv, Handling, FramesInOrder, RepliesFollowFrames
  <1> QED BY <1>1, CoreInvariant, PTL

\* No failure of memory or learning and no error of the provider ends a connection: only
\* the two kinds of messages that raise out of their processor do, and a chat whose provider
\* raises what is no LLMProviderError.
THEOREM FailuresAreIsolatedHolds == Spec => []FailuresAreIsolated
  <1>1. CoreInv => FailuresAreIsolated
    BY DEF CoreInv
  <1> QED BY <1>1, CoreInvariant, PTL

\* A deletion the client was told of has been committed and is not undone by the turns of
\* other connections (which are atomic here: see ServicesResurrection for what is not).
THEOREM GovernanceIsTruthfulHolds == Spec => []GovernanceIsTruthful
  <1>1. CoreInv => GovernanceIsTruthful
    BY DEF CoreInv, Handling, Truthful, GovernanceIsTruthful
  <1> QED BY <1>1, CoreInvariant, PTL

\* What MemoryHealthTracker reports of a capability is how the operation of it that ended
\* last came out, whichever connections' operations overlap it and whatever was refused.
THEOREM HealthIsCurrentHolds == Spec => []HealthIsCurrent
  <1>1. CoreInv => HealthIsCurrent
    BY DEF CoreInv
  <1> QED BY <1>1, CoreInvariant, PTL

\* A prompt holds no memory of another character, and no more of a domain than its limit,
\* although others learn and delete between the listings and the reads.
THEOREM PromptIsPermittedHolds == Spec => []PromptIsPermitted
  <1>1. CoreInv => PromptIsPermitted
    BY DEF CoreInv, Handling, TurnIsPermitted, Prompt, Permitted, PromptIsPermitted
  <1> QED BY <1>1, CoreInvariant, PTL

\* When main.run closes the provider no turn can call it any more.
THEOREM ProviderOutlivesTurnsHolds == Spec => []ProviderOutlivesTurns
  <1>1. CoreInv => ProviderOutlivesTurns
    BY DEF CoreInv, RuntimeOutlivesTurns, ProviderOutlivesTurns
  <1> QED BY <1>1, CoreInvariant, PTL
===============================================================================
