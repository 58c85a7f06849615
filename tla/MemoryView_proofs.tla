------------------------- MODULE MemoryView_proofs --------------------------
(***************************************************************************)
(* The memory tab stays of one piece: one operation at a time, the list,   *)
(* the detail pane, the text box and the history agree, whatever the user  *)
(* does while an answer is awaited.                                        *)
(***************************************************************************)
EXTENDS MemoryView, TLAPS

(***************************************************************************)
(* What an operation in flight is about, and what its answer holds.        *)
(***************************************************************************)
Asked(o) ==
    /\ o.op # "list" => o.memory \in Memories
    /\ o.step = "reading" => o.op = "list"
    /\ o.op \in {"inspect", "edit"} /\ o.step = "served" => o.memory \in DOMAIN o.reply

AskedWell == \A o \in operations : Asked(o)

\* While the list is being read there is nothing to select.
LoadingIsBlank ==
    (\E o \in operations : o.op = "list") => DOMAIN memories = {} /\ selected = NoEntry

\* The memories a list has still to read exist: none ever goes away.
TodoExists == \A o \in operations : \A m \in o.todo : latest[m] # Absent

\* What concerns the operations, and what concerns the display.
Requests == /\ operations \subseteq Operation
            /\ AskedWell
            /\ OneOperation
            /\ \A o \in operations : o.op = "edit" => o.text = o.memory

\* What the display shows, beside the list.
Display ==
    /\ selected \in Entry \cup {NoEntry}
    /\ text \in [of : Memories \cup {NoMemory}, blank : BOOLEAN]
    /\ history \in Memories \cup {NoMemory}
    /\ historyVisible \in BOOLEAN
    /\ text.of = SelectedId
    /\ HistoryIsOfSelected

Rest == /\ latest \in [Memories -> Latest \cup {Absent}]
        /\ connected \in BOOLEAN /\ memories \in Table
        /\ busy \in BOOLEAN /\ hasLoaded \in BOOLEAN /\ failed \in BOOLEAN
        /\ late \subseteq [op : Writes, memory : Memories]
        /\ listed \subseteq Memories /\ confirmed \subseteq Memories

ViewInv == Requests /\ TodoExists /\ Display /\ Rest /\ LoadingIsBlank /\ SelectionIsListed

\* A tab that has just been opened satisfies the invariant.
LEMMA ViewInitInv == ViewInit => ViewInv
  <1> SUFFICES ASSUME ViewInit PROVE ViewInv
    OBVIOUS
  <1>1. memories \in Table
    <2>1. NoRows \in [{} -> Latest]
      BY DEF NoRows
    <2> QED BY <2>1 DEF ViewInit, Table
  <1> QED BY <1>1 DEF ViewInit, LifecycleInit, ViewInv, Requests, TodoExists, Display, Rest, AskedWell, LoadingIsBlank,
       OneOperation, SelectionIsListed, HistoryIsOfSelected, SelectedId, NoText,
       NoRows, Entry

(***************************************************************************)
(* The parts of a step.                                                    *)
(***************************************************************************)

\* Setting the selection sets the text and drops the history of another memory.
LEMMA SettingSelected ==
    ASSUME Display, NEW e \in Entry \cup {NoEntry}, SetSelected(e)
    PROVE  Display'
  <1>1. CASE e = selected
    BY <1>1 DEF SetSelected, Display, SelectedId, HistoryIsOfSelected
  <1>2. CASE e # selected
    <2>1. /\ selected' = e /\ text' = TextOf(e)
          /\ history' = NoMemory /\ historyVisible' = FALSE
      BY <1>2 DEF SetSelected
    <2>2. CASE e = NoEntry
      BY <2>1, <2>2 DEF Display, SelectedId, HistoryIsOfSelected, TextOf, NoText
    <2>3. CASE e # NoEntry
      <3>1. e \in Entry
        BY <2>3
      <3> QED BY <2>1, <2>3, <3>1
              DEF Display, SelectedId, HistoryIsOfSelected, TextOf, Entry
    <2> QED BY <2>2, <2>3
  <1> QED BY <1>1, <1>2

\* A request is only added when there is none, and is well formed.
LEMMA AskingOne ==
    ASSUME Requests, MayOperate,
           NEW op \in {"list", "inspect", "history", "edit", "delete"},
           NEW m \in Memories \cup {NoMemory}, op # "list" => m \in Memories,
           NEW whose \in Memories \cup {NoMemory}, op = "edit" => whose = m,
           Asks(op, m, whose)
    PROVE  /\ Requests'
           /\ busy' \in BOOLEAN /\ failed' \in BOOLEAN
           /\ \A o \in operations' :
                 o.op = op /\ o.step = "sent" /\ o.todo = {} /\ DOMAIN o.reply = {}
  <1> DEFINE new == [op |-> op, memory |-> m, text |-> whose, step |-> "sent",
                     todo |-> {}, reply |-> NoRows]
  <1>1. operations = {} /\ operations' = {new} /\ busy' = TRUE /\ failed' = FALSE
    BY DEF Asks, MayOperate, Requests, OneOperation
  <1>2. new \in Operation
    <2>1. NoRows \in Table
      <3>1. NoRows \in [{} -> Latest]
        BY DEF NoRows
      <3> QED BY <3>1 DEF Table
    <2> QED BY <2>1 DEF Operation, Writes
  <1> HIDE DEF new
  <1>3. /\ Asked(new) /\ new.op = op /\ (new.op = "edit" => new.text = new.memory)
        /\ new.step = "sent" /\ new.todo = {} /\ DOMAIN new.reply = {}
    BY DEF new, Asked, NoRows
  <1> QED BY <1>1, <1>2, <1>3 DEF Requests, AskedWell, OneOperation

\* The core works on a request: it stays the same request, and the only one.
LEMMA ServingOne ==
    ASSUME Requests, NEW o \in operations, NEW p \in Operation, Becomes(o, p), Asked(p),
           p.op = o.op, p.memory = o.memory, p.text = o.text, UNCHANGED busy
    PROVE  /\ Requests'
           /\ \A q \in operations' : q.op = o.op
  <1>1. operations = {o} /\ operations' = {p}
    BY DEF Becomes, Requests, OneOperation
  <1> QED BY <1>1 DEF Requests, AskedWell, OneOperation

\* An operation that ends leaves none, and the tab is no longer busy.
LEMMA EndingOne ==
    ASSUME Requests, NEW o \in operations, Ends(o)
    PROVE  Requests' /\ operations = {o} /\ operations' = {} /\ busy' = FALSE
  <1>1. operations = {o} /\ operations' = {} /\ busy' = FALSE
    BY DEF Ends, Requests, OneOperation
  <1> QED BY <1>1 DEF Requests, AskedWell, OneOperation

\* The list with one entry replaced or removed is a list.
LEMMA Tables ==
    ASSUME memories \in Table, NEW m \in Memories
    PROVE  /\ NoRows \in Table
           /\ DOMAIN memories \subseteq Memories
           /\ \A n \in DOMAIN memories : memories[n] \in Latest
           /\ \A rev \in Latest : Replaced(m, rev) \in Table
           /\ Removed(m) \in Table
  <1>1. PICK D \in SUBSET Memories : memories \in [D -> Latest]
    BY DEF Table
  <1>2. NoRows \in [{} -> Latest]
    BY DEF NoRows
  <1>3. \A rev \in Latest : Replaced(m, rev) \in [D -> Latest]
    BY <1>1 DEF Replaced
  <1>4. Removed(m) \in [D \ {m} -> Latest]
    BY <1>1 DEF Removed
  <1> QED BY <1>1, <1>2, <1>3, <1>4 DEF Table

-----------------------------------------------------------------------------
(* The steps.                                                              *)

\* What the user does keeps the tab consistent, busy or not.
LEMMA UserKeeps == ASSUME ViewInv, User PROVE ViewInv'
  <1> USE DEF ViewInv, Rest
  <1>1. CASE LoadAsync
    <2>1. CASE Asks("list", NoMemory, NoMemory) /\ memories' = NoRows /\ SetSelected(NoEntry)
               /\ hasLoaded' = FALSE
      <3>1. /\ Requests' /\ busy' \in BOOLEAN /\ failed' \in BOOLEAN
            /\ \A o \in operations' : o.todo = {}
        BY <1>1, <2>1, AskingOne DEF LoadAsync
      <3>2. Display' /\ selected' = NoEntry
        BY <2>1, SettingSelected DEF SetSelected
      <3>3. NoRows \in Table
        <4>1. NoRows \in [{} -> Latest]
          BY DEF NoRows
        <4> QED BY <4>1 DEF Table
      <3>4. LoadingIsBlank' /\ SelectionIsListed'
        BY <2>1, <3>2 DEF LoadingIsBlank, SelectionIsListed, NoRows
      <3> QED BY <1>1, <2>1, <3>1, <3>2, <3>3, <3>4 DEF LoadAsync, past, TodoExists
    <2>2. CASE Unconnected /\ UNCHANGED <<hasLoaded, shown>>
      BY <1>1, <2>2 DEF LoadAsync, Unconnected, shown, past, TodoExists, Requests, AskedWell, OneOperation,
           Display, SelectedId, HistoryIsOfSelected, LoadingIsBlank, SelectionIsListed
    <2> QED BY <1>1, <2>1, <2>2 DEF LoadAsync
  <1>2. CASE SaveAsync \/ \E op \in {"delete", "history"} : DeleteOrHistoryAsync(op)
    <2>1. /\ MayOperate
          /\ UNCHANGED <<latest, connected, shown, hasLoaded, late, past>>
          /\ \/ failed' = TRUE /\ UNCHANGED <<busy, operations>>
             \/ /\ selected # NoEntry
                /\ \/ Asks("edit", SelectedId, text.of)
                   \/ \E op \in {"delete", "history"} : Asks(op, SelectedId, NoMemory)
      BY <1>2 DEF SaveAsync, DeleteOrHistoryAsync, Unconnected
    <2>2. Display' /\ SelectionIsListed'
      BY <2>1 DEF shown, Display, SelectedId, HistoryIsOfSelected, SelectionIsListed
    <2>3. /\ Requests' /\ busy' \in BOOLEAN /\ failed' \in BOOLEAN
          /\ LoadingIsBlank' /\ TodoExists'
      <3>1. CASE failed' = TRUE /\ UNCHANGED <<busy, operations>>
        BY <2>1, <3>1 DEF shown, past, Requests, AskedWell, OneOperation, LoadingIsBlank, TodoExists
      <3>2. CASE selected # NoEntry /\ Asks("edit", SelectedId, text.of)
        <4>1. SelectedId \in Memories /\ text.of = SelectedId
          BY <3>2 DEF Display, SelectedId, Entry
        <4> QED BY <2>1, <3>2, <4>1, AskingOne DEF LoadingIsBlank, TodoExists
      <3>3. ASSUME NEW op \in {"delete", "history"}, selected # NoEntry,
                   Asks(op, SelectedId, NoMemory)
            PROVE  /\ Requests' /\ busy' \in BOOLEAN /\ failed' \in BOOLEAN
                   /\ LoadingIsBlank' /\ TodoExists'
        <4>1. SelectedId \in Memories
          BY <3>3 DEF Display, SelectedId, Entry
        <4> QED BY <2>1, <3>3, <4>1, AskingOne DEF LoadingIsBlank, TodoExists
      <3> QED BY <2>1, <3>1, <3>2, <3>3
    <2> QED BY <2>1, <2>2, <2>3 DEF shown, past
  <1>3. ASSUME NEW m \in Memories, UserSelects(m) PROVE ViewInv'
    <2> DEFINE e == [memory |-> m, rev |-> memories[m]]
    <2>1. /\ m \in DOMAIN memories
          /\ e \in Entry
      BY <1>3, Tables DEF UserSelects, Entry
    <2>2. SetSelected(e)
      BY <1>3 DEF UserSelects
    <2>3. /\ selected' = e
          /\ UNCHANGED <<latest, connected, memories, hasLoaded, late, past>>
      BY <1>3 DEF UserSelects, SetSelected
    <2>4. Display'
      BY <2>1, <2>2, SettingSelected
    <2>5. SelectionIsListed'
      BY <2>1, <2>3 DEF SelectionIsListed
    <2>6. \A o \in operations : o.op # "list"
      BY <2>1 DEF LoadingIsBlank
    <2>7. /\ Requests' /\ busy' \in BOOLEAN /\ failed' \in BOOLEAN
          /\ (\A o \in operations' : o.op # "list") /\ TodoExists'
      <3>1. CASE MayOperate /\ Asks("inspect", m, NoMemory)
        BY <3>1, AskingOne DEF TodoExists
      <3>2. CASE failed' \in {TRUE, failed} /\ UNCHANGED <<busy, operations>>
        BY <2>3, <2>6, <3>2 DEF Requests, AskedWell, OneOperation, TodoExists
      <3> QED BY <1>3, <3>1, <3>2 DEF UserSelects, InspectSelected, Unconnected
    <2> QED BY <2>3, <2>4, <2>5, <2>7 DEF LoadingIsBlank, past
  <1>4. CASE UserDeselects
    <2>1. Display' /\ selected' = NoEntry
      BY <1>4, SettingSelected DEF UserDeselects, SetSelected
    <2> QED BY <1>4, <2>1 DEF UserDeselects, SelectionIsListed, LoadingIsBlank, TodoExists,
               Requests, AskedWell, OneOperation, flags, past
  <1>5. CASE UserTypes \/ HideHistory
    <2>1. Display'
      <3>1. CASE UserTypes
        <4>1. SelectedId \in Memories
          BY <3>1 DEF UserTypes, Display, SelectedId, Entry
        <4> QED BY <3>1, <4>1 DEF UserTypes, Display, SelectedId, HistoryIsOfSelected
      <3>2. CASE HideHistory
        BY <3>2 DEF HideHistory, Display, SelectedId, HistoryIsOfSelected
      <3> QED BY <1>5, <3>1, <3>2
    <2> QED BY <1>5, <2>1 DEF UserTypes, HideHistory, SelectionIsListed, LoadingIsBlank, TodoExists,
               Requests, AskedWell, OneOperation, flags, past
  <1> QED BY <1>1, <1>2, <1>3, <1>4, <1>5 DEF User

\* The core changes no display, and an answer stays that of its request.
LEMMA CoreKeeps == ASSUME ViewInv, Core PROVE ViewInv'
  <1> USE DEF ViewInv, Rest
  <1>1. /\ UNCHANGED <<connected, shown, flags, past>>
        /\ Display' /\ SelectionIsListed'
    <2>1. UNCHANGED <<connected, shown, flags, past>>
      BY DEF Core, Automatic, LateWrite, Write, Read, ListBegins, ListReads, ListEnds, Refuse
    <2> QED BY <2>1 DEF shown, Display, SelectedId, HistoryIsOfSelected, SelectionIsListed
  <1>2. latest' \in [Memories -> Latest \cup {Absent}]
    BY DEF Core, Automatic, LateWrite, Write, Read, ListBegins, ListReads, ListEnds, Refuse,
           Commits, NewRevision
  <1>3. late' \subseteq [op : Writes, memory : Memories]
    BY DEF Core, Automatic, LateWrite, Write, Read, ListBegins, ListReads, ListEnds, Refuse
  <1>4. Requests' /\ LoadingIsBlank'
    <2>1. CASE UNCHANGED operations
      BY <1>1, <2>1 DEF Requests, AskedWell, OneOperation, LoadingIsBlank, shown, flags
    <2>2. ASSUME NEW o \in operations, NEW p \in Operation, Becomes(o, p), Asked(p),
                 p.op = o.op, p.memory = o.memory, p.text = o.text
          PROVE  Requests' /\ LoadingIsBlank'
      BY <1>1, <2>2, ServingOne DEF LoadingIsBlank, shown, flags
    <2>3. ASSUME NEW o \in operations,
                 Write(o) \/ Read(o) \/ ListBegins(o) \/ ListReads(o) \/ ListEnds(o) \/ Refuse(o)
          PROVE  Requests' /\ LoadingIsBlank'
      <3>1. o \in Operation /\ Asked(o)
        BY DEF Requests, AskedWell
      <3>2. CASE Write(o)
        <4>1. PICK new \in Latest :
                 Becomes(o, [o EXCEPT !.step = "served", !.reply = [m \in {o.memory} |-> new]])
          BY <3>2 DEF Write, NewRevision
        <4>2. [m \in {o.memory} |-> new] \in Table
          <5>1. o.memory \in Memories
            BY <3>1, <3>2 DEF Write, Asked, Writes
          <5>2. [m \in {o.memory} |-> new] \in [{o.memory} -> Latest]
            OBVIOUS
          <5> QED BY <5>1, <5>2 DEF Table
        <4> QED BY <2>2, <3>1, <4>1, <4>2 DEF Operation, Asked
      <3>3. CASE Read(o)
        <4>1. o.memory \in Memories /\ latest[o.memory] \in Latest
          BY <3>1, <3>3 DEF Read, Asked
        <4>2. [m \in {o.memory} |-> latest[m]] \in Table
          <5>1. [m \in {o.memory} |-> latest[m]] \in [{o.memory} -> Latest]
            BY <4>1
          <5> QED BY <4>1, <5>1 DEF Table
        <4> QED BY <2>2, <3>1, <3>3, <4>2 DEF Read, Operation, Asked
      <3>4. CASE ListBegins(o) \/ Refuse(o)
        BY <2>2, <3>1, <3>4 DEF ListBegins, Refuse, Operation, Asked
      <3>5. CASE ListReads(o)
        <4>1. PICK m \in o.todo : Becomes(o, [o EXCEPT
             !.todo = @ \ {m},
             !.reply = [n \in DOMAIN o.reply \cup {m} |->
                           IF n = m THEN latest[m] ELSE o.reply[n]]])
          BY <3>5 DEF ListReads
        <4> DEFINE rows == [n \in DOMAIN o.reply \cup {m} |->
                              IF n = m THEN latest[m] ELSE o.reply[n]]
        <4>2. m \in Memories /\ latest[m] \in Latest
          BY <3>1 DEF Operation, TodoExists
        <4>3. rows \in Table
          <5>1. PICK D \in SUBSET Memories : o.reply \in [D -> Latest]
            BY <3>1 DEF Operation, Table
          <5>2. rows \in [D \cup {m} -> Latest]
            BY <4>2, <5>1
          <5>3. D \cup {m} \in SUBSET Memories
            BY <4>2, <5>1
          <5> HIDE DEF rows
          <5> QED BY <5>2, <5>3 DEF Table
        <4>4. o.op = "list" /\ o.step = "reading"
          BY <3>1, <3>5 DEF ListReads, Asked
        <4> HIDE DEF rows
        <4> QED BY <2>2, <3>1, <4>1, <4>3, <4>4 DEF Operation, Asked, rows
      <3>6. CASE ListEnds(o)
        <4>1. Visible(o.reply) \in Table
          <5>1. PICK D \in SUBSET Memories : o.reply \in [D -> Latest]
            BY <3>1 DEF Operation, Table
          <5>2. Visible(o.reply) \in
                   [{n \in D : o.reply[n].lifecycle # "DELETED"} -> Latest]
            BY <5>1 DEF Visible
          <5> QED BY <5>1, <5>2 DEF Table
        <4>2. o.op = "list"
          BY <3>1, <3>6 DEF ListEnds, Asked
        <4> QED BY <2>2, <3>1, <3>6, <4>1, <4>2 DEF ListEnds, Operation, Asked
      <3> QED BY <2>3, <3>2, <3>3, <3>4, <3>5, <3>6
    <2> QED BY <2>1, <2>3 DEF Core, Automatic, LateWrite
  <1>5. TodoExists'
    <2>1. \A m \in Memories : latest[m] # Absent => latest'[m] # Absent
      BY ViewAssumption DEF Core, Automatic, LateWrite, Write, Read, ListBegins, ListReads,
         ListEnds, Refuse, Commits, NewRevision
    <2>2. \A p \in operations' : \A m \in p.todo : latest[m] # Absent
      <3>1. CASE UNCHANGED operations
        BY <3>1 DEF TodoExists
      <3>2. ASSUME NEW o \in operations, Write(o) \/ Read(o) \/ ListReads(o) \/ ListEnds(o) \/ Refuse(o)
            PROVE  \A p \in operations' : p.todo \subseteq o.todo \/ p \in operations
        <4>1. o \in Operation
          BY DEF Requests
        <4>2. \E q : Becomes(o, q) /\ q.todo \subseteq o.todo
          <5>1. CASE Write(o)
            <6> DEFINE q(x) == [o EXCEPT !.step = "served", !.reply = [m \in {o.memory} |-> x]]
            <6>1. PICK x : Becomes(o, q(x))
              BY <5>1 DEF Write
            <6>2. q(x).todo \subseteq o.todo
              BY <4>1 DEF Operation
            <6> HIDE DEF q
            <6> QED BY <6>1, <6>2
          <5>2. CASE Read(o)
            <6> DEFINE q == [o EXCEPT !.step = "served", !.reply = [m \in {o.memory} |-> latest[m]]]
            <6>1. Becomes(o, q)
              BY <5>2 DEF Read
            <6>2. q.todo \subseteq o.todo
              BY <4>1 DEF Operation
            <6> HIDE DEF q
            <6> QED BY <6>1, <6>2
          <5>3. CASE ListReads(o)
            <6> DEFINE q(x) == [o EXCEPT
                 !.todo = @ \ {x},
                 !.reply = [n \in DOMAIN o.reply \cup {x} |->
                               IF n = x THEN latest[x] ELSE o.reply[n]]]
            <6>1. PICK x : Becomes(o, q(x))
              BY <5>3 DEF ListReads
            <6>2. q(x).todo \subseteq o.todo
              BY <4>1 DEF Operation
            <6> HIDE DEF q
            <6> QED BY <6>1, <6>2
          <5>4. CASE ListEnds(o)
            <6> DEFINE q == [o EXCEPT !.step = "served", !.reply = Visible(o.reply)]
            <6>1. Becomes(o, q)
              BY <5>4 DEF ListEnds
            <6>2. q.todo \subseteq o.todo
              BY <4>1 DEF Operation
            <6> HIDE DEF q
            <6> QED BY <6>1, <6>2
          <5>5. CASE Refuse(o)
            <6> DEFINE q == [o EXCEPT !.step = "refused"]
            <6>1. Becomes(o, q)
              BY <5>5 DEF Refuse
            <6>2. q.todo \subseteq o.todo
              BY <4>1 DEF Operation
            <6> HIDE DEF q
            <6> QED BY <6>1, <6>2
          <5> QED BY <3>2, <5>1, <5>2, <5>3, <5>4, <5>5
        <4> QED BY <4>2 DEF Becomes
      <3>3. ASSUME NEW o \in operations, ListBegins(o)
            PROVE  \A p \in operations' : \/ p \in operations
                                          \/ \A m \in p.todo : latest[m] # Absent
        <4>1. o \in Operation
          BY DEF Requests
        <4>2. \E q : Becomes(o, q) /\ \A m \in q.todo : latest[m] # Absent
          <5> DEFINE q == [o EXCEPT !.step = "reading",
                                    !.todo = {m \in Memories : latest[m] # Absent}]
          <5>1. Becomes(o, q)
            BY <3>3 DEF ListBegins
          <5>2. \A m \in q.todo : latest[m] # Absent
            BY <4>1 DEF Operation
          <5> HIDE DEF q
          <5> QED BY <5>1, <5>2
        <4> QED BY <4>2 DEF Becomes
      <3> QED BY <3>1, <3>2, <3>3 DEF Core, Automatic, LateWrite, TodoExists
    <2>3. \A p \in operations' : p.todo \subseteq Memories
      BY <1>4 DEF Requests, Operation
    <2> QED BY <2>1, <2>2, <2>3 DEF TodoExists
  <1> QED BY <1>1, <1>2, <1>3, <1>4, <1>5 DEF shown, flags, past

\* An answer is applied to what was asked for, whatever is selected by then.
LEMMA AnswerKeeps == ASSUME ViewInv, Answer PROVE ViewInv'
  <1> USE DEF ViewInv, Rest
  <1>1. PICK o \in operations :
           OnList(o) \/ OnInspect(o) \/ OnEdit(o) \/ OnDelete(o) \/ OnHistory(o) \/ OnFailure(o)
    BY DEF Answer
  <1>2. o \in Operation /\ Asked(o)
    BY DEF Requests, AskedWell
  <1>3. Ends(o) /\ UNCHANGED <<latest, connected>>
    BY <1>1 DEF OnList, OnInspect, OnEdit, OnDelete, OnHistory, OnFailure
  <1>4. Requests' /\ TodoExists' /\ LoadingIsBlank' /\ busy' \in BOOLEAN
    BY <1>3, EndingOne DEF TodoExists, LoadingIsBlank
  <1>5. latest' \in [Memories -> Latest \cup {Absent}] /\ connected' \in BOOLEAN
    BY <1>3
  <1>6. CASE OnList(o)
    <2>1. DOMAIN memories = {} /\ selected = NoEntry /\ selected' = NoEntry
      BY <1>6 DEF OnList, Answered, LoadingIsBlank
    <2>2. memories' = [m \in DOMAIN o.reply |-> o.reply[m]]
      BY <1>6, <2>1 DEF OnList
    <2>3. DOMAIN o.reply \subseteq Memories /\ memories' \in Table
      <3>1. PICK D \in SUBSET Memories : o.reply \in [D -> Latest]
        BY <1>2 DEF Operation, Table
      <3>2. memories' \in [D -> Latest]
        BY <2>2, <3>1
      <3> QED BY <3>1, <3>2 DEF Table
    <2>4. Display' /\ SelectionIsListed'
      BY <1>6, <2>1 DEF OnList, Display, SelectedId, HistoryIsOfSelected, SelectionIsListed
    <2> QED BY <1>4, <1>5, <1>6, <2>3, <2>4 DEF OnList
  <1>7. CASE OnInspect(o)
    <2>1. CASE IsSelectedMemory(o.memory)
      <3> DEFINE m == o.memory
                 rev == o.reply[m]
                 e == [memory |-> m, rev |-> rev]
      <3>1. m \in Memories /\ rev \in Latest
        BY <1>2, <1>7 DEF OnInspect, Answered, Asked, Operation, Table
      <3>2. /\ memories' = Replaced(m, rev) /\ selected' = e /\ text' = TextOf(e)
            /\ history' = NoMemory /\ historyVisible' = FALSE
        BY <1>7, <2>1 DEF OnInspect
      <3>3. e \in Entry /\ e # NoEntry
        BY <3>1, ViewAssumption DEF Entry
      <3>4. Display'
        BY <3>1, <3>2, <3>3 DEF Display, SelectedId, HistoryIsOfSelected, TextOf
      <3>5. m \in DOMAIN memories
        BY <2>1, <3>1, ViewAssumption DEF IsSelectedMemory, SelectedId, SelectionIsListed
      <3>6. SelectionIsListed'
        BY <3>2, <3>5 DEF SelectionIsListed, Replaced
      <3>7. memories' \in Table
        BY <3>1, <3>2, Tables
      <3> QED BY <1>4, <1>5, <1>7, <3>4, <3>6, <3>7 DEF OnInspect, past
    <2>2. CASE ~IsSelectedMemory(o.memory)
      BY <1>4, <1>5, <1>7, <2>2 DEF OnInspect, shown, past, Display, SelectedId,
         HistoryIsOfSelected, SelectionIsListed
    <2> QED BY <2>1, <2>2
  <1>8. CASE OnEdit(o)
    <2> DEFINE m == o.memory
               rev == o.reply[m]
    <2>1. m \in Memories /\ rev \in Latest
      BY <1>2, <1>8 DEF OnEdit, Answered, Asked, Operation, Table
    <2>2. memories' = Replaced(m, rev) /\ memories' \in Table
      BY <1>8, <2>1, Tables DEF OnEdit
    <2>3. CASE IsSelectedMemory(m)
      <3>1. ListBoxDrops(m)
        BY <2>1, <2>3, ViewAssumption
           DEF IsSelectedMemory, SelectedId, SelectionIsListed, ListBoxDrops, Display, Entry
      <3>2. SetSelected(NoEntry)
        BY <1>8, <3>1 DEF OnEdit
      <3>3. Display' /\ selected' = NoEntry
        BY <3>2, SettingSelected DEF SetSelected
      <3> QED BY <1>4, <1>5, <1>8, <2>2, <3>3 DEF OnEdit, past, SelectionIsListed
    <2>4. CASE ~IsSelectedMemory(m)
      <3>1. ~ListBoxDrops(m)
        BY <2>4 DEF IsSelectedMemory, SelectedId, ListBoxDrops
      <3>2. SetSelected(selected)
        BY <1>8, <2>4, <3>1 DEF OnEdit
      <3>3. Display' /\ selected' = selected
        BY <3>2, SettingSelected DEF SetSelected, Display
      <3>4. SelectionIsListed'
        BY <2>2, <2>4, <3>3 DEF SelectionIsListed, Replaced, IsSelectedMemory, SelectedId
      <3> QED BY <1>4, <1>5, <1>8, <2>2, <3>3, <3>4 DEF OnEdit, past
    <2> QED BY <2>3, <2>4
  <1>9. CASE OnDelete(o)
    <2>1. o.memory \in Memories
      BY <1>2, <1>9 DEF OnDelete, Answered, Asked
    <2>2. memories' = Removed(o.memory) /\ memories' \in Table
      BY <1>9, <2>1, Tables DEF OnDelete
    <2>3. PICK e \in Entry \cup {NoEntry} :
             /\ SetSelected(e)
             /\ e = IF IsSelectedMemory(o.memory) THEN NoEntry ELSE selected
      BY <1>9 DEF OnDelete, Display
    <2>4. Display' /\ selected' = e
      BY <2>3, SettingSelected DEF SetSelected
    <2>5. SelectionIsListed'
      BY <2>2, <2>3, <2>4 DEF SelectionIsListed, Removed, IsSelectedMemory, SelectedId
    <2> QED BY <1>4, <1>5, <1>9, <2>1, <2>2, <2>4, <2>5 DEF OnDelete
  <1>10. CASE OnHistory(o)
    <2>1. Display'
      <3>1. CASE IsSelectedMemory(o.memory)
        <4>1. o.memory \in Memories
          BY <1>2, <1>10 DEF OnHistory, Answered, Asked
        <4> QED BY <1>10, <3>1, <4>1, ViewAssumption
                DEF OnHistory, Display, SelectedId, IsSelectedMemory, HistoryIsOfSelected
      <3>2. CASE ~IsSelectedMemory(o.memory)
        BY <1>10, <3>2 DEF OnHistory, Display, SelectedId, HistoryIsOfSelected
      <3> QED BY <3>1, <3>2
    <2> QED BY <1>4, <1>5, <1>10, <2>1 DEF OnHistory, past, SelectionIsListed
  <1>11. CASE OnFailure(o)
    <2>1. late' \subseteq [op : Writes, memory : Memories]
      BY <1>2, <1>11 DEF OnFailure, Asked, Writes
    <2>2. Display' /\ SelectionIsListed'
      BY <1>11 DEF OnFailure, shown, Display, SelectedId, HistoryIsOfSelected, SelectionIsListed
    <2> QED BY <1>4, <1>5, <1>11, <2>1, <2>2 DEF OnFailure, shown, past
  <1> QED BY <1>1, <1>6, <1>7, <1>8, <1>9, <1>10, <1>11

\* The invariant is inductive.
LEMMA ViewStep == ViewInv /\ [ViewNext]_viewVars => ViewInv'
  <1> SUFFICES ASSUME ViewInv, [ViewNext]_viewVars PROVE ViewInv'
    OBVIOUS
  <1>1. CASE ConnectionChanges \/ UNCHANGED viewVars
    <2>1. /\ UNCHANGED <<latest, shown, flags, operations, late, past>>
          /\ connected' \in {connected, ~connected}
      BY <1>1 DEF ConnectionChanges, viewVars
    <2>2. Requests' /\ TodoExists' /\ LoadingIsBlank' /\ SelectionIsListed'
      BY <2>1 DEF shown, flags, ViewInv, Requests, AskedWell, OneOperation, TodoExists,
         LoadingIsBlank, SelectionIsListed
    <2>3. Display'
      BY <2>1 DEF shown, ViewInv, Display, SelectedId, HistoryIsOfSelected
    <2>4. Rest'
      BY <2>1 DEF shown, flags, past, ViewInv, Rest
    <2> QED BY <2>2, <2>3, <2>4 DEF ViewInv
  <1> QED BY <1>1, UserKeeps, CoreKeeps, AnswerKeeps DEF ViewNext

-----------------------------------------------------------------------------
\* The tab is well typed and of one piece in every reachable state.
THEOREM ViewInvariant == ViewSpec => []ViewInv
  BY ViewInitInv, ViewStep, PTL DEF ViewSpec

\* Every flag, entry, text and request of MemoryManagementViewModel keeps its range.
THEOREM ViewTypeCorrect == ViewSpec => []ViewTypeOK
  <1>1. ViewInv => ViewTypeOK
    BY DEF ViewInv, ViewTypeOK, Requests, Display, Rest
  <1> QED BY <1>1, ViewInvariant, PTL

\* IsBusy lets one operation of the view model run at a time and is cleared when it
\* ends, whichever way it ends.
THEOREM OneOperationHolds == ViewSpec => []OneOperation
  <1>1. ViewInv => OneOperation
    BY DEF ViewInv, Requests
  <1> QED BY <1>1, ViewInvariant, PTL

\* SaveAsync never sends one memory's text as the content of another, however the
\* selection changes while answers are awaited.
THEOREM TextIsOfSelectedHolds == ViewSpec => []TextIsOfSelected
  <1>1. ViewInv => TextIsOfSelected
    BY DEF ViewInv, Requests, Display, TextIsOfSelected
  <1> QED BY <1>1, ViewInvariant, PTL

\* List, detail pane and history stay about the same version of the same memory.
THEOREM SelectionHolds == ViewSpec => []DisplayIsOfOneMemory
  <1>1. ViewInv => DisplayIsOfOneMemory
    BY DEF ViewInv, Display, DisplayIsOfOneMemory
  <1> QED BY <1>1, ViewInvariant, PTL

-----------------------------------------------------------------------------
(* The list and the core.                                                  *)
(*                                                                         *)
(* What is on display was read earlier, and so was every answer that has   *)
(* yet to be applied.  Both are right because a memory's latest revision   *)
(* only goes forward, and because what is deleted stays deleted.           *)

\* The list holds revisions the core had, and once loaded all that it was told of and
\* has not been told to forget.
ListIsOfCore ==
    /\ \A m \in DOMAIN memories : latest[m] # Absent /\ memories[m].number <= latest[m].number
    /\ DOMAIN memories # {} => hasLoaded
    /\ hasLoaded => listed \subseteq confirmed \cup DOMAIN memories

\* What was confirmed to be deleted is.
ConfirmedAreDeleted ==
    \A m \in confirmed :
        latest[m] # Absent /\ latest[m].lifecycle = "DELETED" /\ m \notin DOMAIN memories

\* An answer holds revisions the core had, none older than what is listed of a memory that
\* is inspected or edited, and a list that has been read to its end none of a memory whose
\* deletion was confirmed.  A delete is asked for of a list that was loaded.
AnswerIsOfCore(o) ==
    /\ \A n \in DOMAIN o.reply : latest[n] # Absent /\ o.reply[n].number <= latest[n].number
    /\ o.op \in {"inspect", "edit"} =>
          \A n \in DOMAIN o.reply \cap DOMAIN memories : memories[n].number <= o.reply[n].number
    /\ o.op = "list" =>
          \A n \in DOMAIN o.reply \cap confirmed :
              o.step # "served" /\ o.reply[n].lifecycle = "DELETED"
    /\ o.op = "delete" =>
          /\ hasLoaded
          /\ o.step = "served" => /\ latest[o.memory] # Absent
                                  /\ latest[o.memory].lifecycle = "DELETED"

FreshInv == ListIsOfCore /\ ConfirmedAreDeleted /\ \A o \in operations : AnswerIsOfCore(o)

\* How far a memory may move in one step: never back, and never out of its deletion.
GoesOn(m) ==
    latest[m] # Absent => /\ latest'[m] # Absent
                          /\ latest[m].number <= latest'[m].number
                          /\ latest[m].lifecycle = "DELETED" => latest'[m].lifecycle = "DELETED"

\* A well-formed revision that follows another in MemoryLifecycle is not older, and follows
\* no deletion.
LEMMA FollowingIsLater ==
    ASSUME NEW old \in Latest, NEW new \in Latest, Moves(old, new)
    PROVE  old.number <= new.number /\ old.lifecycle # "DELETED"
  <1>1. old.number \in Nat
    BY ViewAssumption DEF Latest
  <1>2. CASE Expire(old, new)
    BY <1>1, <1>2 DEF Expire, Latest
  <1>3. CASE Correct(old, new) \/ LearnAnew(old, new) \/ EditByUser(old, new) \/ DeleteByUser(old, new)
    BY <1>1, <1>3 DEF Correct, LearnAnew, EditByUser, DeleteByUser, Follows, Latest
  <1> QED BY <1>2, <1>3 DEF Moves

\* What is committed is a well-formed revision in place of what was there.
LEMMA CommittedGoesOn ==
    ASSUME latest \in [Memories -> Latest \cup {Absent}], NEW m \in Memories,
           NEW new \in Latest, Commits(m, new), latest[m] # Absent => Moves(latest[m], new)
    PROVE  \A n \in Memories : GoesOn(n)
  <1>1. latest'[m] = new /\ \A n \in Memories : n # m => latest'[n] = latest[n]
    BY DEF Commits
  <1>2. new # Absent
    BY ViewAssumption
  <1>3. GoesOn(m)
    BY <1>1, <1>2, FollowingIsLater DEF GoesOn
  <1>4. ASSUME NEW n \in Memories, n # m PROVE GoesOn(n)
    <2>1. latest[n] # Absent => latest[n].number \in Nat
      BY ViewAssumption DEF Latest
    <2> QED BY <1>1, <1>4, <2>1 DEF GoesOn
  <1> QED BY <1>3, <1>4

\* Reading and waiting leave every memory where it is.
LEMMA RestingGoesOn ==
    ASSUME latest \in [Memories -> Latest \cup {Absent}], UNCHANGED latest
    PROVE  \A n \in Memories : GoesOn(n)
  <1>1. \A n \in Memories : latest[n] # Absent => latest[n].number \in Nat
    BY ViewAssumption DEF Latest
  <1> QED BY <1>1 DEF GoesOn

\* Every step of the core moves memories forward.
LEMMA CoreGoesOn == ASSUME ViewInv, Core PROVE \A n \in Memories : GoesOn(n)
  <1>1. latest \in [Memories -> Latest \cup {Absent}]
    BY DEF ViewInv, Rest
  <1>2. ASSUME NEW m \in Memories, Automatic(m) PROVE \A n \in Memories : GoesOn(n)
    <2>1. PICK new \in NewRevision : /\ latest[m] # Absent => Moves(latest[m], new)
                                     /\ Commits(m, new)
      BY <1>2 DEF Automatic, Moves
    <2> QED BY <1>1, <2>1, CommittedGoesOn DEF NewRevision
  <1>3. ASSUME NEW op \in Writes, NEW m, NEW new \in NewRevision, Written(op, latest[m], new)
        PROVE  Moves(latest[m], new)
    BY <1>3 DEF Written, Moves, Writes
  <1>4. ASSUME NEW r \in late, LateWrite(r) PROVE \A n \in Memories : GoesOn(n)
    <2>1. r.op \in Writes /\ r.memory \in Memories
      BY DEF ViewInv, Rest
    <2> QED BY <1>1, <1>3, <1>4, <2>1, CommittedGoesOn DEF LateWrite, NewRevision
  <1>5. ASSUME NEW o \in operations, Write(o) PROVE \A n \in Memories : GoesOn(n)
    <2>1. o.op \in Writes /\ o.memory \in Memories
      BY <1>5 DEF Write, Writes, ViewInv, Requests, AskedWell, Asked
    <2> QED BY <1>1, <1>3, <1>5, <2>1, CommittedGoesOn DEF Write, NewRevision
  <1>6. ASSUME NEW o \in operations, Read(o) \/ ListBegins(o) \/ ListReads(o) \/ ListEnds(o) \/ Refuse(o)
        PROVE  \A n \in Memories : GoesOn(n)
    BY <1>1, <1>6, RestingGoesOn DEF Read, ListBegins, ListReads, ListEnds, Refuse
  <1> QED BY <1>2, <1>4, <1>5, <1>6 DEF Core

\* A table of revisions is one of memories, each with its number.
LEMMA TableRows ==
    ASSUME NEW rows \in Table, NEW m \in DOMAIN rows
    PROVE  m \in Memories /\ rows[m] \in Latest /\ rows[m].number \in Nat
  <1>1. PICK D \in SUBSET Memories : rows \in [D -> Latest]
    BY DEF Table
  <1>2. m \in Memories /\ rows[m] \in Latest
    BY <1>1
  <1> QED BY <1>2, ViewAssumption DEF Latest

\* The list and the confirmations outlive whatever the core does, and so does what was
\* read before.
LEMMA CoreOutlived ==
    ASSUME ViewInv, ViewInv', FreshInv, \A n \in Memories : GoesOn(n),
           UNCHANGED <<memories, hasLoaded, listed, confirmed>>
    PROVE  /\ ListIsOfCore' /\ ConfirmedAreDeleted'
           /\ \A o \in operations : AnswerIsOfCore(o)'
  <1>1. memories \in Table /\ confirmed \subseteq Memories
    BY DEF ViewInv, Rest
  <1>2. \A n \in Memories : latest[n] # Absent =>
           /\ latest'[n] # Absent
           /\ latest[n].number \in Nat /\ latest'[n].number \in Nat
           /\ latest[n].number <= latest'[n].number
    <2>1. /\ latest \in [Memories -> Latest \cup {Absent}]
          /\ latest' \in [Memories -> Latest \cup {Absent}]
      BY DEF ViewInv, Rest
    <2> QED BY <2>1, ViewAssumption DEF GoesOn, Latest
  <1>3. ASSUME NEW rows \in Table,
               \A n \in DOMAIN rows : latest[n] # Absent /\ rows[n].number <= latest[n].number
        PROVE  \A n \in DOMAIN rows : latest'[n] # Absent /\ rows[n].number <= latest'[n].number
    <2> SUFFICES ASSUME NEW n \in DOMAIN rows
                 PROVE  latest'[n] # Absent /\ rows[n].number <= latest'[n].number
      OBVIOUS
    <2>1. n \in Memories /\ rows[n].number \in Nat
      BY TableRows
    <2>2. latest[n] # Absent /\ rows[n].number <= latest[n].number
      BY <1>3
    <2> QED BY <1>2, <2>1, <2>2
  <1>4. ListIsOfCore'
    BY <1>1, <1>3 DEF FreshInv, ListIsOfCore
  <1>5. ConfirmedAreDeleted'
    BY <1>1 DEF FreshInv, ConfirmedAreDeleted, GoesOn
  <1>6. ASSUME NEW o \in operations PROVE AnswerIsOfCore(o)'
    <2>1. o.reply \in Table /\ (o.op = "delete" => o.memory \in Memories)
      BY DEF ViewInv, Requests, AskedWell, Asked, Operation
    <2>2. AnswerIsOfCore(o)
      BY DEF FreshInv
    <2>3. \A n \in DOMAIN o.reply : latest'[n] # Absent /\ o.reply[n].number <= latest'[n].number
      BY <1>3, <2>1, <2>2 DEF AnswerIsOfCore
    <2> QED BY <2>1, <2>2, <2>3 DEF AnswerIsOfCore, GoesOn
  <1> QED BY <1>4, <1>5, <1>6

\* An answer that is being prepared is the only one.
LEMMA PreparedOne ==
    ASSUME Requests, NEW o \in operations, NEW q, Becomes(o, q)
    PROVE  operations' = {q}
  BY DEF Requests, OneOperation, Becomes

\* What the core writes and reads for a request is fresh, and it lists nothing that was
\* confirmed to be deleted.
LEMMA CoreFresh == ASSUME ViewInv, ViewInv', FreshInv, Core PROVE FreshInv'
  <1>1. \A n \in Memories : GoesOn(n)
    BY CoreGoesOn
  <1>2. UNCHANGED <<memories, hasLoaded, listed, confirmed>>
    BY DEF Core, Automatic, LateWrite, Write, Read, ListBegins, ListReads, ListEnds, Refuse,
           shown, flags, past
  <1>3. /\ ListIsOfCore' /\ ConfirmedAreDeleted'
        /\ \A o \in operations : AnswerIsOfCore(o)'
    BY <1>1, <1>2, CoreOutlived
  <1>4. CASE UNCHANGED operations
    BY <1>3, <1>4 DEF FreshInv
  <1>5. ASSUME NEW o \in operations,
               Write(o) \/ Read(o) \/ ListBegins(o) \/ ListReads(o) \/ ListEnds(o) \/ Refuse(o)
        PROVE  FreshInv'
    <2>1. o \in Operation /\ Asked(o) /\ AnswerIsOfCore(o)' /\ AnswerIsOfCore(o)
      BY <1>3 DEF ViewInv, Requests, AskedWell, FreshInv
    <2>2. ASSUME NEW q, Becomes(o, q), AnswerIsOfCore(q)' PROVE FreshInv'
      BY <1>3, <2>2, PreparedOne DEF FreshInv, ViewInv
    <2>3. /\ latest \in [Memories -> Latest \cup {Absent}]
          /\ latest' \in [Memories -> Latest \cup {Absent}]
          /\ memories \in Table
      BY DEF ViewInv, Rest
    <2>4. \A m \in DOMAIN memories : /\ latest[m] # Absent
                                     /\ memories[m].number <= latest[m].number
      BY DEF FreshInv, ListIsOfCore
    <2>5. \A rev \in Latest : rev # Absent /\ rev.number \in Nat
      BY ViewAssumption DEF Latest
    <2>6. CASE Write(o)
      <3>1. PICK new \in NewRevision :
               /\ Written(o.op, latest[o.memory], new)
               /\ Commits(o.memory, new)
               /\ Becomes(o, [o EXCEPT !.step = "served", !.reply = [m \in {o.memory} |-> new]])
        BY <2>6 DEF Write
      <3> DEFINE q == [o EXCEPT !.step = "served", !.reply = [m \in {o.memory} |-> new]]
      <3>2. o.op \in Writes /\ o.memory \in Memories /\ new \in Latest
        BY <2>1, <2>6 DEF Write, Asked, Writes, NewRevision
      <3>3. latest'[o.memory] = new
        BY <2>3, <3>1, <3>2 DEF Commits
      <3>4. /\ q.op = o.op /\ q.memory = o.memory /\ q.step = "served"
            /\ DOMAIN q.reply = {o.memory} /\ q.reply[o.memory] = new
        BY <2>1 DEF Operation
      <3>5. latest[o.memory] # Absent /\ latest[o.memory].number <= new.number
        <4>1. latest[o.memory] # Absent
          BY <3>1 DEF Written
        <4>2. latest[o.memory].number <= latest'[o.memory].number
          BY <1>1, <3>2, <4>1 DEF GoesOn
        <4> QED BY <3>3, <4>1, <4>2
      <3>6. o.memory \in DOMAIN memories => memories[o.memory].number <= new.number
        <4>1. o.memory \in DOMAIN memories => memories[o.memory].number \in Nat
          BY <2>3, TableRows
        <4>2. latest[o.memory].number \in Nat /\ new.number \in Nat
          BY <2>3, <2>5, <3>2, <3>5
        <4> QED BY <2>4, <3>5, <4>1, <4>2
      <3>7. o.op = "delete" => new.lifecycle = "DELETED" /\ hasLoaded'
        BY <1>2, <2>1, <3>1 DEF Written, DeleteByUser, AnswerIsOfCore
      <3> HIDE DEF q
      <3>8. AnswerIsOfCore(q)'
        BY <1>2, <2>5, <3>2, <3>3, <3>4, <3>6, <3>7 DEF AnswerIsOfCore, Writes
      <3> QED BY <2>2, <3>1, <3>8 DEF q
    <2>7. CASE Read(o)
      <3>0. PICK q : q = [o EXCEPT !.step = "served", !.reply = [m \in {o.memory} |-> latest[m]]]
        OBVIOUS
      <3>1. /\ o.op \in {"inspect", "history"} /\ latest[o.memory] # Absent /\ Becomes(o, q)
            /\ UNCHANGED latest
        BY <2>7, <3>0 DEF Read
      <3>2. o.memory \in Memories /\ latest[o.memory].number \in Nat
        BY <2>1, <2>3, <2>5, <3>1 DEF Asked
      <3>3. /\ q.op = o.op /\ q.memory = o.memory /\ q.step = "served"
            /\ DOMAIN q.reply = {o.memory} /\ q.reply[o.memory] = latest[o.memory]
        BY <2>1, <3>0 DEF Operation
      <3>4. AnswerIsOfCore(q)'
        BY <1>2, <2>4, <3>1, <3>2, <3>3 DEF AnswerIsOfCore
      <3> QED BY <2>2, <3>1, <3>4
    <2>8. CASE ListBegins(o)
      <3>0. PICK q : q = [o EXCEPT !.step = "reading",
                                   !.todo = {m \in Memories : latest[m] # Absent}]
        OBVIOUS
      <3>1. Becomes(o, q) /\ o.op = "list" /\ o.step = "sent"
        BY <2>8, <3>0 DEF ListBegins
      <3>2. q.op = "list" /\ q.step = "reading" /\ q.reply = o.reply
        BY <2>1, <3>0, <3>1 DEF Operation
      <3>3. AnswerIsOfCore(q)'
        BY <2>1, <3>1, <3>2 DEF AnswerIsOfCore
      <3> QED BY <2>2, <3>1, <3>3
    <2>9. CASE ListReads(o)
      <3>1. PICK m \in o.todo : Becomes(o, [o EXCEPT
               !.todo = @ \ {m},
               !.reply = [n \in DOMAIN o.reply \cup {m} |->
                             IF n = m THEN latest[m] ELSE o.reply[n]]])
        BY <2>9 DEF ListReads
      <3>2. PICK q : q = [o EXCEPT
               !.todo = @ \ {m},
               !.reply = [n \in DOMAIN o.reply \cup {m} |->
                             IF n = m THEN latest[m] ELSE o.reply[n]]]
        OBVIOUS
      <3>3. o.op = "list" /\ o.step = "reading" /\ UNCHANGED latest
        BY <2>1, <2>9 DEF ListReads, Asked
      <3>4. m \in Memories /\ latest[m] # Absent /\ latest[m].number \in Nat
        BY <2>1, <2>3, <2>5 DEF Operation, ViewInv, TodoExists
      <3>5. /\ q.op = "list" /\ q.step = "reading"
            /\ DOMAIN q.reply = DOMAIN o.reply \cup {m}
            /\ q.reply[m] = latest[m]
            /\ \A n \in DOMAIN o.reply : n # m => q.reply[n] = o.reply[n]
        BY <2>1, <3>2, <3>3 DEF Operation
      <3>6. m \in confirmed => latest[m].lifecycle = "DELETED"
        BY DEF FreshInv, ConfirmedAreDeleted
      <3>7. AnswerIsOfCore(q)'
        BY <1>2, <2>1, <3>3, <3>4, <3>5, <3>6 DEF AnswerIsOfCore
      <3> QED BY <2>2, <3>2, <3>1, <3>7
    <2>10. CASE ListEnds(o)
      <3> DEFINE q == [o EXCEPT !.step = "served", !.reply = Visible(o.reply)]
      <3>1. Becomes(o, q) /\ o.op = "list" /\ o.step = "reading"
        BY <2>1, <2>10 DEF ListEnds, Asked
      <3>2. /\ q.op = "list"
            /\ \A n \in DOMAIN q.reply : /\ n \in DOMAIN o.reply
                                         /\ q.reply[n] = o.reply[n]
                                        /\ o.reply[n].lifecycle # "DELETED"
        BY <2>1, <3>1 DEF Operation, Visible
      <3> HIDE DEF q
      <3>3. AnswerIsOfCore(q)'
        BY <1>2, <2>1, <3>1, <3>2 DEF AnswerIsOfCore
      <3> QED BY <2>2, <3>1, <3>3
    <2>11. CASE Refuse(o)
      <3> DEFINE q == [o EXCEPT !.step = "refused"]
      <3>1. Becomes(o, q)
        BY <2>11 DEF Refuse
      <3>2. /\ q.op = o.op /\ q.memory = o.memory /\ q.reply = o.reply /\ q.step = "refused"
        BY <2>1 DEF Operation
      <3> HIDE DEF q
      <3>3. o.step # "served"
        BY <2>11 DEF Refuse
      <3>4. AnswerIsOfCore(q)'
        BY <2>1, <3>2, <3>3 DEF AnswerIsOfCore
      <3> QED BY <2>2, <3>1, <3>4
    <2> QED BY <1>5, <2>6, <2>7, <2>8, <2>9, <2>10, <2>11
  <1> QED BY <1>4, <1>5 DEF Core, Automatic, LateWrite

\* A new request knows nothing yet; a delete is one of a list that was loaded.
LEMMA AskingFresh ==
    ASSUME ListIsOfCore', ConfirmedAreDeleted',
           \A o \in operations' :
              o.step = "sent" /\ DOMAIN o.reply = {} /\ (o.op = "delete" => hasLoaded')
    PROVE  FreshInv'
  <1>1. ASSUME NEW o \in operations' PROVE AnswerIsOfCore(o)'
    <2>1. o.step = "sent" /\ DOMAIN o.reply = {} /\ (o.op = "delete" => hasLoaded')
      OBVIOUS
    <2>2. \A n : n \notin DOMAIN o.reply
      BY <2>1
    <2> QED BY <2>1, <2>2 DEF AnswerIsOfCore
  <1> QED BY <1>1 DEF FreshInv

\* What changes neither the list nor the requests changes nothing of this.
LEMMA RestingFresh ==
    ASSUME FreshInv, UNCHANGED <<latest, memories, hasLoaded, listed, confirmed, operations>>
    PROVE  FreshInv'
  BY DEF FreshInv, ListIsOfCore, ConfirmedAreDeleted, AnswerIsOfCore

\* The user clears the list, or leaves it as it is; there is nothing to delete in a list
\* that was not loaded.
LEMMA UserFresh == ASSUME ViewInv, FreshInv, User PROVE FreshInv'
  <1>1. CASE LoadAsync
    <2>1. CASE Asks("list", NoMemory, NoMemory) /\ memories' = NoRows /\ hasLoaded' = FALSE
      <3>1. \A o \in operations' : o.op = "list" /\ o.step = "sent" /\ DOMAIN o.reply = {}
        BY <1>1, <2>1, AskingOne DEF LoadAsync, ViewInv
      <3>2. ListIsOfCore' /\ ConfirmedAreDeleted'
        BY <1>1, <2>1 DEF LoadAsync, past, NoRows, FreshInv, ListIsOfCore, ConfirmedAreDeleted
      <3> QED BY <3>1, <3>2, AskingFresh
    <2>2. CASE Unconnected /\ UNCHANGED <<hasLoaded, shown>>
      BY <1>1, <2>2, RestingFresh DEF LoadAsync, Unconnected, shown, past
    <2> QED BY <1>1, <2>1, <2>2 DEF LoadAsync
  <1>2. ASSUME UNCHANGED <<latest, memories, hasLoaded, listed, confirmed>>
        PROVE  ListIsOfCore' /\ ConfirmedAreDeleted'
    BY <1>2 DEF FreshInv, ListIsOfCore, ConfirmedAreDeleted
  <1>3. ASSUME NEW op \in {"inspect", "history", "edit", "delete"},
               NEW whose \in Memories \cup {NoMemory}, NEW m \in DOMAIN memories,
               op = "edit" => whose = m,
               MayOperate, Asks(op, m, whose),
               UNCHANGED <<latest, memories, hasLoaded, listed, confirmed>>
        PROVE  FreshInv'
    <2>1. m \in Memories /\ hasLoaded
      BY TableRows DEF ViewInv, Rest, FreshInv, ListIsOfCore
    <2>2. \A o \in operations' : o.step = "sent" /\ DOMAIN o.reply = {}
      BY <1>3, <2>1, AskingOne DEF ViewInv
    <2> QED BY <1>2, <1>3, <2>1, <2>2, AskingFresh
  <1>4. selected # NoEntry => SelectedId \in DOMAIN memories
    BY DEF ViewInv, SelectionIsListed, SelectedId
  <1>5. CASE SaveAsync
    <2>1. text.of \in Memories \cup {NoMemory} /\ text.of = SelectedId
      BY DEF ViewInv, Display
    <2>2. CASE selected # NoEntry /\ Asks("edit", SelectedId, text.of)
      BY <1>3, <1>4, <1>5, <2>1, <2>2 DEF SaveAsync, shown, past
    <2>3. CASE UNCHANGED operations
      BY <1>5, <2>3, RestingFresh DEF SaveAsync, shown, past
    <2> QED BY <1>5, <2>2, <2>3 DEF SaveAsync, Unconnected
  <1>6. ASSUME NEW op \in {"delete", "history"}, DeleteOrHistoryAsync(op) PROVE FreshInv'
    <2>1. CASE selected # NoEntry /\ Asks(op, SelectedId, NoMemory)
      BY <1>3, <1>4, <1>6, <2>1 DEF DeleteOrHistoryAsync, shown, past
    <2>2. CASE UNCHANGED operations
      BY <1>6, <2>2, RestingFresh DEF DeleteOrHistoryAsync, shown, past
    <2> QED BY <1>6, <2>1, <2>2 DEF DeleteOrHistoryAsync, Unconnected
  <1>7. ASSUME NEW m \in Memories, UserSelects(m) PROVE FreshInv'
    <2>1. CASE MayOperate /\ Asks("inspect", m, NoMemory)
      BY <1>3, <1>7, <2>1 DEF UserSelects, past
    <2>2. CASE UNCHANGED operations
      BY <1>7, <2>2, RestingFresh DEF UserSelects, past
    <2> QED BY <1>7, <2>1, <2>2 DEF UserSelects, InspectSelected, Unconnected
  <1>8. CASE UserDeselects \/ UserTypes \/ HideHistory
    BY <1>8, RestingFresh DEF UserDeselects, UserTypes, HideHistory, flags, past
  <1> QED BY <1>1, <1>5, <1>6, <1>7, <1>8 DEF User

\* An answer brings the list forward, and a confirmed deletion takes its memory away.
LEMMA AnswerFresh == ASSUME ViewInv, FreshInv, Answer PROVE FreshInv'
  <1>1. PICK o \in operations :
           OnList(o) \/ OnInspect(o) \/ OnEdit(o) \/ OnDelete(o) \/ OnHistory(o) \/ OnFailure(o)
    BY DEF Answer
  <1>2. o \in Operation /\ Asked(o) /\ AnswerIsOfCore(o)
    BY DEF ViewInv, Requests, AskedWell, FreshInv
  <1>3. operations' = {} /\ UNCHANGED latest
    <2>1. Ends(o) /\ UNCHANGED latest
      BY <1>1 DEF OnList, OnInspect, OnEdit, OnDelete, OnHistory, OnFailure
    <2> QED BY <2>1, EndingOne DEF ViewInv
  <1>4. SUFFICES ListIsOfCore' /\ ConfirmedAreDeleted'
    BY <1>3 DEF FreshInv
  <1>5. ListIsOfCore /\ ConfirmedAreDeleted
    BY DEF FreshInv
  <1>6. ASSUME UNCHANGED <<memories, hasLoaded, listed, confirmed>>
        PROVE  ListIsOfCore' /\ ConfirmedAreDeleted'
    BY <1>3, <1>5, <1>6 DEF ListIsOfCore, ConfirmedAreDeleted
  <1>7. CASE OnList(o)
    <2>1. DOMAIN memories = {} /\ o.op = "list" /\ o.step = "served"
      BY <1>7 DEF OnList, Answered, ViewInv, LoadingIsBlank
    <2>2. /\ DOMAIN memories' = DOMAIN o.reply
          /\ \A m \in DOMAIN o.reply : memories'[m] = o.reply[m]
          /\ hasLoaded' = TRUE /\ listed' = DOMAIN o.reply /\ confirmed' = confirmed
      BY <1>7, <2>1 DEF OnList
    <2>3. ListIsOfCore'
      BY <1>2, <1>3, <2>2 DEF ListIsOfCore, AnswerIsOfCore
    <2>4. ConfirmedAreDeleted'
      BY <1>2, <1>3, <1>5, <2>1, <2>2 DEF ConfirmedAreDeleted, AnswerIsOfCore
    <2> QED BY <2>3, <2>4
  <1>8. CASE OnInspect(o) \/ OnEdit(o)
    <2>1. CASE UNCHANGED memories
      BY <1>6, <1>8, <2>1 DEF OnInspect, OnEdit, past
    <2>2. CASE memories' = Replaced(o.memory, o.reply[o.memory])
      <3>1. o.memory \in DOMAIN o.reply
        BY <1>2, <1>8 DEF OnInspect, OnEdit, Answered, Asked
      <3>2. /\ DOMAIN memories' = DOMAIN memories
            /\ \A m \in DOMAIN memories :
                  memories'[m] = IF m = o.memory THEN o.reply[m] ELSE memories[m]
        BY <2>2 DEF Replaced
      <3>3. UNCHANGED <<hasLoaded, listed, confirmed>>
        BY <1>8 DEF OnInspect, OnEdit, past
      <3>4. ListIsOfCore'
        BY <1>2, <1>3, <1>5, <3>1, <3>2, <3>3 DEF ListIsOfCore, AnswerIsOfCore
      <3>5. ConfirmedAreDeleted'
        BY <1>3, <1>5, <3>2, <3>3 DEF ConfirmedAreDeleted
      <3> QED BY <3>4, <3>5
    <2> QED BY <1>8, <2>1, <2>2 DEF OnInspect, OnEdit, shown
  <1>9. CASE OnDelete(o)
    <2>1. /\ o.op = "delete" /\ o.step = "served"
          /\ memories' = Removed(o.memory) /\ hasLoaded' = TRUE
          /\ confirmed' = confirmed \cup {o.memory} /\ listed' = listed
      BY <1>9 DEF OnDelete, Answered
    <2>2. hasLoaded /\ latest[o.memory] # Absent /\ latest[o.memory].lifecycle = "DELETED"
      BY <1>2, <2>1 DEF AnswerIsOfCore
    <2>3. /\ DOMAIN memories' = DOMAIN memories \ {o.memory}
          /\ \A m \in DOMAIN memories' : memories'[m] = memories[m]
      BY <2>1 DEF Removed
    <2>4. ListIsOfCore'
      BY <1>3, <1>5, <2>1, <2>2, <2>3 DEF ListIsOfCore
    <2>5. ConfirmedAreDeleted'
      BY <1>3, <1>5, <2>1, <2>2, <2>3 DEF ConfirmedAreDeleted
    <2> QED BY <2>4, <2>5
  <1>10. CASE OnHistory(o) \/ OnFailure(o)
    BY <1>6, <1>10 DEF OnHistory, OnFailure, shown, past
  <1> QED BY <1>1, <1>7, <1>8, <1>9, <1>10

\* Both invariants together are inductive.
LEMMA FreshStep == ViewInv /\ ViewInv' /\ FreshInv /\ [ViewNext]_viewVars => FreshInv'
  <1> SUFFICES ASSUME ViewInv, ViewInv', FreshInv, [ViewNext]_viewVars PROVE FreshInv'
    OBVIOUS
  <1>1. CASE ConnectionChanges \/ UNCHANGED viewVars
    BY <1>1, RestingFresh DEF ConnectionChanges, viewVars, shown, flags, past
  <1> QED BY <1>1, UserFresh, CoreFresh, AnswerFresh DEF ViewNext

\* A tab that has just been opened lists nothing, and knows of no deletion.
LEMMA FreshInit == ViewInit => FreshInv
  BY DEF ViewInit, NoRows, FreshInv, ListIsOfCore, ConfirmedAreDeleted

\* The list, every answer under way and every confirmed deletion are related to the core's
\* memories in this way in every reachable state.
THEOREM FreshInvariant == ViewSpec => []FreshInv
  BY ViewInvariant, FreshInit, FreshStep, PTL DEF ViewSpec

\* A memory whose deletion the core has confirmed is gone from the list, the detail pane
\* and the history, although lists are read one memory at a time and answers applied late.
THEOREM ConfirmedDeletionsAreGoneHolds == ViewSpec => []ConfirmedDeletionsAreGone
  <1>1. ViewInv /\ FreshInv => ConfirmedDeletionsAreGone
    <2> SUFFICES ASSUME ViewInv, FreshInv, NEW m \in confirmed
                 PROVE  m \notin DOMAIN memories \cup {SelectedId, history}
      BY DEF ConfirmedDeletionsAreGone
    <2>1. m \notin DOMAIN memories /\ m \in Memories
      BY DEF FreshInv, ConfirmedAreDeleted, ViewInv, Rest
    <2>2. m # SelectedId
      BY <2>1, ViewAssumption DEF ViewInv, SelectionIsListed, SelectedId
    <2>3. m # history
      BY <2>1, <2>2, ViewAssumption DEF ViewInv, Display, HistoryIsOfSelected
    <2> QED BY <2>1, <2>2, <2>3
  <1> QED BY <1>1, ViewInvariant, FreshInvariant, PTL

\* "No Memory entries." stands there only if the core listed nothing, or nothing but what
\* was deleted since.
THEOREM EmptyIsTruthfulHolds == ViewSpec => []EmptyIsTruthful
  <1>1. FreshInv => EmptyIsTruthful
    BY DEF FreshInv, ListIsOfCore, EmptyIsTruthful, IsEmpty
  <1> QED BY <1>1, FreshInvariant, PTL

\* No answer, however late it is applied, replaces what is listed by an older revision.
THEOREM ShownNeverGoesBackHolds == ViewSpec => ShownNeverGoesBack
  <1> DEFINE Forward == \A m \in DOMAIN memories \cap DOMAIN memories' :
                           memories[m].number <= memories'[m].number
  <1>1. ViewInv /\ FreshInv /\ [ViewNext]_viewVars => [Forward]_memories
    <2> SUFFICES ASSUME ViewInv, FreshInv, ViewNext, memories' # memories,
                        NEW m \in DOMAIN memories, m \in DOMAIN memories'
                 PROVE  memories[m].number <= memories'[m].number
      BY DEF viewVars, shown
    <2>1. memories[m].number \in Nat
      BY TableRows DEF ViewInv, Rest
    <2>2. CASE User
      <3>1. memories' = NoRows
        BY <2>2 DEF User, LoadAsync, SaveAsync, DeleteOrHistoryAsync, UserSelects, UserDeselects,
                    UserTypes, HideHistory, shown
      <3> QED BY <3>1 DEF NoRows
    <2>3. CASE Core \/ ConnectionChanges
      BY <2>3 DEF Core, Automatic, LateWrite, Write, Read, ListBegins, ListReads, ListEnds, Refuse,
                  ConnectionChanges, shown
    <2>4. CASE Answer
      <3>1. PICK o \in operations :
               OnList(o) \/ OnInspect(o) \/ OnEdit(o) \/ OnDelete(o) \/ OnHistory(o) \/ OnFailure(o)
        BY <2>4 DEF Answer
      <3>2. Asked(o) /\ AnswerIsOfCore(o)
        BY DEF ViewInv, Requests, AskedWell, FreshInv
      <3>3. CASE OnList(o)
        BY <3>3 DEF OnList, Answered, ViewInv, LoadingIsBlank
      <3>4. CASE OnInspect(o) \/ OnEdit(o)
        <4>1. memories' = Replaced(o.memory, o.reply[o.memory])
          BY <3>4 DEF OnInspect, OnEdit, shown
        <4>2. o.op \in {"inspect", "edit"} /\ o.memory \in DOMAIN o.reply
          BY <3>2, <3>4 DEF OnInspect, OnEdit, Answered, Asked
        <4>3. memories'[m] = IF m = o.memory THEN o.reply[m] ELSE memories[m]
          BY <4>1 DEF Replaced
        <4> QED BY <2>1, <3>2, <4>2, <4>3 DEF AnswerIsOfCore
      <3>5. CASE OnDelete(o)
        <4>1. memories'[m] = memories[m]
          BY <3>5 DEF OnDelete, Removed
        <4> QED BY <2>1, <4>1
      <3>6. CASE OnHistory(o) \/ OnFailure(o)
        BY <3>6 DEF OnHistory, OnFailure, shown
      <3> QED BY <3>1, <3>3, <3>4, <3>5, <3>6
    <2> QED BY <2>2, <2>3, <2>4 DEF ViewNext
  <1> QED BY <1>1, ViewInvariant, FreshInvariant, PTL DEF ViewSpec, ShownNeverGoesBack
=============================================================================
