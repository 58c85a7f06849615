----------------------------- MODULE MemoryView -----------------------------
(***************************************************************************)
(* The memory tab of the desktop: MemoryManagementViewModel.cs, the window *)
(* that calls it and the list box bound to it, in front of a core that     *)
(* keeps the promises of MemoryLifecycle.                                  *)
(*                                                                         *)
(* Everything here runs on the UI thread; an operation is cut in two by    *)
(* the await of its answer, and between the two the user selects, types    *)
(* and closes the history, the connection comes and goes, and the core     *)
(* learns and expires.  An answer may be lost after the core has acted, and *)
(* a request that was given up may still be carried out later.             *)
(***************************************************************************)
EXTENDS MemoryLifecycle

CONSTANTS NoMemory, NoEntry

ASSUME ViewAssumption ==
    /\ MaxRevision \in Nat \ {0}
    /\ NoMemory \notin Memories
    /\ NoEntry \notin [memory : Memories, rev : Latest]
    /\ Absent \notin Latest

VARIABLES
    connected,      \* IsConnected
    memories,       \* Memories: the entries listed, by memory_id
    selected,       \* SelectedMemory
    text,           \* SelectedMemoryContent: whose content or edit it is, and if blank
    history,        \* whose revisions History holds
    historyVisible, \* IsHistoryVisible
    busy,           \* IsBusy
    hasLoaded,      \* HasLoaded
    failed,         \* ErrorMessage is not null
    operations,     \* the operations that await their answer
    late,           \* requests given up that the core may still carry out
    listed,         \* history: the memories of the last list shown
    confirmed       \* history: the memories whose deletion was answered

shown == <<memories, selected, text, history, historyVisible>>
flags == <<busy, hasLoaded, failed>>
past == <<listed, confirmed>>
viewVars == <<latest, connected, shown, flags, operations, late, past>>

\* A revision without content is a tombstone.
NewRevision == {rev \in Latest : rev.lifecycle = "DELETED" <=> rev.payload = NoPayload}

Entry == [memory : Memories, rev : Latest]
Writes == {"edit", "delete"}
Table == UNION {[D -> Latest] : D \in SUBSET Memories}
NoRows == [m \in {} |-> Absent]

\* A request with what the core has made of it: the rows read so far are its answer.
Operation == [op : {"list", "inspect", "history"} \cup Writes,
              memory : Memories \cup {NoMemory},
              text : Memories \cup {NoMemory},
              step : {"sent", "reading", "served", "refused"},
              todo : SUBSET Memories,
              reply : Table]

ViewTypeOK ==
    /\ latest \in [Memories -> Latest \cup {Absent}]
    /\ connected \in BOOLEAN
    /\ memories \in Table
    /\ selected \in Entry \cup {NoEntry}
    /\ text \in [of : Memories \cup {NoMemory}, blank : BOOLEAN]
    /\ history \in Memories \cup {NoMemory}
    /\ historyVisible \in BOOLEAN /\ busy \in BOOLEAN
    /\ hasLoaded \in BOOLEAN /\ failed \in BOOLEAN
    /\ operations \subseteq Operation
    /\ late \subseteq [op : Writes, memory : Memories]
    /\ listed \subseteq Memories /\ confirmed \subseteq Memories

NoText == [of |-> NoMemory, blank |-> TRUE]

ViewInit ==
    /\ LifecycleInit
    /\ connected = FALSE
    /\ memories = NoRows
    /\ selected = NoEntry
    /\ text = NoText
    /\ history = NoMemory
    /\ historyVisible = FALSE
    /\ busy = FALSE /\ hasLoaded = FALSE /\ failed = FALSE
    /\ operations = {} /\ late = {}
    /\ listed = {} /\ confirmed = {}

-----------------------------------------------------------------------------
(* The view model's properties.                                            *)

SelectedId == IF selected = NoEntry THEN NoMemory ELSE selected.memory

IsSelectedMemoryBug(m) == TRUE
IsSelectedMemory(m) == SelectedId = m

IsLoading == \E o \in operations : o.op = "list"

IsEmptyBug == ~IsLoading /\ ~failed /\ DOMAIN memories = {}
IsEmpty == hasLoaded /\ ~IsLoading /\ ~failed /\ DOMAIN memories = {}

TextOfBug(e) == text
TextOf(e) ==
    IF e = NoEntry THEN NoText
    ELSE [of |-> e.memory, blank |-> e.rev.payload = NoPayload]

\* The setter of SelectedMemory, which two-way binding calls as well.  Setting
\* what is there already does nothing.
SetSelected(e) ==
    /\ selected' = e
    /\ IF e = selected
       THEN UNCHANGED <<text, history, historyVisible>>
       ELSE /\ text' = TextOf(e)
            /\ history' = NoMemory
            /\ historyVisible' = FALSE

\* ReplaceMemory: nothing happens to a list without the memory
Replaced(m, rev) ==
    [n \in DOMAIN memories |-> IF n = m THEN rev ELSE memories[n]]

Removed(m) == [n \in DOMAIN memories \ {m} |-> memories[n]]

\* A list box whose selected item is replaced, removed or cleared away has no selection.
ListBoxDrops(m) ==
    selected # NoEntry /\ m \in DOMAIN memories
        /\ selected = [memory |-> m, rev |-> memories[m]]

-----------------------------------------------------------------------------
(* Beginning an operation.                                                 *)

MayOperateBug == TRUE
MayOperate == ~busy

Asks(op, m, whose) ==
    /\ connected
    /\ busy' = TRUE
    /\ failed' = FALSE
    /\ operations' = operations \cup
          {[op |-> op, memory |-> m, text |-> whose, step |-> "sent",
            todo |-> {}, reply |-> NoRows]}

\* EnsureConnected
Unconnected ==
    /\ ~connected
    /\ failed' = TRUE
    /\ UNCHANGED <<busy, operations>>

LoadAsync ==
    /\ MayOperate
    /\ \/ /\ Asks("list", NoMemory, NoMemory)
          /\ hasLoaded' = FALSE
          /\ memories' = NoRows
          /\ SetSelected(NoEntry)
       \/ Unconnected /\ UNCHANGED <<hasLoaded, shown>>
    /\ UNCHANGED <<latest, connected, late, past>>

InspectSelected(m) ==
    IF MayOperate
    THEN Asks("inspect", m, NoMemory) \/ Unconnected
    ELSE UNCHANGED <<busy, failed, operations>>

\* The user picks another entry of the list: SelectionChanged inspects it, unless an
\* operation is under way.
UserSelects(m) ==
    /\ m \in DOMAIN memories
    /\ SelectedId # m
    /\ SetSelected([memory |-> m, rev |-> memories[m]])
    /\ InspectSelected(m)
    /\ UNCHANGED <<latest, connected, memories, hasLoaded, late, past>>

UserDeselects ==
    /\ selected # NoEntry
    /\ SetSelected(NoEntry)
    /\ UNCHANGED <<latest, connected, memories, flags, operations, late, past>>

\* The text box is enabled while there is a selection, busy or not.
UserTypes ==
    /\ selected # NoEntry
    /\ text' \in {[of |-> SelectedId, blank |-> b] : b \in BOOLEAN}
    /\ UNCHANGED <<latest, connected, memories, selected, history, historyVisible,
                   flags, operations, late, past>>

SaveAsync ==
    /\ MayOperate
    /\ \/ Unconnected
       \/ /\ connected /\ selected # NoEntry
          /\ IF text.blank
             THEN failed' = TRUE /\ UNCHANGED <<busy, operations>>
             ELSE Asks("edit", SelectedId, text.of)
    /\ UNCHANGED <<latest, connected, shown, hasLoaded, late, past>>

DeleteOrHistoryAsync(op) ==
    /\ MayOperate
    /\ \/ Unconnected /\ (op = "delete" => selected # NoEntry)
       \/ selected # NoEntry /\ Asks(op, SelectedId, NoMemory)
    /\ UNCHANGED <<latest, connected, shown, hasLoaded, late, past>>

HideHistory ==
    /\ historyVisible
    /\ historyVisible' = FALSE
    /\ UNCHANGED <<latest, connected, memories, selected, text, history, flags,
                   operations, late, past>>

-----------------------------------------------------------------------------
(* The core: other actors change memories, and requests are served.        *)

Commits(m, new) == latest' = [latest EXCEPT ![m] = new]

\* a chat turn or the retention loop
Automatic(m) ==
    /\ \E new \in NewRevision :
          /\ IF latest[m] = Absent
             THEN Learn(new)
             ELSE Correct(latest[m], new) \/ LearnAnew(latest[m], new)
                    \/ Expire(latest[m], new)
          /\ Commits(m, new)
    /\ UNCHANGED <<connected, shown, flags, operations, late, past>>

Written(op, old, new) ==
    /\ old # Absent
    /\ op = "edit" => EditByUser(old, new)
    /\ op = "delete" => DeleteByUser(old, new)

Becomes(o, p) == operations' = (operations \ {o}) \cup {p}

Write(o) ==
    /\ o.op \in Writes /\ o.step = "sent"
    /\ \E new \in NewRevision :
          /\ Written(o.op, latest[o.memory], new)
          /\ Commits(o.memory, new)
          /\ Becomes(o, [o EXCEPT !.step = "served", !.reply = [m \in {o.memory} |-> new]])
    /\ UNCHANGED <<connected, shown, flags, late, past>>

Read(o) ==
    /\ o.op \in {"inspect", "history"} /\ o.step = "sent"
    /\ latest[o.memory] # Absent
    /\ Becomes(o, [o EXCEPT !.step = "served",
                            !.reply = [m \in {o.memory} |-> latest[m]]])
    /\ UNCHANGED <<latest, connected, shown, flags, late, past>>

\* list_memories, then the latest revision of one memory after the other
ListBegins(o) ==
    /\ o.op = "list" /\ o.step = "sent"
    /\ Becomes(o, [o EXCEPT !.step = "reading",
                            !.todo = {m \in Memories : latest[m] # Absent}])
    /\ UNCHANGED <<latest, connected, shown, flags, late, past>>

ListReads(o) ==
    /\ o.step = "reading"
    /\ \E m \in o.todo :
          Becomes(o, [o EXCEPT
             !.todo = @ \ {m},
             !.reply = [n \in DOMAIN o.reply \cup {m} |->
                           IF n = m THEN latest[m] ELSE o.reply[n]]])
    /\ UNCHANGED <<latest, connected, shown, flags, late, past>>

VisibleBug(rows) == rows
Visible(rows) == [m \in {n \in DOMAIN rows : rows[n].lifecycle # "DELETED"} |-> rows[m]]

ListEnds(o) ==
    /\ o.step = "reading" /\ o.todo = {}
    /\ Becomes(o, [o EXCEPT !.step = "served", !.reply = Visible(o.reply)])
    /\ UNCHANGED <<latest, connected, shown, flags, late, past>>

\* not found, deleted, not ACTIVE, or storage that fails: a memory.error
Refuse(o) ==
    /\ o.step \in {"sent", "reading"}
    /\ Becomes(o, [o EXCEPT !.step = "refused"])
    /\ UNCHANGED <<latest, connected, shown, flags, late, past>>

\* a write whose caller has given up
LateWrite(r) ==
    /\ \E new \in NewRevision : Written(r.op, latest[r.memory], new) /\ Commits(r.memory, new)
    /\ late' = late \ {r}
    /\ UNCHANGED <<connected, shown, flags, operations, past>>

-----------------------------------------------------------------------------
(* The answers, each the rest of its operation after the await.            *)

Ends(o) == operations' = operations \ {o} /\ busy' = FALSE

Answered(o, op) == o.step = "served" /\ o.op = op

OnList(o) ==
    /\ Answered(o, "list")
    /\ memories' = [m \in DOMAIN memories \cup DOMAIN o.reply |->
                       IF m \in DOMAIN o.reply THEN o.reply[m] ELSE memories[m]]
    /\ hasLoaded' = TRUE
    /\ listed' = DOMAIN o.reply
    /\ Ends(o)
    /\ UNCHANGED <<latest, connected, selected, text, history, historyVisible, failed,
                   late, confirmed>>

\* Replacing the entry drops the selection, setting it brings it back: the text and
\* the history are reset whatever the user did meanwhile.
OnInspect(o) ==
    LET m == o.memory
        rev == o.reply[m] IN
    /\ Answered(o, "inspect")
    /\ IF IsSelectedMemory(m)
       THEN /\ memories' = Replaced(m, rev)
            /\ selected' = [memory |-> m, rev |-> rev]
            /\ text' = TextOf(selected')
            /\ history' = NoMemory /\ historyVisible' = FALSE
       ELSE UNCHANGED shown
    /\ Ends(o)
    /\ UNCHANGED <<latest, connected, hasLoaded, failed, late, past>>

\* A selected entry loses its selection as it is replaced, so it is not set anew.
OnEdit(o) ==
    LET m == o.memory
        rev == o.reply[m] IN
    /\ Answered(o, "edit")
    /\ memories' = Replaced(m, rev)
    /\ SetSelected(CASE ListBoxDrops(m) -> NoEntry
                     [] ~ListBoxDrops(m) /\ IsSelectedMemory(m) -> [memory |-> m, rev |-> rev]
                     [] OTHER -> selected)
    /\ Ends(o)
    /\ UNCHANGED <<latest, connected, hasLoaded, failed, late, past>>

OnDelete(o) ==
    /\ Answered(o, "delete")
    /\ memories' = Removed(o.memory)
    /\ SetSelected(IF IsSelectedMemory(o.memory) THEN NoEntry ELSE selected)
    /\ hasLoaded' = TRUE
    /\ confirmed' = confirmed \cup {o.memory}
    /\ Ends(o)
    /\ UNCHANGED <<latest, connected, failed, late, listed>>

OnHistory(o) ==
    /\ Answered(o, "history")
    /\ IF IsSelectedMemory(o.memory)
       THEN history' = o.memory /\ historyVisible' = TRUE
       ELSE UNCHANGED <<history, historyVisible>>
    /\ Ends(o)
    /\ UNCHANGED <<latest, connected, memories, selected, text, hasLoaded, failed,
                   late, past>>

\* A memory.error, an answer of the wrong type or a failed send sets ErrorMessage; a
\* cancellation (disconnecting cancels what is pending) clears it.
OnFailure(o) ==
    /\ failed' \in {TRUE, o.step = "refused"}
    /\ late' = late \cup {[op |-> p.op, memory |-> p.memory] :
                             p \in {q \in {o} : q.op \in Writes /\ q.step = "sent"}}
    /\ Ends(o)
    /\ UNCHANGED <<latest, connected, shown, hasLoaded, past>>

\* connect, disconnect, or a socket that dies
ConnectionChanges ==
    /\ connected' = ~connected
    /\ UNCHANGED <<latest, shown, flags, operations, late, past>>

-----------------------------------------------------------------------------
User ==
    \/ LoadAsync
    \/ SaveAsync
    \/ DeleteOrHistoryAsync("delete")
    \/ DeleteOrHistoryAsync("history")
    \/ \E m \in Memories : UserSelects(m)
    \/ UserDeselects
    \/ UserTypes
    \/ HideHistory

Core ==
    \/ \E m \in Memories : Automatic(m)
    \/ \E r \in late : LateWrite(r)
    \/ \E o \in operations :
          Write(o) \/ Read(o) \/ ListBegins(o) \/ ListReads(o) \/ ListEnds(o) \/ Refuse(o)

Answer ==
    \E o \in operations :
        OnList(o) \/ OnInspect(o) \/ OnEdit(o) \/ OnDelete(o) \/ OnHistory(o) \/ OnFailure(o)

ViewNext == User \/ Core \/ Answer \/ ConnectionChanges

ViewSpec == ViewInit /\ [][ViewNext]_viewVars

-----------------------------------------------------------------------------
(* Properties.                                                             *)

\* What the text box holds was shown or typed for the selected memory, and a save
\* carries such a text: no edit ends up in another memory, although the selection
\* may change while an operation is under way.
TextIsOfSelected ==
    /\ text.of = SelectedId
    /\ \A o \in operations : o.op = "edit" => o.text = o.memory

\* The detail pane and the list never show two versions of a memory.
SelectionIsListed ==
    selected # NoEntry => /\ selected.memory \in DOMAIN memories
                          /\ memories[selected.memory] = selected.rev

\* The history on display is that of the selected memory, although it may arrive after
\* the user has selected another.
HistoryIsOfSelected ==
    /\ history # NoMemory => history = SelectedId
    /\ historyVisible => history # NoMemory

\* List, detail pane and history stay about one version of one memory, whatever
\* answers arrive after the selection has moved on.
DisplayIsOfOneMemory == SelectionIsListed /\ HistoryIsOfSelected

\* The busy flag admits one operation, and is not left set when there is none.
OneOperation == (\A o, p \in operations : o = p) /\ (busy <=> operations # {})

\* What the list shows of a memory is never replaced by something older, although
\* answers are read from the core long before they are applied.
ShownNeverGoesBack ==
    [][\A m \in DOMAIN memories \cap DOMAIN memories' :
          memories[m].number <= memories'[m].number]_memories

\* A memory whose deletion the core has confirmed is gone from the list, the detail
\* pane and the history, and no refresh brings it back.
ConfirmedDeletionsAreGone ==
    confirmed \cap (DOMAIN memories \cup {SelectedId, history}) = {}

\* "No Memory entries." is shown only if the core said so or all it listed has been
\* deleted: a refresh that fails or is cancelled never looks like an empty memory.
EmptyIsTruthful == IsEmpty => listed \subseteq confirmed
=============================================================================
