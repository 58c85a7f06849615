----------------------------- MODULE EventQueue -----------------------------
(***************************************************************************)
(* What the event bus promises whoever publishes: a bounded queue whose    *)
(* events are delivered in the order of their admission, and which ends    *)
(* once and for all.  It ends with an event undelivered only if something  *)
(* has excused it: a subscriber that broke, or a close() that was          *)
(* cancelled.                                                              *)
(***************************************************************************)
EXTENDS Integers, Sequences

CONSTANTS Items, Bound

VARIABLES
    phase,          \* "new", "open", "closing" or "closed"
    pending,        \* admitted and not delivered
    delivered,      \* in the order of delivery
    excused

queueVars == <<phase, pending, delivered, excused>>

QueueInit ==
    /\ phase = "new"
    /\ pending = <<>>
    /\ delivered = <<>>
    /\ excused = FALSE

Open ==
    /\ phase = "new"
    /\ phase' = "open"
    /\ UNCHANGED <<pending, delivered, excused>>

Admit(item) ==
    /\ phase = "open"
    /\ Len(pending) < Bound
    /\ pending' = Append(pending, item)
    /\ UNCHANGED <<phase, delivered, excused>>

Deliver ==
    /\ phase \in {"open", "closing"}
    /\ pending # <<>>
    /\ delivered' = Append(delivered, Head(pending))
    /\ pending' = Tail(pending)
    /\ UNCHANGED <<phase, excused>>

BeginClose ==
    /\ phase = "open"
    /\ phase' = "closing"
    /\ UNCHANGED <<pending, delivered, excused>>

Excuse ==
    /\ phase # "new"
    /\ excused' = TRUE
    /\ UNCHANGED <<phase, pending, delivered>>

\* what is pending is dropped, which takes an excuse
End ==
    /\ phase # "closed"
    /\ phase' = "closed"
    /\ pending' = <<>>
    /\ excused' \in {excused, TRUE}
    /\ pending # <<>> => excused'
    /\ UNCHANGED delivered

QueueNext ==
    \/ Open
    \/ \E item \in Items : Admit(item)
    \/ Deliver
    \/ BeginClose
    \/ Excuse
    \/ End

QueueSpec == QueueInit /\ [][QueueNext]_queueVars
=============================================================================
