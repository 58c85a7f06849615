--------------------------- MODULE MemoryProtocol ---------------------------
(***************************************************************************)
(* The memory.* messages between the desktop and the core: what the        *)
(* desktop's builders let through and write (MemoryProtocol.cs), what the  *)
(* core's handler makes of it (protocol.py), what the core answers and     *)
(* what the desktop reads in the answer.  Both sides are pure functions;   *)
(* the modules with state take their agreement for granted.                *)
(*                                                                         *)
(* A JSON object is a function from the fields that are present to their   *)
(* values; a time is its ISO string, as the desktop keeps it.              *)
(***************************************************************************)
EXTENDS Integers

CONSTANTS
    Ids,            \* UUIDs
    Spellings,      \* strings in the place of a UUID
    GuidTryParse, PythonUUID,   \* what each side reads in a spelling
    Canonical,      \* how both sides write a UUID
    Texts,          \* strings
    Moments,        \* times, as ISO strings
    DesktopBlank,   \* those IsNullOrWhiteSpace holds of
    CoreBlank,      \* those strip() makes empty
    IntMax,         \* the largest int of the desktop: 2^31 - 1
    Null,           \* JSON null, null, None
    Refused         \* no value: an exception

\* Both libraries read the form both write.  .NET's white space is Python's without
\* U+001C to U+001F.
ASSUME ProtocolAssumption ==
    /\ GuidTryParse \in [Spellings -> Ids \cup {Refused}]
    /\ PythonUUID \in [Spellings -> Ids \cup {Refused}]
    /\ Canonical \in [Ids -> Spellings]
    /\ \A id \in Ids : GuidTryParse[Canonical[id]] = id /\ PythonUUID[Canonical[id]] = id
    /\ DesktopBlank \subseteq CoreBlank /\ CoreBlank \subseteq Texts
    /\ Null \notin Texts \cup Moments \cup Ids
    /\ Refused \notin Texts \cup Ids
    /\ Null # Refused
    /\ IntMax \in Nat
    /\ Null \notin {"user_profile", "working_context", "episodic", "relationship",
                   "global_user", "character", "other"}

Domains == {"user_profile", "working_context", "episodic", "relationship"}
ScopeKinds == {"global_user", "character"}
Lifecycles == {"active", "superseded", "expired", "deleted"}
Sources == {"user_edit", "user_explicit", "automatic_explicit_fact", "system_observed"}

\* domain and scope of a memory, and of a request to list
RequiredKind(domain) == IF domain = "relationship" THEN "character" ELSE "global_user"

Compatible(domain, scope) ==
    domain # Null /\ scope # Null => scope.kind = RequiredKind(domain)

Get(object, field) == IF field \in DOMAIN object THEN object[field] ELSE Null

-----------------------------------------------------------------------------
(* The desktop writes a request.                                           *)

\* a scope somebody may have filled in by hand
ScopeArgument == [kind : ScopeKinds \cup {"other"}, character_id : Texts \cup {Null}]

ValidScope(scope) ==
    \/ scope = Null
    \/ scope.kind = "global_user" /\ scope.character_id = Null
    \/ scope.kind = "character" /\ scope.character_id \notin DesktopBlank \cup {Null}

MayList(domain, scope) ==
    /\ domain \in Domains \cup {Null}
    /\ ValidScope(scope)
    /\ Compatible(domain, scope)

MayAsk(spelling) == GuidTryParse[spelling] # Refused

MayEdit(spelling, content) == MayAsk(spelling) /\ content \notin DesktopBlank

\* JsonIgnoreCondition.WhenWritingNull
WithoutNulls(record) ==
    [field \in {f \in DOMAIN record : record[f] # Null} |-> record[field]]

\* null is no object
ASSUME ObjectAssumption ==
    \A scope \in ScopeArgument : scope # Null /\ WithoutNulls(scope) # Null

ListPayload(domain, scope) ==
    WithoutNulls([domain |-> domain,
                  scope |-> IF scope = Null THEN Null ELSE WithoutNulls(scope)])

IdPayload(spelling) == [memory_id |-> Canonical[GuidTryParse[spelling]]]

EditPayload(spelling, content) ==
    [memory_id |-> Canonical[GuidTryParse[spelling]], content |-> content]

-----------------------------------------------------------------------------
(* The core reads it.                                                      *)

AcceptsScope(value) ==
    \/ value = Null
    \/ /\ value.kind = "global_user"
       /\ DOMAIN value \subseteq {"kind", "character_id"}
       /\ Get(value, "character_id") = Null
    \/ /\ value.kind = "character"
       /\ DOMAIN value = {"kind", "character_id"}
       /\ value.character_id \notin CoreBlank \cup {Null}

ScopeOf(value) ==
    IF value = Null THEN Null
    ELSE [kind |-> value.kind, character_id |-> Get(value, "character_id")]

AcceptsList(payload) ==
    /\ DOMAIN payload \subseteq {"domain", "scope"}
    /\ Get(payload, "domain") \in Domains \cup {Null}
    /\ AcceptsScope(Get(payload, "scope"))
    /\ Compatible(Get(payload, "domain"), ScopeOf(Get(payload, "scope")))

ReadList(payload) ==
    IF AcceptsList(payload)
    THEN [domain |-> Get(payload, "domain"), scope |-> ScopeOf(Get(payload, "scope"))]
    ELSE Refused

ReadId(payload) ==
    IF DOMAIN payload = {"memory_id"} THEN PythonUUID[payload.memory_id] ELSE Refused

AcceptsEdit(payload) ==
    /\ DOMAIN payload = {"memory_id", "content"}
    /\ PythonUUID[payload.memory_id] # Refused
    /\ payload.content \notin CoreBlank

ReadEdit(payload) ==
    IF AcceptsEdit(payload)
    THEN [memory_id |-> PythonUUID[payload.memory_id], content |-> payload.content]
    ELSE Refused

-----------------------------------------------------------------------------
(* The core answers.                                                       *)

\* What the domain model lets exist.
Scope ==
    {scope \in [kind : ScopeKinds, character_id : Texts \cup {Null}] :
        IF scope.kind = "global_user"
        THEN scope.character_id = Null
        ELSE scope.character_id \notin CoreBlank \cup {Null}}

Memory ==
    {memory \in [memory_id : Ids, domain : Domains, scope : Scope,
                 identity_key : Texts \cup {Null}] :
        memory.scope.kind = RequiredKind(memory.domain)}

Revision(numbers) ==
    {rev \in [revision_number : numbers, content : Texts \cup {Null}, source : Sources,
              lifecycle : Lifecycles, recorded_at : Moments, occurred_at : Moments \cup {Null}] :
        IF rev.lifecycle = "deleted"
        THEN rev.content = Null
        ELSE rev.content \notin CoreBlank \cup {Null}}

\* _serialize_revision: field by field, nothing left out
SerializeEntry(memory, rev) ==
    [memory_id |-> Canonical[memory.memory_id],
     domain |-> memory.domain,
     scope |-> memory.scope,
     identity_key |-> memory.identity_key,
     latest_revision |-> rev]

\* The code of an error reply by the exception it stands for.
ErrorCode(exception) ==
    CASE exception = "_MemoryProtocolRequestError" -> "MEMORY_INVALID_REQUEST"
      [] exception = "MemoryNotFoundError" -> "MEMORY_NOT_FOUND"
      [] exception = "MemoryDeletedError" -> "MEMORY_DELETED"
      [] exception = "MemoryStateError" -> "MEMORY_INVALID_STATE"
      [] OTHER -> "MEMORY_OPERATION_FAILED"

ResultType ==
    [list |-> "memory.list.result", inspect |-> "memory.inspect.result",
     edit |-> "memory.edit.result", delete |-> "memory.delete.result",
     history |-> "memory.history.result"]

-----------------------------------------------------------------------------
(* The desktop reads the answer.                                           *)

\* JsonSerializer.Deserialize: a required property must be present, another is null
\* where it is not.
Has(object, required) == required \subseteq DOMAIN object

Deserialized(object, properties) == [field \in properties |-> Get(object, field)]

ScopeProperties == {"kind", "character_id"}
RevisionProperties == {"revision_number", "content", "source", "lifecycle", "recorded_at",
                       "occurred_at"}
EntryProperties == {"memory_id", "domain", "scope", "identity_key", "latest_revision"}

\* revision_number is an int
ReadsRevision(object) ==
    /\ Has(object, RevisionProperties \ {"content", "occurred_at"})
    /\ object.revision_number <= IntMax

ReadsEntry(object) ==
    /\ Has(object, EntryProperties \ {"identity_key"})
    /\ Has(object.scope, {"kind"})
    /\ ReadsRevision(object.latest_revision)

ReadEntry(object) ==
    IF ReadsEntry(object)
    THEN [Deserialized(object, EntryProperties) EXCEPT
             !.scope = Deserialized(@, ScopeProperties),
             !.latest_revision = Deserialized(@, RevisionProperties)]
    ELSE Refused

ErrorCodes == {"MEMORY_INVALID_REQUEST", "MEMORY_NOT_FOUND", "MEMORY_DELETED",
               "MEMORY_INVALID_STATE", "MEMORY_OPERATION_FAILED"}

ExpectedType ==
    [list |-> "memory.list.result", inspect |-> "memory.inspect.result",
     edit |-> "memory.edit.result", delete |-> "memory.delete.result",
     history |-> "memory.history.result"]

-----------------------------------------------------------------------------
(* What the two sides owe each other.                                      *)

\* strings the two sides disagree about: blank to the core alone
Contested == CoreBlank \ DesktopBlank

\* A request the desktop lets through is accepted by the core and means there what
\* its arguments meant, unless a contested string is in it.
RequestsAreUnderstood ==
    /\ \A domain \in Domains \cup {Null, "other"}, scope \in ScopeArgument \cup {Null} :
          MayList(domain, scope) /\ (scope # Null => scope.character_id \notin Contested)
             => ReadList(ListPayload(domain, scope)) = [domain |-> domain, scope |-> scope]
    /\ \A s \in Spellings : MayAsk(s) => ReadId(IdPayload(s)) = GuidTryParse[s]
    /\ \A s \in Spellings, content \in Texts \ Contested :
          MayEdit(s, content)
             => ReadEdit(EditPayload(s, content)) =
                   [memory_id |-> GuidTryParse[s], content |-> content]

\* The desktop refuses no list the core would have made.  It does refuse ids the core would
\* have read (a spelling only Python knows), but no memory is out of its reach for that:
\* whatever the core would have done with an id or an edit as it was typed, it does when
\* the desktop is given the id in another spelling.
RefusalsCostNothing ==
    /\ \A domain \in Domains \cup {Null, "other"}, scope \in ScopeArgument \cup {Null} :
          ~MayList(domain, scope) => ReadList(ListPayload(domain, scope)) = Refused
    /\ \A s \in Spellings :
          LET typed == ReadId([memory_id |-> s]) IN
          ~MayAsk(s) /\ typed # Refused
             => \E t \in Spellings : MayAsk(t) /\ ReadId(IdPayload(t)) = typed
    /\ \A s \in Spellings, content \in Texts :
          LET typed == ReadEdit([memory_id |-> s, content |-> content]) IN
          ~MayEdit(s, content) /\ typed # Refused
             => \E t \in Spellings :
                   MayEdit(t, content) /\ ReadEdit(EditPayload(t, content)) = typed

\* The desktop reads every entry the core can send, as it is, as long as its revision
\* number fits; and what it reads can be sent back: the id names the same memory, and
\* domain and scope ask for a list that it is in.
AnswersAreRead(numbers) ==
    \A memory \in Memory, rev \in Revision(numbers) :
        LET entry == ReadEntry(SerializeEntry(memory, rev)) IN
        /\ rev.revision_number <= IntMax => entry = SerializeEntry(memory, rev)
        /\ rev.revision_number > IntMax => entry = Refused
        /\ ReadId(IdPayload(Canonical[memory.memory_id])) = memory.memory_id
        /\ MayList(memory.domain, memory.scope)
        /\ ReadList(ListPayload(memory.domain, memory.scope)) =
              [domain |-> memory.domain, scope |-> memory.scope]

\* Whatever the core answers is an error the desktop has a code for, or the answer
\* it waits for, and the two are not confused.
AnswersAreExpected(exceptions) ==
    /\ \A e \in exceptions : ErrorCode(e) \in ErrorCodes
    /\ ResultType = ExpectedType
    /\ \A op \in DOMAIN ResultType : ResultType[op] # "error"
=============================================================================
