---------------------------- MODULE MemoryRules ----------------------------
(***************************************************************************)
(* From what a model says about a turn to a memory and back into a prompt: *)
(* the pure rules between the steps of MemoryServices and AgentCore.  What *)
(* LLMMemoryCandidateExtractor accepts and makes of it, which candidates   *)
(* MemoryLearningPolicy lets through, which records the learning service   *)
(* builds of one, in whose turns they are retrieved and when they are due. *)
(***************************************************************************)
EXTENDS MemoryProtocol, Sequences, FiniteSets

CONSTANTS
    Empty,          \* the empty string
    Strip,          \* str.strip
    Casefold,       \* str.casefold
    Length,         \* len
    Spaced,         \* the strings that contain white space
    MaxKeyLength,   \* 256
    Instant,        \* the second, in UTC, that a time names
    Day             \* seconds of a day

ASSUME StringsAssumption ==
    /\ Empty \in Texts \ Spaced
    /\ Strip \in [Texts -> Texts]
    /\ Casefold \in [Texts -> Texts]
    /\ Length \in [Texts -> Nat]
    /\ \A t \in Texts : t \in CoreBlank <=> Strip[t] = Empty
    /\ \A t \in Texts : Strip[Strip[t]] = Strip[t]
    /\ \A t \in Texts \ Spaced : Strip[t] = t
    /\ \A t \in Texts : Casefold[Casefold[t]] = Casefold[t]
    /\ MaxKeyLength \in Nat

ASSUME TimeAssumption == Instant \in [Moments -> Int] /\ Day \in Nat \ {0}

NonBlank == Texts \ CoreBlank

-----------------------------------------------------------------------------
(* Identity keys.                                                          *)

NormalizedKey(text) ==
    LET normalized == Casefold[Strip[text]] IN
    IF normalized # Empty /\ Length[normalized] <= MaxKeyLength /\ normalized \notin Spaced
    THEN normalized
    ELSE Refused

IdentityKey == {NormalizedKey(t) : t \in Texts} \ {Refused}

-----------------------------------------------------------------------------
(* Extraction.                                                             *)

\* of a MemoryLearningInput, what the rules look at
Input == [source_message_id : NonBlank, active_character_id : NonBlank]

\* one candidate of the model's answer, once it has the fields and types it must have
Extracted == [content : Texts, domain : Domains, identity_key : Texts \cup {Null}]

GlobalUser == [kind |-> "global_user", character_id |-> Null]

OfCharacter(id) == [kind |-> "character", character_id |-> id]

ScopeFor(domain, input) ==
    IF domain = "relationship" THEN OfCharacter(input.active_character_id) ELSE GlobalUser

KeyOf(text) == IF text = Null THEN Null ELSE NormalizedKey(text)

\* neither MemoryIdentityKey nor MemoryCandidate raises ValueError
Acceptable(extracted) ==
    /\ KeyOf(extracted.identity_key) # Refused
    /\ Strip[extracted.content] \notin CoreBlank

CandidateOf(extracted, input, now) ==
    [content |-> Strip[extracted.content],
     domain |-> extracted.domain,
     scope |-> ScopeFor(extracted.domain, input),
     source |-> "automatic_explicit_fact",
     source_message_id |-> input.source_message_id,
     created_at |-> now,
     identity_key |-> KeyOf(extracted.identity_key),
     occurred_at |-> Null]

\* all of them, or none
Extract(payload, input, now) ==
    IF \A i \in DOMAIN payload : Acceptable(payload[i])
    THEN [i \in DOMAIN payload |-> CandidateOf(payload[i], input, now)]
    ELSE Refused

-----------------------------------------------------------------------------
(* Eligibility.                                                            *)

\* A candidate of any extractor
Candidate ==
    [content : NonBlank, domain : Domains, scope : Scope, source : Sources,
     source_message_id : NonBlank, created_at : Moments,
     identity_key : IdentityKey \cup {Null}, occurred_at : Moments \cup {Null}]

Reason(candidate, input) ==
    IF candidate.source # "automatic_explicit_fact" THEN "unsupported_source"
    ELSE IF candidate.source_message_id # input.source_message_id
         THEN "source_message_mismatch"
    ELSE IF candidate.scope.kind # RequiredKind(candidate.domain)
         THEN "domain_scope_mismatch"
    ELSE IF /\ candidate.domain = "relationship"
            /\ candidate.scope.character_id # input.active_character_id
         THEN "active_character_mismatch"
    ELSE "eligible"

-----------------------------------------------------------------------------
(* The records made of a candidate, their retrieval and their expiry.      *)

MemoryOf(candidate, id) ==
    [memory_id |-> id, domain |-> candidate.domain, scope |-> candidate.scope,
     identity_key |-> candidate.identity_key]

RevisionOf(candidate, number) ==
    [revision_number |-> number, content |-> candidate.content,
     source |-> candidate.source, lifecycle |-> "active",
     recorded_at |-> candidate.created_at, occurred_at |-> candidate.occurred_at]

\* What a store holds: memories and their latest revisions
StoredMemory(numbers) == [memory : Memory, rev : Revision(numbers)]

Active(stored) == stored.rev.lifecycle = "active"

\* in one of the two listings of a turn with the character, and not skipped
Considered(character, stored) ==
    /\ \/ stored.memory.scope = GlobalUser
       \/ /\ stored.memory.domain = "relationship"
          /\ stored.memory.scope = OfCharacter(character)
    /\ Active(stored)
    /\ stored.rev.content # Null

\* The memory at i of the store, in the order it is listed in, is in the prompt: those of
\* its domain that came before it left room.  (A domain is in one of the listings only.)
Retrieves(character, store, limits, i) ==
    /\ Considered(character, store[i])
    /\ Cardinality({j \in 1..(i - 1) : /\ Considered(character, store[j])
                                      /\ store[j].memory.domain = store[i].memory.domain})
          < limits[store[i].memory.domain]

Due(memory, rev, days, now) ==
    /\ rev.lifecycle = "active"
    /\ memory.domain = "working_context"
    /\ Instant[now] >= Instant[rev.recorded_at] + days * Day

-----------------------------------------------------------------------------
(* What the rules owe each other.                                          *)

\* A key is its own normal form: the key of a row is read back as it was written.
KeysAreFixed == \A key \in IdentityKey : NormalizedKey(key) = key

\* What the extractor makes, the policy does not reject.
ExtractedIsEligible(payloads, inputs) ==
    \A payload \in payloads, input \in inputs, now \in Moments :
        LET extraction == Extract(payload, input, now) IN
        extraction # Refused =>
            \A i \in DOMAIN payload :
                extraction[i] \in Candidate /\ Reason(extraction[i], input) = "eligible"

\* What the policy accepts, whoever extracted it, the domain model does not reject once
\* the resolver has run.
EligibleIsStored(inputs, numbers) ==
    \A candidate \in Candidate, input \in inputs, id \in Ids, number \in numbers :
        Reason(candidate, input) = "eligible" =>
            /\ MemoryOf(candidate, id) \in Memory
            /\ RevisionOf(candidate, number) \in Revision(numbers)

\* The store with a memory among others
With(before, stored, after) == Append(before, stored) \o after

\* Those that compete for the prompt with a memory of the domain and the scope
Competing(store, domain, scope) ==
    {j \in DOMAIN store : /\ store[j].memory.domain = domain
                          /\ store[j].memory.scope = scope
                          /\ Active(store[j])}

\* A learned fact is in the prompt of every character, and what a character and the user
\* have lived through in that character's prompt alone, as long as the ACTIVE memories of
\* its domain and scope are no more than the limit of the domain; beyond it, whichever are
\* listed last are left out, and still no other character is told.
LearnedIsRetrieved(inputs, characters, stores, limits) ==
    \A candidate \in Candidate, input \in inputs :
        Reason(candidate, input) = "eligible" =>
            \A id \in Ids, character \in characters, before, after \in stores :
                LET learned == [memory |-> MemoryOf(candidate, id),
                                rev |-> RevisionOf(candidate, 1)]
                    store == With(before, learned, after)
                    retrieved == Retrieves(character, store, limits, Len(before) + 1)
                    concerned == candidate.domain = "relationship" =>
                                     character = input.active_character_id
                    competing == Competing(store, candidate.domain, candidate.scope) IN
                /\ retrieved => concerned
                /\ /\ concerned
                   /\ Cardinality(competing) <= limits[candidate.domain]
                   => retrieved

\* What was learned is not due before a day has passed, and once due it stays so; the
\* other domains never are.
KeptForADay(retentions) ==
    \A candidate \in Candidate, id \in Ids, days \in retentions, now, later \in Moments :
        LET memory == MemoryOf(candidate, id)
            rev == RevisionOf(candidate, 1) IN
        Due(memory, rev, days, now) =>
            /\ candidate.domain = "working_context"
            /\ Instant[now] >= Instant[candidate.created_at] + Day
            /\ Instant[later] >= Instant[now] => Due(memory, rev, days, later)
=============================================================================
