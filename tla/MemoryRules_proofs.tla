------------------------- MODULE MemoryRules_proofs -------------------------
(***************************************************************************)
(* The two sides of MemoryProtocol agree, by cases on what the arguments   *)
(* of a request and the optional fields of an answer are; and the rules of *)
(* MemoryRules fit together.  For any strings, spellings and white space,  *)
(* any times and any extractor.                                            *)
(***************************************************************************)
EXTENDS MemoryRules, SequenceTheorems, FiniteSetTheorems, TLAPS

-----------------------------------------------------------------------------
(* MemoryProtocol.                                                         *)

\* What the core finds in the payload of a list request.
LEMMA ListFields ==
    ASSUME NEW domain, NEW scope \in ScopeArgument \cup {Null}
    PROVE  /\ DOMAIN ListPayload(domain, scope) \subseteq {"domain", "scope"}
           /\ Get(ListPayload(domain, scope), "domain") = domain
           /\ Get(ListPayload(domain, scope), "scope") =
                 IF scope = Null THEN Null ELSE WithoutNulls(scope)
  BY DEF ListPayload, WithoutNulls, Get

\* What it finds in the scope, once there is one.
LEMMA ScopeFields ==
    ASSUME NEW scope \in ScopeArgument
    PROVE  /\ DOMAIN WithoutNulls(scope) \subseteq {"kind", "character_id"}
           /\ WithoutNulls(scope).kind = scope.kind
           /\ Get(WithoutNulls(scope), "character_id") = scope.character_id
           /\ scope.character_id # Null =>
                 /\ DOMAIN WithoutNulls(scope) = {"kind", "character_id"}
                 /\ WithoutNulls(scope).character_id = scope.character_id
           /\ ScopeOf(WithoutNulls(scope)) = scope
  <1>1. scope.kind # Null
    BY ProtocolAssumption DEF ScopeArgument, ScopeKinds
  <1>2. WithoutNulls(scope) # Null
    BY ObjectAssumption
  <1> QED BY <1>1, <1>2 DEF ScopeArgument, WithoutNulls, Get, ScopeOf

\* The core accepts the scopes the desktop does, but for a contested name.
LEMMA ScopeAgreed ==
    ASSUME NEW scope \in ScopeArgument
    PROVE  /\ ValidScope(scope) /\ scope.character_id \notin Contested
                 => AcceptsScope(WithoutNulls(scope))
           /\ AcceptsScope(WithoutNulls(scope)) => ValidScope(scope)
  <1>1. scope # Null /\ WithoutNulls(scope) # Null
    BY ObjectAssumption
  <1>2. scope.character_id = Null => DOMAIN WithoutNulls(scope) = {"kind"}
    BY ProtocolAssumption DEF ScopeArgument, ScopeKinds, WithoutNulls
  <1>3. scope.character_id \in Texts \cup {Null}
    BY DEF ScopeArgument
  <1> QED BY <1>1, <1>2, <1>3, ScopeFields, ProtocolAssumption
          DEF ValidScope, AcceptsScope, Contested

\* The requests to list.
LEMMA ListAgreed ==
    ASSUME NEW domain \in Domains \cup {Null, "other"},
           NEW scope \in ScopeArgument \cup {Null}
    PROVE  /\ MayList(domain, scope)
                 /\ (scope # Null => scope.character_id \notin Contested)
                 => ReadList(ListPayload(domain, scope)) = [domain |-> domain, scope |-> scope]
           /\ ~MayList(domain, scope) => ReadList(ListPayload(domain, scope)) = Refused
  <1> DEFINE payload == ListPayload(domain, scope)
  <1>1. Get(payload, "domain") = domain /\ DOMAIN payload \subseteq {"domain", "scope"}
    BY ListFields
  <1>2. CASE scope = Null
    <2>1. Get(payload, "scope") = Null /\ ScopeOf(Null) = Null
      BY <1>2, ListFields DEF ScopeOf
    <2> QED BY <1>1, <1>2, <2>1
            DEF ReadList, AcceptsList, AcceptsScope, MayList, ValidScope, Compatible
  <1>3. CASE scope # Null
    <2>1. scope \in ScopeArgument
      BY <1>3
    <2>2. Get(payload, "scope") = WithoutNulls(scope)
      BY <1>3, ListFields
    <2>3. ScopeOf(WithoutNulls(scope)) = scope
      BY <2>1, ScopeFields
    <2> QED BY <1>1, <1>3, <2>1, <2>2, <2>3, ScopeAgreed DEF ReadList, AcceptsList, MayList
  <1> QED BY <1>2, <1>3

\* The desktop's builders (MemoryProtocol.cs, CreateListRequest and its neighbours) and
\* the core's parsers (protocol.py) agree on every request the desktop lets through,
\* whatever the strings in it are, U+001C to U+001F alone excepted.
THEOREM RequestsAreUnderstoodHolds == RequestsAreUnderstood
  <1>1. \A s \in Spellings : MayAsk(s) =>
           /\ GuidTryParse[s] \in Ids
           /\ PythonUUID[Canonical[GuidTryParse[s]]] = GuidTryParse[s]
    BY ProtocolAssumption DEF MayAsk
  <1>2. \A s \in Spellings : MayAsk(s) => ReadId(IdPayload(s)) = GuidTryParse[s]
    BY <1>1 DEF ReadId, IdPayload
  <1>3. \A s \in Spellings, content \in Texts \ Contested :
           MayEdit(s, content)
              => ReadEdit(EditPayload(s, content)) =
                    [memory_id |-> GuidTryParse[s], content |-> content]
    <2> SUFFICES ASSUME NEW s \in Spellings, NEW content \in Texts \ Contested,
                        MayEdit(s, content)
                 PROVE  ReadEdit(EditPayload(s, content)) =
                           [memory_id |-> GuidTryParse[s], content |-> content]
      OBVIOUS
    <2>1. content \notin CoreBlank /\ MayAsk(s)
      BY DEF MayEdit, Contested
    <2>2. PythonUUID[Canonical[GuidTryParse[s]]] # Refused
      BY <1>1, <2>1 DEF MayAsk
    <2> QED BY <1>1, <2>1, <2>2 DEF ReadEdit, AcceptsEdit, EditPayload
  <1> QED BY <1>2, <1>3, ListAgreed DEF RequestsAreUnderstood

\* An id that Python reads, in whatever spelling, has one the desktop lets through.
LEMMA EveryIdIsAsked ==
    ASSUME NEW id \in Ids
    PROVE  /\ Canonical[id] \in Spellings /\ MayAsk(Canonical[id])
           /\ GuidTryParse[Canonical[id]] = id /\ PythonUUID[Canonical[id]] = id
  BY ProtocolAssumption DEF MayAsk

\* What the desktop throws an exception for (MemoryProtocol.cs, NormalizeMemoryId,
\* ValidateScope and CreateEditRequest) the core would have refused as well; an id in a
\* spelling that only Python's UUID reads is the exception, and another spelling serves.
THEOREM RefusalsCostNothingHolds == RefusalsCostNothing
  <1>1. ASSUME NEW s \in Spellings, ReadId([memory_id |-> s]) # Refused
        PROVE  \E t \in Spellings : MayAsk(t) /\ ReadId(IdPayload(t)) = ReadId([memory_id |-> s])
    <2>1. ReadId([memory_id |-> s]) = PythonUUID[s] /\ PythonUUID[s] \in Ids
      BY <1>1, ProtocolAssumption DEF ReadId
    <2>2. ReadId(IdPayload(Canonical[PythonUUID[s]])) = PythonUUID[s]
      BY <2>1, EveryIdIsAsked DEF ReadId, IdPayload
    <2> QED BY <2>1, <2>2, EveryIdIsAsked
  <1>2. ASSUME NEW s \in Spellings, NEW content \in Texts,
               ReadEdit([memory_id |-> s, content |-> content]) # Refused
        PROVE  \E t \in Spellings :
                  /\ MayEdit(t, content)
                  /\ ReadEdit(EditPayload(t, content))
                        = ReadEdit([memory_id |-> s, content |-> content])
    <2> DEFINE typed == [memory_id |-> s, content |-> content]
               t == Canonical[PythonUUID[s]]
    <2>1. /\ typed.memory_id = s /\ typed.content = content
          /\ DOMAIN typed = {"memory_id", "content"}
      OBVIOUS
    <2>2. AcceptsEdit(typed)
      BY <1>2 DEF ReadEdit
    <2>3. PythonUUID[s] \in Ids /\ content \notin CoreBlank
      BY <2>1, <2>2, ProtocolAssumption DEF AcceptsEdit
    <2>4. ReadEdit(typed) = [memory_id |-> PythonUUID[s], content |-> content]
      BY <2>1, <2>2 DEF ReadEdit
    <2>5. MayEdit(t, content)
      BY <2>3, EveryIdIsAsked, ProtocolAssumption DEF MayEdit
    <2>6. EditPayload(t, content) = [memory_id |-> t, content |-> content]
      BY <2>3, EveryIdIsAsked DEF EditPayload
    <2>7. ReadEdit(EditPayload(t, content)) = [memory_id |-> PythonUUID[s], content |-> content]
      <3>1. PythonUUID[t] = PythonUUID[s] /\ PythonUUID[s] # Refused
        BY <2>3, EveryIdIsAsked, ProtocolAssumption
      <3> HIDE DEF t
      <3> QED BY <2>3, <2>6, <3>1 DEF ReadEdit, AcceptsEdit
    <2>8. t \in Spellings
      BY <2>3, EveryIdIsAsked
    <2> QED BY <2>4, <2>5, <2>7, <2>8
  <1>3. \A domain \in Domains \cup {Null, "other"}, scope \in ScopeArgument \cup {Null} :
           ~MayList(domain, scope) => ReadList(ListPayload(domain, scope)) = Refused
    BY ListAgreed
  <1> QED BY <1>1, <1>2, <1>3 DEF RefusalsCostNothing

\* A scope the domain model lets exist can be filled in by hand.
LEMMA ScopeIsArgument ==
    ASSUME NEW scope \in Scope
    PROVE  scope \in ScopeArgument /\ scope # Null /\ ValidScope(scope)
           /\ scope.character_id \notin Contested
  <1>1. scope \in ScopeArgument /\ scope # Null
    BY ObjectAssumption DEF Scope, ScopeArgument
  <1> QED BY <1>1, ProtocolAssumption
          DEF Scope, ScopeKinds, ScopeArgument, ValidScope, Contested

\* The core's serializers (protocol.py, _serialize_entry) and the desktop's models
\* (MemoryProtocolModels.cs) agree on every memory and revision, whatever the number of
\* the revision; what the desktop shows can be asked for again.
THEOREM AnswersAreReadHolds == AnswersAreRead(Nat \ {0})
  <1> SUFFICES ASSUME NEW memory \in Memory, NEW rev \in Revision(Nat \ {0})
               PROVE  /\ rev.revision_number <= IntMax
                            => ReadEntry(SerializeEntry(memory, rev)) = SerializeEntry(memory, rev)
                      /\ rev.revision_number > IntMax
                            => ReadEntry(SerializeEntry(memory, rev)) = Refused
                      /\ ReadId(IdPayload(Canonical[memory.memory_id])) = memory.memory_id
                      /\ MayList(memory.domain, memory.scope)
                      /\ ReadList(ListPayload(memory.domain, memory.scope)) =
                            [domain |-> memory.domain, scope |-> memory.scope]
    BY DEF AnswersAreRead
  <1> DEFINE entry == SerializeEntry(memory, rev)
  <1>1. /\ memory \in [memory_id : Ids, domain : Domains, scope : Scope,
                       identity_key : Texts \cup {Null}]
        /\ memory.scope.kind = RequiredKind(memory.domain)
    BY DEF Memory
  <1>2. rev \in [revision_number : Nat \ {0}, content : Texts \cup {Null}, source : Sources,
                 lifecycle : Lifecycles, recorded_at : Moments, occurred_at : Moments \cup {Null}]
    BY DEF Revision
  <1>3. memory.scope \in [kind : ScopeKinds, character_id : Texts \cup {Null}]
    BY <1>1 DEF Scope
  <1>4. ReadsEntry(entry) <=> rev.revision_number <= IntMax
    BY <1>1, <1>2, <1>3 DEF ReadsEntry, ReadsRevision, SerializeEntry, Has, EntryProperties,
                            RevisionProperties
  <1>5. Deserialized(memory.scope, ScopeProperties) = memory.scope
    BY <1>3 DEF Deserialized, ScopeProperties, Get
  <1>6. Deserialized(rev, RevisionProperties) = rev
    BY <1>2 DEF Deserialized, RevisionProperties, Get
  <1>7. Deserialized(entry, EntryProperties) = entry
    BY DEF Deserialized, EntryProperties, Get, SerializeEntry
  <1>8. [entry EXCEPT !.scope = Deserialized(@, ScopeProperties),
                      !.latest_revision = Deserialized(@, RevisionProperties)] = entry
    <2>1. entry.scope = memory.scope /\ entry.latest_revision = rev
      BY DEF SerializeEntry
    <2> QED BY <2>1, <1>5, <1>6 DEF SerializeEntry
  <1>9. /\ rev.revision_number <= IntMax => ReadEntry(entry) = entry
        /\ rev.revision_number > IntMax => ReadEntry(entry) = Refused
    <2>1. rev.revision_number > IntMax => ~(rev.revision_number <= IntMax)
      BY <1>2, ProtocolAssumption
    <2> QED BY <2>1, <1>4, <1>7, <1>8 DEF ReadEntry
  <1>10. ReadId(IdPayload(Canonical[memory.memory_id])) = memory.memory_id
    BY <1>1, ProtocolAssumption DEF ReadId, IdPayload
  <1>11. MayList(memory.domain, memory.scope)
    BY <1>1, ScopeIsArgument DEF MayList, Compatible
  <1>12. ReadList(ListPayload(memory.domain, memory.scope)) =
            [domain |-> memory.domain, scope |-> memory.scope]
    BY <1>1, <1>11, ScopeIsArgument, ListAgreed
  <1> QED BY <1>9, <1>10, <1>11, <1>12

\* The core answers every exception with a code the desktop lists (MemoryProtocol.cs,
\* ErrorCodes), and every operation with the type the desktop's parser of it waits for.
THEOREM AnswersAreExpectedHolds ==
    ASSUME NEW exceptions
    PROVE  AnswersAreExpected(exceptions)
  BY DEF AnswersAreExpected, ErrorCode, ErrorCodes, ResultType, ExpectedType

-----------------------------------------------------------------------------
(* MemoryRules.                                                            *)

\* A normal form is a string without white space that is stripped and folded.
LEMMA NormalForm ==
    ASSUME NEW text \in Texts, NormalizedKey(text) # Refused
    PROVE  LET key == NormalizedKey(text) IN
           /\ key \in Texts \ Spaced
           /\ key # Empty /\ Length[key] <= MaxKeyLength
           /\ Strip[key] = key /\ Casefold[key] = key
  <1> DEFINE key == Casefold[Strip[text]]
  <1>1. NormalizedKey(text) = key /\ key # Empty /\ Length[key] <= MaxKeyLength /\ key \notin Spaced
    BY DEF NormalizedKey
  <1>2. Strip[text] \in Texts /\ key \in Texts
    BY StringsAssumption
  <1>3. Strip[key] = key
    BY <1>1, <1>2, StringsAssumption
  <1>4. Casefold[key] = key
    BY <1>2, StringsAssumption
  <1> QED BY <1>1, <1>2, <1>3, <1>4

\* What MemoryIdentityKey.__post_init__ (models.py) normalizes is accepted unchanged when
\* the repository reads it back: the checks come after the normalization.
THEOREM KeysAreFixedHolds == KeysAreFixed
  <1> SUFFICES ASSUME NEW text \in Texts, NormalizedKey(text) # Refused
               PROVE  NormalizedKey(NormalizedKey(text)) = NormalizedKey(text)
    BY DEF KeysAreFixed, IdentityKey
  <1> HIDE DEF NormalizedKey
  <1> DEFINE key == NormalizedKey(text)
  <1>1. /\ key # Empty /\ Length[key] <= MaxKeyLength /\ key \notin Spaced
        /\ Casefold[Strip[key]] = key
    BY NormalForm
  <1> QED BY <1>1 DEF NormalizedKey

\* Acceptable candidates become well-formed ones.
LEMMA CandidateIsWellFormed ==
    ASSUME NEW extracted \in Extracted, NEW input \in Input, NEW now \in Moments,
           Acceptable(extracted)
    PROVE  CandidateOf(extracted, input, now) \in Candidate
  <1>1. Strip[extracted.content] \in NonBlank
    BY StringsAssumption DEF Acceptable, Extracted, NonBlank
  <1>2. ScopeFor(extracted.domain, input) \in Scope
    <2>1. input.active_character_id \in NonBlank /\ NonBlank \subseteq Texts
      BY DEF Input, NonBlank
    <2>2. Null \notin Texts
      BY ProtocolAssumption
    <2> QED BY <2>1, <2>2 DEF ScopeFor, GlobalUser, OfCharacter, Scope, ScopeKinds, NonBlank
  <1>3. KeyOf(extracted.identity_key) \in IdentityKey \cup {Null}
    BY DEF KeyOf, Acceptable, Extracted, IdentityKey
  <1>4. /\ extracted.domain \in Domains
        /\ input.source_message_id \in NonBlank
        /\ "automatic_explicit_fact" \in Sources
    BY DEF Extracted, Input, Sources
  <1> QED BY <1>1, <1>2, <1>3, <1>4 DEF CandidateOf, Candidate

\* The extractor derives provenance and scope from the turn itself (llm_extractor.py,
\* extract and _scope_for) as the policy demands them (policy.py, evaluate), whatever the
\* model answered.
THEOREM ExtractedIsEligibleHolds == ExtractedIsEligible(Seq(Extracted), Input)
  <1> SUFFICES ASSUME NEW payload \in Seq(Extracted), NEW input \in Input, NEW now \in Moments,
                      Extract(payload, input, now) # Refused,
                      NEW i \in DOMAIN payload
               PROVE  /\ Extract(payload, input, now)[i] \in Candidate
                      /\ Reason(Extract(payload, input, now)[i], input) = "eligible"
    BY DEF ExtractedIsEligible
  <1>1. Extract(payload, input, now)[i] = CandidateOf(payload[i], input, now)
    BY DEF Extract
  <1>2. payload[i] \in Extracted /\ Acceptable(payload[i])
    BY DEF Extract
  <1>3. CandidateOf(payload[i], input, now) \in Candidate
    BY <1>2, CandidateIsWellFormed
  <1>4. Reason(CandidateOf(payload[i], input, now), input) = "eligible"
    BY DEF Reason, CandidateOf, ScopeFor, GlobalUser, OfCharacter, RequiredKind
  <1> QED BY <1>1, <1>3, <1>4

\* Building Memory and MemoryRevision of an eligible candidate (service.py,
\* _create_memory and _build_revision) raises no ValueError (models.py).
THEOREM EligibleIsStoredHolds == EligibleIsStored(Input, Nat \ {0})
  <1> SUFFICES ASSUME NEW candidate \in Candidate, NEW input \in Input, NEW id \in Ids,
                      NEW number \in Nat \ {0}, Reason(candidate, input) = "eligible"
               PROVE  /\ MemoryOf(candidate, id) \in Memory
                      /\ RevisionOf(candidate, number) \in Revision(Nat \ {0})
    BY DEF EligibleIsStored
  <1>1. candidate.scope.kind = RequiredKind(candidate.domain)
    BY DEF Reason
  <1>2. candidate.identity_key \in Texts \cup {Null}
    BY NormalForm DEF Candidate, IdentityKey
  <1>3. MemoryOf(candidate, id) \in Memory
    BY <1>1, <1>2 DEF MemoryOf, Memory, Candidate
  <1>4. candidate.content \in Texts /\ candidate.content \notin CoreBlank \cup {Null}
    BY ProtocolAssumption DEF Candidate, NonBlank
  <1>5. RevisionOf(candidate, number) \in Revision(Nat \ {0})
    BY <1>4 DEF RevisionOf, Revision, Candidate, Lifecycles
  <1> QED BY <1>3, <1>5

\* A store with a memory among others has it where it was put.
LEMMA WithProperties ==
    ASSUME NEW S, NEW before \in Seq(S), NEW after \in Seq(S), NEW stored \in S
    PROVE  LET store == With(before, stored, after)
               i == Len(before) + 1 IN
           /\ store \in Seq(S)
           /\ i \in 1..Len(store) /\ store[i] = stored
  <1>1. /\ Append(before, stored) \in Seq(S)
        /\ Len(Append(before, stored)) = Len(before) + 1
        /\ Append(before, stored)[Len(before) + 1] = stored
        /\ Len(before) \in Nat /\ Len(after) \in Nat
    BY AppendProperties, LenProperties
  <1>2. /\ With(before, stored, after) \in Seq(S)
        /\ Len(With(before, stored, after)) = Len(before) + 1 + Len(after)
        /\ With(before, stored, after)[Len(before) + 1] = Append(before, stored)[Len(before) + 1]
    BY <1>1, ConcatProperties DEF With
  <1> QED BY <1>1, <1>2

\* Whom a learned memory concerns considers it, and so does nobody else.
LEMMA ConsideredByConcerned ==
    ASSUME NEW candidate \in Candidate, NEW input \in Input, NEW id \in Ids,
           NEW character \in NonBlank, Reason(candidate, input) = "eligible"
    PROVE  LET learned == [memory |-> MemoryOf(candidate, id), rev |-> RevisionOf(candidate, 1)] IN
           /\ Active(learned)
           /\ Considered(character, learned)
                 <=> (candidate.domain = "relationship" => character = input.active_character_id)
  <1> DEFINE scope == candidate.scope
  <1>1. /\ scope.kind = RequiredKind(candidate.domain)
        /\ candidate.domain = "relationship" =>
              scope.character_id = input.active_character_id
    BY DEF Reason
  <1>2. scope \in [kind : ScopeKinds, character_id : Texts \cup {Null}]
        /\ (scope.kind = "global_user" => scope.character_id = Null)
    BY DEF Candidate, Scope
  <1>3. candidate.content # Null
    BY ProtocolAssumption DEF Candidate, NonBlank
  <1>4. CASE candidate.domain = "relationship"
    <2>1. scope.kind = "character" /\ scope.character_id = input.active_character_id
      BY <1>1, <1>4 DEF RequiredKind
    <2>2. scope = OfCharacter(character) <=> character = input.active_character_id
      BY <1>2, <2>1 DEF OfCharacter
    <2>3. scope # GlobalUser
      BY <2>1 DEF GlobalUser
    <2> QED BY <1>3, <1>4, <2>2, <2>3 DEF Considered, Active, MemoryOf, RevisionOf
  <1>5. CASE candidate.domain # "relationship"
    <2>1. scope = GlobalUser
      BY <1>1, <1>2, <1>5 DEF RequiredKind, GlobalUser
    <2> QED BY <1>3, <1>5, <2>1 DEF Considered, Active, MemoryOf, RevisionOf
  <1> QED BY <1>4, <1>5

\* What a character considers of one domain has one scope.
LEMMA DomainHasScope ==
    ASSUME NEW character \in NonBlank,
           NEW a \in StoredMemory(Nat \ {0}), NEW b \in StoredMemory(Nat \ {0}),
           Considered(character, a), Considered(character, b),
           a.memory.domain = b.memory.domain
    PROVE  a.memory.scope = b.memory.scope
  <1>1. /\ a.memory.scope.kind = RequiredKind(a.memory.domain)
        /\ b.memory.scope.kind = RequiredKind(a.memory.domain)
    BY DEF StoredMemory, Memory
  <1>2. /\ a.memory.scope \in {GlobalUser, OfCharacter(character)}
        /\ b.memory.scope \in {GlobalUser, OfCharacter(character)}
    BY DEF Considered
  <1>3. GlobalUser.kind # OfCharacter(character).kind
    BY DEF GlobalUser, OfCharacter
  <1> QED BY <1>1, <1>2, <1>3

\* Fewer than those that compete come before one of them.
LEMMA RoomIsLeft ==
    ASSUME NEW store \in Seq(StoredMemory(Nat \ {0})), NEW i \in 1..Len(store),
           NEW character \in NonBlank, Considered(character, store[i]), NEW limit \in Nat,
           Cardinality(Competing(store, store[i].memory.domain, store[i].memory.scope)) <= limit
    PROVE  Cardinality({j \in 1..(i - 1) : /\ Considered(character, store[j])
                                           /\ store[j].memory.domain = store[i].memory.domain})
              < limit
  <1> DEFINE C == Competing(store, store[i].memory.domain, store[i].memory.scope)
             B == {j \in 1..(i - 1) : /\ Considered(character, store[j])
                                      /\ store[j].memory.domain = store[i].memory.domain}
  <1>1. Len(store) \in Nat /\ DOMAIN store = 1..Len(store)
    BY LenProperties
  <1>2. IsFiniteSet(C)
    <2>1. C \subseteq 1..Len(store) /\ IsFiniteSet(1..Len(store))
      BY <1>1, FS_Interval DEF Competing
    <2> QED BY <2>1, FS_Subset
  <1>3. i \in C
    BY <1>1 DEF Competing, Considered
  <1>4. B \subseteq C \ {i}
    <2> SUFFICES ASSUME NEW j \in 1..(i - 1), Considered(character, store[j]),
                        store[j].memory.domain = store[i].memory.domain
                 PROVE  j \in C /\ j # i
      OBVIOUS
    <2>1. i \in Nat /\ j \in 1..Len(store) /\ j # i
      BY <1>1
    <2>2. store[i] \in StoredMemory(Nat \ {0}) /\ store[j] \in StoredMemory(Nat \ {0})
      BY <2>1, ElementOfSeq
    <2>3. store[j].memory.scope = store[i].memory.scope
      BY <2>2, DomainHasScope
    <2> QED BY <1>1, <2>1, <2>3 DEF Competing, Considered
  <1> HIDE DEF B, C
  <1>5. /\ IsFiniteSet(C \ {i}) /\ Cardinality(C \ {i}) = Cardinality(C) - 1
        /\ Cardinality(C) \in Nat
    BY <1>2, <1>3, FS_RemoveElement, FS_CardinalityType
  <1>6. Cardinality(B) <= Cardinality(C \ {i}) /\ Cardinality(B) \in Nat
    BY <1>4, <1>5, FS_Subset, FS_CardinalityType
  <1>7. Cardinality(C) <= limit
    BY DEF C
  <1>8. Cardinality(B) < limit
    BY <1>5, <1>6, <1>7
  <1> QED BY <1>8 DEF B

\* The scopes a fact is learned with and those a turn retrieves (retrieval_service.py,
\* retrieve) meet exactly where they should, for any characters, any other memories and
\* any limits (retrieval_policy.py): a fact is missing only from the prompts of others, or
\* where more than the limit compete with it.
THEOREM LearnedIsRetrievedHolds ==
    ASSUME NEW limits \in [Domains -> Nat]
    PROVE  LearnedIsRetrieved(Input, NonBlank, Seq(StoredMemory(Nat \ {0})), limits)
  <1> DEFINE Stores == Seq(StoredMemory(Nat \ {0}))
  <1> SUFFICES ASSUME NEW candidate \in Candidate, NEW input \in Input,
                      Reason(candidate, input) = "eligible",
                      NEW id \in Ids, NEW character \in NonBlank,
                      NEW before \in Stores, NEW after \in Stores
               PROVE  LET learned == [memory |-> MemoryOf(candidate, id),
                                      rev |-> RevisionOf(candidate, 1)]
                          store == With(before, learned, after)
                          retrieved == Retrieves(character, store, limits, Len(before) + 1)
                          concerned == candidate.domain = "relationship" =>
                                           character = input.active_character_id
                          competing == Competing(store, candidate.domain, candidate.scope) IN
                      /\ retrieved => concerned
                      /\ /\ concerned
                         /\ Cardinality(competing) <= limits[candidate.domain]
                         => retrieved
    BY DEF LearnedIsRetrieved
  <1> DEFINE learned == [memory |-> MemoryOf(candidate, id), rev |-> RevisionOf(candidate, 1)]
             store == With(before, learned, after)
             i == Len(before) + 1
  <1>1. learned \in StoredMemory(Nat \ {0})
    <2>1. 1 \in Nat \ {0}
      OBVIOUS
    <2>2. EligibleIsStored(Input, Nat \ {0})
      BY EligibleIsStoredHolds
    <2>3. MemoryOf(candidate, id) \in Memory /\ RevisionOf(candidate, 1) \in Revision(Nat \ {0})
      BY <2>1, <2>2 DEF EligibleIsStored
    <2> QED BY <2>3 DEF StoredMemory
  <1>2. learned.memory.domain = candidate.domain /\ learned.memory.scope = candidate.scope
    BY DEF MemoryOf
  <1>3. candidate.domain \in Domains
    BY DEF Candidate
  <1>4. Considered(character, learned)
           <=> (candidate.domain = "relationship" => character = input.active_character_id)
    BY ConsideredByConcerned
  <1> HIDE DEF learned
  <1>5. store \in Stores /\ i \in 1..Len(store) /\ store[i] = learned
    BY <1>1, WithProperties
  <1> HIDE DEF store, i
  <1>6. Retrieves(character, store, limits, i) => Considered(character, learned)
    BY <1>5 DEF Retrieves
  <1>7. ASSUME Considered(character, learned),
               Cardinality(Competing(store, candidate.domain, candidate.scope))
                  <= limits[candidate.domain]
        PROVE  Retrieves(character, store, limits, i)
    <2>1. limits[candidate.domain] \in Nat
      BY <1>3
    <2> QED BY <1>2, <1>5, <1>7, <2>1, RoomIsLeft DEF Retrieves
  <1> QED BY <1>4, <1>6, <1>7 DEF store, learned, i

\* No sweep (retention.py, should_expire) expires what was learned within a day, whatever
\* the configured retention and the time zones of the clock; what is due stays due.
THEOREM KeptForADayHolds == KeptForADay(1..30)
  <1> SUFFICES ASSUME NEW candidate \in Candidate, NEW id \in Ids, NEW days \in 1..30,
                      NEW now \in Moments, NEW later \in Moments,
                      Due(MemoryOf(candidate, id), RevisionOf(candidate, 1), days, now)
               PROVE  /\ candidate.domain = "working_context"
                      /\ Instant[now] >= Instant[candidate.created_at] + Day
                      /\ Instant[later] >= Instant[now] =>
                            Due(MemoryOf(candidate, id), RevisionOf(candidate, 1), days, later)
    BY DEF KeptForADay
  <1> DEFINE t == Instant[candidate.created_at]
  <1>1. /\ candidate.domain = "working_context"
        /\ Instant[now] >= t + days * Day
        /\ Due(MemoryOf(candidate, id), RevisionOf(candidate, 1), days, later)
              <=> Instant[later] >= t + days * Day
    BY DEF Due, MemoryOf, RevisionOf
  <1>2. t \in Int /\ Instant[now] \in Int /\ Instant[later] \in Int
    BY TimeAssumption DEF Candidate
  <1>3. Day \in Nat /\ days * Day \in Nat /\ days * Day >= Day
    <2>1. Day \in Nat /\ days \in Nat /\ days >= 1
      BY TimeAssumption
    <2>2. days * Day = (days - 1) * Day + Day /\ (days - 1) * Day \in Nat
      BY <2>1, SMT
    <2> QED BY <2>1, <2>2
  <1>4. /\ Instant[now] >= t + Day
        /\ Instant[later] >= Instant[now] => Instant[later] >= t + days * Day
    <2> HIDE DEF t
    <2> QED BY <1>1, <1>2, <1>3
  <1> QED BY <1>1, <1>4
=============================================================================
