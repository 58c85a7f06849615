--------------------------- MODULE MCMemoryRules ---------------------------
(* Bounded instances of MemoryProtocol, MemoryRules and Characters.  They  *)
(* have no states: TLC evaluates what they promise before a run starts.    *)
EXTENDS Characters, TLC

\* .NET reads a UUID in hexadecimal groups, Python one with "urn:uuid:", both with braces.
MCSpellings == {"canonical 1", "canonical 2", "braces 1", "groups 2", "urn 1", "neither"}
MCCanonical == "uuid 1" :> "canonical 1" @@ "uuid 2" :> "canonical 2"
BothRead == "canonical 1" :> "uuid 1" @@ "canonical 2" :> "uuid 2"
            @@ "braces 1" :> "uuid 1" @@ "neither" :> Refused
MCGuidTryParse == BothRead @@ "groups 2" :> "uuid 2" @@ "urn 1" :> Refused
MCPythonUUID == BothRead @@ "groups 2" :> Refused @@ "urn 1" :> "uuid 1"

\* "sharp s" is folded to two characters, one more than MaxKeyLength allows.
MCTexts == {"", " ", "U+001F", "t", "T", "t ", "sharp s", "ss", "t t"}
MCSpaced == {" ", "U+001F", "t ", "t t"}
Same == [text \in MCTexts |-> text]
MCStrip == [Same EXCEPT ![" "] = "", !["U+001F"] = "", !["t "] = "t"]
MCCasefold == [Same EXCEPT !["T"] = "t", !["sharp s"] = "ss"]
MCLength == [text \in MCTexts |-> CASE text = "" -> 0
                                    [] text \in {"t ", "ss"} -> 2
                                    [] text = "t t" -> 3
                                    [] OTHER -> 1]

\* a moment, a day less an hour later in another time zone, and a day later
MCMoments == {"10:00Z", "+1 11:00+02:00", "+1 10:00Z"}
MCInstant == "10:00Z" :> 10 @@ "+1 11:00+02:00" :> 33 @@ "+1 10:00Z" :> 34

\* numbers below, at and above IntMax
MCNumbers == 1..3
MCExceptions == {"_MemoryProtocolRequestError", "MemoryNotFoundError", "MemoryDeletedError",
                 "MemoryStateError", "MemoryGovernanceError", "Exception"}

MCInputs == [source_message_id : {"t", "ss"}, active_character_id : {"t", "T"}]
MCExtracted == [content : {"t ", " ", "t t"}, domain : {"working_context", "relationship"},
                identity_key : {Null, "T", "sharp s", " "}]
MCPayloads == {<<>>} \cup {<<e>> : e \in MCExtracted} \cup (MCExtracted \X MCExtracted)

\* What else is stored: a relationship with a character and a global memory, each ACTIVE
\* or EXPIRED; and limits that leave room for two, for one, and for none.
MCStored(domain, scope, lifecycle) ==
    [memory |-> [memory_id |-> "uuid 2", domain |-> domain, scope |-> scope,
                 identity_key |-> Null],
     rev |-> [revision_number |-> 1, content |-> "t", source |-> "user_edit",
              lifecycle |-> lifecycle, recorded_at |-> "10:00Z", occurred_at |-> Null]]
MCStores ==
    {<<>>} \cup
    {<<MCStored("relationship", OfCharacter("t"), a), MCStored("episodic", GlobalUser, b)>> :
     a, b \in {"active", "expired"}}
MCLimits == [relationship |-> 2, episodic |-> 1, user_profile |-> 1, working_context |-> 0]

\* Directories of up to two files, which differ from a complete one in their id, the
\* persona (missing, blank, with a key too many, no table), the preferences and a key.
Described(text) == AsTable([description |-> AsString(text)])
Variants(key, values) == {[k \in {key} |-> v] : v \in values} \cup {<<>>}
MCDocuments ==
    {[k \in {"display_name"} |-> AsString("t")]
       @@ [k \in {"identity", "speech_style"} |-> Described("t")] @@ a @@ b @@ c @@ d :
     a \in Variants("character_id", {AsString("t"), AsString("T"), AsString(" "), Described("t")}),
     b \in Variants("persona", {Described("ss"), Described(" "), AsString("t"),
                               AsTable([description |-> AsString("t"), mood |-> AsString("t")])}),
     c \in Variants("preferences", {Described("T"), AsTable(<<>>)}),
     d \in Variants("prefrences", {Described("t")})}
MCDirectories == {<<>>} \cup {<<f>> : f \in MCDocuments} \cup (MCDocuments \X MCDocuments)

ASSUME RequestsAreUnderstood
ASSUME RefusalsCostNothing
ASSUME AnswersAreRead(MCNumbers)
ASSUME AnswersAreExpected(MCExceptions)
ASSUME KeysAreFixed
ASSUME ExtractedIsEligible(MCPayloads, MCInputs)
ASSUME EligibleIsStored(MCInputs, MCNumbers)
ASSUME LearnedIsRetrieved(MCInputs, {"t", "T"}, MCStores, MCLimits)
ASSUME KeptForADay({1, 2})
ASSUME NothingIsIgnored(MCDirectories)
=============================================================================
