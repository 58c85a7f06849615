----------------------------- MODULE Characters -----------------------------
(***************************************************************************)
(* The characters of the companion: what load_character_definitions makes  *)
(* of a directory of TOML files, and which of them is the active one.      *)
(*                                                                         *)
(* A file that can be read is a function from its keys to their values; a  *)
(* value is a string or a table, which is a function as well.              *)
(***************************************************************************)
EXTENDS MemoryRules

Names == {"character_id", "display_name"}
RequiredSections == {"identity", "persona", "speech_style"}
OptionalSections == {"preferences", "core_values", "fictional_background"}
Fields == Names \cup RequiredSections \cup OptionalSections

AsString(text) == [type |-> "string", value |-> text]
AsTable(entries) == [type |-> "table", value |-> entries]

-----------------------------------------------------------------------------
(* One file.                                                               *)

IsString(data, key) == key \in DOMAIN data /\ data[key].type = "string"

\* a table with a description and nothing else
IsSection(data, key) ==
    /\ data[key].type = "table"
    /\ DOMAIN data[key].value \subseteq {"description"}
    /\ IsString(data[key].value, "description")

TextOfField(data, key) ==
    IF key \notin DOMAIN data THEN Null
    ELSE IF key \in Names THEN data[key].value
    ELSE data[key].value["description"].value

\* load_character_definition and CharacterDefinition.__post_init__ raise nothing.
Loads(data) ==
    /\ DOMAIN data \subseteq Fields
    /\ \A key \in Names : IsString(data, key)
    /\ RequiredSections \subseteq DOMAIN data
    /\ \A key \in DOMAIN data \ Names : IsSection(data, key)
    /\ \A key \in DOMAIN data : TextOfField(data, key) \notin CoreBlank

Definition(data) == [key \in Fields |-> TextOfField(data, key)]

-----------------------------------------------------------------------------
(* The directory: one character per file, and all of them or none.         *)

IdOf(data) == TextOfField(data, "character_id")

Distinct(files) ==
    \A f, g \in DOMAIN files : IdOf(files[f]) = IdOf(files[g]) => f = g

LoadAll(files) ==
    IF (\A f \in DOMAIN files : Loads(files[f])) /\ Distinct(files)
    THEN [id \in {IdOf(files[f]) : f \in DOMAIN files} |->
             Definition(files[CHOOSE f \in DOMAIN files : IdOf(files[f]) = id])]
    ELSE Refused

\* CharacterNotFoundError otherwise
Resolve(definitions, id) ==
    IF id \in DOMAIN definitions THEN definitions[id] ELSE Refused

-----------------------------------------------------------------------------

\* Every text of every file is in the definition of its own id, so that no misspelt key
\* and no file is dropped without a word; and the id fits the scope of a memory.
NothingIsIgnored(directories) ==
    \A files \in directories : LoadAll(files) # Refused =>
        \A f \in DOMAIN files :
            LET definition == Resolve(LoadAll(files), IdOf(files[f])) IN
            /\ \A key \in DOMAIN files[f] :
                  /\ definition[key] \notin CoreBlank \cup {Null}
                  /\ files[f][key] = IF key \in Names
                                     THEN AsString(definition[key])
                                     ELSE AsTable([description |-> AsString(definition[key])])
            /\ OfCharacter(definition["character_id"]) \in Scope
=============================================================================
