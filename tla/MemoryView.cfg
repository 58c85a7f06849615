SPECIFICATION ViewSpec
CONSTANTS
    Memories = {m1, m2}
    MaxRevision = 2
    Contents = {"tea"}
    Times <- MCTimes
    NoPayload = NoPayload
    NoMemory = NoMemory
    NoEntry = NoEntry
    Absent = Absent
    Ids = {"uuid 1", "uuid 2"}
    Spellings <- MCSpellings
    GuidTryParse <- MCGuidTryParse
    PythonUUID <- MCPythonUUID
    Canonical <- MCCanonical
    Texts <- MCTexts
    Moments <- MCMoments
    DesktopBlank = {"", " "}
    CoreBlank = {"", " ", "U+001F"}
    Empty = ""
    Strip <- MCStrip
    Casefold <- MCCasefold
    Length <- MCLength
    Spaced <- MCSpaced
    MaxKeyLength = 1
    Instant <- MCInstant
    Day = 24
    IntMax = 2
    Null = Null
    Refused = Refused
CONSTRAINT OneLateWrite
SYMMETRY Symmetry
INVARIANT TextIsOfSelected
INVARIANT DisplayIsOfOneMemory
INVARIANT ConfirmedDeletionsAreGone
INVARIANT EmptyIsTruthful
PROPERTY ShownNeverGoesBack
