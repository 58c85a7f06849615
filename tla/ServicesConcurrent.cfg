SPECIFICATION ServicesSpec
CONSTANTS
    Keys = {"drink"}
    NoKey = NoKey
    NoPayload = NoPayload
    NoMemory = NoMemory
    NoRow = NoRow
    NoCandidate = NoCandidate
    Absent = Absent
    Payload <- MCFacts
    Contents <- MCContents
    Times <- MCTimes
    Candidates <- MCCandidates
    Memories = {m1, m2}
    Clients = {c1, c2}
    MaxRevision = 3
    MaxRow = 3
    Operations <- AllOperations
CONSTRAINT DeletesAreAlone
SYMMETRY Symmetry
INVARIANT ServicesTypeOK
INVARIANT TombstoneIsAlone
INVARIANT UserEditsOutrankLearning
PROPERTY RefinesLifecycle
