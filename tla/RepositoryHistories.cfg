SPECIFICATION Spec
CONSTANTS
    Memories = {m1, m2}
    Clients = {c1, c2}
    MaxRevision = 3
    MaxRow = 4
    Operations <- AllOperations
    NoKey = NoKey
    NoPayload = NoPayload
    NoMemory = NoMemory
    NoRow = NoRow
    Payload = {p}
    Keys = {k, j}
CONSTRAINT DeletesAreAlone
SYMMETRY KeySymmetry
INVARIANT Integrity
INVARIANT HistoryUnbroken
INVARIANT ActiveIsLatest
INVARIANT SupersededHasSuccessor
PROPERTY KeysAreStable
