SPECIFICATION Spec
CONSTANTS
    Connections = {c1, c2}
    Memories <- MCMemories
    Scope <- MCScope
    Requests <- MCRequests
    Databases <- MCDatabases
    Limit = 1
    MaxFrames = 1
CHECK_DEADLOCK FALSE
INVARIANT MessagesEndNoConnection
