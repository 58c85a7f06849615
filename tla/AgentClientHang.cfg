SPECIFICATION Spec
CONSTANTS
    Requests = {r1, r2}
    NoRequest = NoRequest
    Chat = Chat
    Bad = Bad
    MaxConnections = 2
    MaxInbox = 1
CHECK_DEADLOCK FALSE
INVARIANT ReceiveFailureReachesAll
