SPECIFICATION FairSpec
CONSTANTS
    Requests = {r1, r2}
    NoRequest = NoRequest
    Chat = Chat
    Bad = Bad
    MaxConnections = 1
    MaxInbox = 1
CHECK_DEADLOCK FALSE
PROPERTY DisconnectFrees
PROPERTY GateComesBack
