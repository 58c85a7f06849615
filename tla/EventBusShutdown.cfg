SPECIFICATION FairSpec
CONSTANTS
    Handlers = {h1, h2}
    Types = {"fact", "other"}
    MaxEvents = 3
    TypeOf <- TwoTypes
    Capacity = 2
    Closers = {c1, c2}
CHECK_DEADLOCK FALSE
INVARIANT Accounting
PROPERTY ImplementsQueue
INVARIANT ClosedIsClean
INVARIANT GracefulDrain
PROPERTY DispatchIsNotCut
PROPERTY CloseEnds
PROPERTY AcceptedIsDispatched
