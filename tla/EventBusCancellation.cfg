SPECIFICATION Spec
CONSTANTS
    Handlers = {h1}
    Types = {"fact"}
    MaxEvents = 2
    TypeOf <- OneType
    Capacity = 1
    Closers = {c1, c2}
CHECK_DEADLOCK FALSE
INVARIANT CancellationPropagates
