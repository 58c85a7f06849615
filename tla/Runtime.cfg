SPECIFICATION RuntimeFairSpec
CONSTANTS
    Processes = {p1, p2}
    NoProcess = NoProcess
INVARIANT ComposedOnCompleteSchema
INVARIANT FailureHasReason
INVARIANT TornHasReason
INVARIANT ReleasesWhatItMade
PROPERTY StartEnds
