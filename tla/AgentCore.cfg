SPECIFICATION FairSpec
CONSTANTS
    Connections = {c1, c2}
    Memories <- MCMemories
    Scope <- MCScope
    Requests <- MCRequests
    Databases <- MCDatabases
    Limit = 1
    MaxFrames = 2
CHECK_DEADLOCK FALSE
INVARIANT TypeOK
INVARIANT RepliesFollowFrames
INVARIANT FailuresAreIsolated
INVARIANT GovernanceIsTruthful
INVARIANT HealthIsCurrent
INVARIANT PromptIsPermitted
INVARIANT ProviderOutlivesTurns
PROPERTY FramesAreAnswered
PROPERTY ShutdownEnds
