SPECIFICATION Spec
CONSTANTS
    Run = {r1}
    Worker = {w1, w2}
    NoWorker = NoWorker
    MaxAttempts = 3
    MaxQueued = 1
    Concurrency = 2
    Lease = 2
    Heartbeat = 1
    MaxDelay = 2
    r1 = r1
    w1 = w1
    w2 = w2
SYMMETRY Symmetry
INVARIANT TypeOK
INVARIANT NoStrandedRun
INVARIANT LockedRowKeepsOwner
INVARIANT ParkedByArtifactWriter
INVARIANT DecisionRespected
PROPERTY ArtifactsFenced
PROPERTY OnlyTheOwnerEnds
PROPERTY ImplementsLifecycle
