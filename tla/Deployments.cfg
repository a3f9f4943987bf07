SPECIFICATION DeploymentSpec
CONSTANTS
    Run = {r1}
    MaxCrashes = 2
    QueuedRun = {r1, r2}
    Worker = {w1}
    NoWorker = NoWorker
    MaxAttempts = 2
    MaxQueued = 1
    Concurrency = 1
    Lease = 1
    Heartbeat = 1
    MaxDelay = 1
    r1 = r1
    r2 = r2
    w1 = w1
CHECK_DEADLOCK FALSE
INVARIANT TypeOK
INVARIANT ActiveRunIsServed
INVARIANT TasksRespectDecision
INVARIANT TaskTableSound
INVARIANT FreshQueueBounded
PROPERTY ImplementsLifecycle
PROPERTY ActiveRunSettles
PROPERTY InvestigationEnds
PROPERTY ApprovedRunEnds
