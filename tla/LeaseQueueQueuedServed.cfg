SPECIFICATION FairSpec
CONSTANTS
    Run = {r1}
    Worker = {w1}
    NoWorker = NoWorker
    MaxAttempts = 2
    MaxQueued = 1
    Concurrency = 1
    Lease = 1
    Heartbeat = 1
    MaxDelay = 1
    r1 = r1
    w1 = w1
PROPERTY QueuedRunIsServed
