SPECIFICATION Spec
CONSTANTS
    MaxAttempts = 2
CHECK_DEADLOCK FALSE
ACTION_CONSTRAINT NoRefusal
PROPERTY FoundPullIsRecovered
