SPECIFICATION Spec
CONSTANTS
    MaxAttempts = 2
CHECK_DEADLOCK FALSE
INVARIANT TypeOK
INVARIANT AtMostOneLateRequest
INVARIANT NoRedelivery
PROPERTY CompletedIsFinal
PROPERTY ImplementsDelivery
