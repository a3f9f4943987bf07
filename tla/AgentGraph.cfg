SPECIFICATION Spec
CONSTANTS
    m1 = m1
    m2 = m2
    c1 = c1
    c2 = c2
    Observation = {m1, m2, c1, c2}
    Source <- MCSource
    MaxTries = 2
    MaxSteps = 4
    MaxToolCalls = 5
    MaxPatches = 2
    MaxAttempts = 2
    MaxHead = 2
SYMMETRY Symmetry
CHECK_DEADLOCK FALSE
INVARIANT TypeOK
INVARIANT ToolBudgetHolds
INVARIANT ParkedIsApprovable
INVARIANT PatchNeedsEvidence
INVARIANT PatchesBounded
