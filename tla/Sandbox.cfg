SPECIFICATION FairSpec
CONSTANTS
    MaxPatches = 2
    Edits = 2
    MaxTree = 2
    MaxCrashes = 2
CHECK_DEADLOCK FALSE
INVARIANT TypeOK
INVARIANT ArtifactIsTested
INVARIANT PatchKeepsItsBase
INVARIANT ProtectedBaseIsCommit
INVARIANT LitterIsExplained
PROPERTY TestRunEnds
