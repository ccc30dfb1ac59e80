CONSTANTS
    MaxIncarnation = 1
    MaxCrashes = 1
SPECIFICATION FairSpec
PROPERTIES
    EventuallyProvisioned
    DeletionCompletes
\* Once the ControlPlane is gone and collected the operator is dormant.
CHECK_DEADLOCK FALSE
