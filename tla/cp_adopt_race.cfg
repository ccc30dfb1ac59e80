CONSTANTS
    MaxIncarnation = 2
    MaxCrashes = 0
SPECIFICATION Spec
INVARIANTS
    ReadyMeansProvisioned
CHECK_DEADLOCK FALSE
