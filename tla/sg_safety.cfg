\* The loop, the cache and the work queue never leave an object missing
\* with nobody to notice.  The worker is dormant once everything exists.
CONSTANTS
    N = 3
    MaxFaults = 2
    MaxDeletes = 2
SPECIFICATION Spec
INVARIANTS
    TypeOK
    IdleMeansCovered
CHECK_DEADLOCK FALSE
