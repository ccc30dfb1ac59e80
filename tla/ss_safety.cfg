\* Delete cleans up after any interleaving of failures, restarts and the
\* user's delete.  The worker is dormant once the Substrate is gone.
CONSTANTS
    MaxFaults = 2
    MaxRestarts = 1
SPECIFICATION Spec
INVARIANTS
    TypeOK
    DeleteLeavesNothing
CHECK_DEADLOCK FALSE
