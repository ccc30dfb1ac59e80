\* A call that fails after creating an object leaves the cache behind the
\* store; the next call's Get misses and its Create gets AlreadyExists.
CONSTANTS
    N = 2
    MaxFaults = 1
    MaxDeletes = 0
SPECIFICATION Spec
INVARIANTS
    AlreadyExistsNotFatal
CHECK_DEADLOCK FALSE
