\* A restart loses /tmp; the next Create mints a new CA and overwrites the
\* published one in the bucket.
CONSTANTS
    MaxFaults = 0
    MaxRestarts = 1
SPECIFICATION Spec
PROPERTIES
    CAStable
CHECK_DEADLOCK FALSE
