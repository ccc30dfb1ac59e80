\* Create and Delete complete under weak fairness of the worker.  The
\* worker is dormant once the Substrate is gone.
CONSTANTS
    MaxFaults = 1
    MaxRestarts = 1
SPECIFICATION FairSpec
PROPERTIES
    EventuallyPublished
    DeletionCompletes
CHECK_DEADLOCK FALSE
