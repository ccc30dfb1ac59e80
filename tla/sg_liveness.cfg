\* Create converges under weak fairness of the worker and the informer.
\* The worker is dormant once everything exists.
CONSTANTS
    N = 3
    MaxFaults = 2
    MaxDeletes = 1
SPECIFICATION FairSpec
PROPERTIES
    EventuallyConverged
CHECK_DEADLOCK FALSE
