\* Creation before dependents (across layers, and the kube-proxy pods' own
\* references), and Ready only over a provisioned ControlPlane, for one
\* ControlPlane incarnation (a second one reaches the stale-UID race that
\* cp_adopt_race shows).
CONSTANTS
    MaxIncarnation = 1
    MaxCrashes = 1
SPECIFICATION Spec
INVARIANTS
    ReadyMeansProvisioned
PROPERTIES
    PrerequisitesFirst
    PodSpecRefsFirst
\* Once the ControlPlane is gone and collected the operator is dormant.
CHECK_DEADLOCK FALSE
