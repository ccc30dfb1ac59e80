\* Safety of the ControlPlane reconcile: no leaked IAM role, and the
\* refinement of the abstract finalizer protocol.
CONSTANTS
    MaxIncarnation = 2
    MaxCrashes = 1
SPECIFICATION Spec
INVARIANTS
    TypeOK
    NoLeakedIAM
    FinalizerGuardsIAM
PROPERTIES
    RefinesFinalization
\* Once the last ControlPlane is gone and collected the operator is dormant.
CHECK_DEADLOCK FALSE
