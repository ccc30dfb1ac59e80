------------------------- MODULE ControlPlane_proofs -------------------------
(***************************************************************************)
(* Proofs about ControlPlane for every value of the constants: the type   *)
(* invariant, and NoLeakedIAM through its inductive strengthening          *)
(* FinalizerGuardsIAM.                                                     *)
(***************************************************************************)
EXTENDS ControlPlane, TLAPS

(* The shape of the composition: how many stages, how many steps each.     *)
LEMMA StageShape ==
    /\ Len(Stages) = 3
    /\ StepCount[1] = 1 /\ Len(StepsOf(1)) = 1
    /\ StepCount[2] = 3 /\ Len(StepsOf(2)) = 3
    /\ StepCount[3] = 4 /\ Len(StepsOf(3)) = 4
BY DEF StepCount, Stages, StepsOf, StageSteps, EtcdSteps, MasterSteps, KubeProxySteps

(* Advance keeps the worker's position inside the composition.             *)
LEMMA AdvanceTyped ==
    ASSUME stage \in 1..Len(Stages), step \in 1..StepCount[stage],
           phase \in Phases, ready \in BOOLEAN, Advance
    PROVE  /\ stage' \in 1..Len(Stages)
           /\ step' \in 1..StepCount[stage']
           /\ phase' \in Phases
           /\ ready' \in BOOLEAN
<1>1. stage \in 1..3 /\ StepCount[stage] \in 1..4 BY StageShape
<1>2. CASE step < StepCount[stage] /\ step' = step + 1 /\ UNCHANGED <<stage, phase, ready>>
    BY <1>1, <1>2
<1>3. CASE stage < Len(Stages) /\ stage' = stage + 1 /\ step' = 1 /\ UNCHANGED <<phase, ready>>
    BY <1>1, <1>3, StageShape
<1>4. CASE phase' = "idle" /\ ready' = TRUE /\ UNCHANGED <<stage, step>>
    BY <1>4 DEF Phases
<1>5. QED BY <1>2, <1>3, <1>4 DEF Advance

(* The worker's part of TypeOK, kept by every step that leaves the worker   *)
(* alone.                                                                  *)
WorkerTyped ==
    /\ phase \in Phases
    /\ stage \in 1..Len(Stages)
    /\ step \in 1..StepCount[stage]
    /\ seen \in 1..MaxIncarnation
    /\ invoked \in Seq(StageNames)

LEMMA WorkerUnchanged ==
    ASSUME WorkerTyped, UNCHANGED workerVars PROVE WorkerTyped'
BY DEF WorkerTyped, workerVars

(* Every step of Next preserves TypeOK.                                    *)
LEMMA TypeStep == TypeOK /\ [Next]_vars => TypeOK'
<1> SUFFICES ASSUME TypeOK, [Next]_vars PROVE TypeOK'
    OBVIOUS
<1> USE IncarnationAssumption, CrashAssumption
<1>1. ASSUME Advance PROVE /\ stage' \in 1..Len(Stages)
                           /\ step' \in 1..StepCount[stage']
                           /\ phase' \in Phases
                           /\ ready' \in BOOLEAN
    BY <1>1, AdvanceTyped DEF TypeOK
<1>2. ASSUME NEW o \in Objects, EnsureCreate(o) PROVE owner' \in [Objects -> 0..MaxIncarnation]
    BY <1>2 DEF EnsureCreate, TypeOK
<1>3. CASE Dequeue
    <2>1. CASE ~exists /\ UNCHANGED workerVars
        BY <1>3, <2>1 DEF Dequeue, TypeOK, cpVars, workerVars
    <2>2. CASE exists /\ seen' = incarnation /\ stage' = 1 /\ step' = 1 /\ invoked' = <<>>
                  /\ phase' = IF deleting THEN "finalize" ELSE "addFinalizer"
        <3>1. stage' \in 1..Len(Stages) /\ step' \in 1..StepCount[stage'] BY <2>2, StageShape
        <3>2. phase' \in Phases BY <2>2 DEF Phases
        <3>3. seen' \in 1..MaxIncarnation BY <2>2 DEF TypeOK
        <3>4. invoked' \in Seq(StageNames) BY <2>2
        <3>5. QED BY <1>3, <2>2, <3>1, <3>2, <3>3, <3>4, Zenon DEF Dequeue, TypeOK, cpVars
    <2>3. QED BY <1>3, <2>1, <2>2 DEF Dequeue
<1>4. CASE AddFinalizer BY <1>4 DEF AddFinalizer, TypeOK, Phases
<1>5. CASE ReconcileEtcd BY <1>5, <1>1, <1>2 DEF ReconcileEtcd, TypeOK, Objects, Owned
<1>6. CASE ReconcileEndpoint BY <1>6, <1>1, <1>2 DEF ReconcileEndpoint, TypeOK, Objects, Owned
<1>7. CASE ReconcileRootCA BY <1>7, <1>1, <1>2 DEF ReconcileRootCA, TypeOK, Objects, Owned
<1>8. CASE ReconcileIAM BY <1>8, <1>1, <1>2 DEF ReconcileIAM, TypeOK, Objects, External
<1>9. CASE ServiceAccount BY <1>9, <1>1, <1>2 DEF ServiceAccount, EnsurePatch, TypeOK, Objects, Tenant
<1>10. CASE ClusterRoleBinding BY <1>10, <1>1, <1>2 DEF ClusterRoleBinding, TypeOK, Objects, Tenant
<1>11. CASE KubeConfig BY <1>11, <1>1, <1>2 DEF KubeConfig, EnsurePatch, TypeOK, Objects, Tenant
<1>12. CASE KubeConfigWaiting BY <1>12 DEF KubeConfigWaiting, TypeOK, Phases, cpVars
<1>13. CASE KubeConfigNoCA BY <1>13 DEF KubeConfigNoCA, TypeOK, Phases
<1>14. CASE DaemonsetForKubeProxy BY <1>14, <1>1, <1>2 DEF DaemonsetForKubeProxy, EnsurePatch, TypeOK, Objects, Tenant
<1>15. CASE ReconcileFailed BY <1>15 DEF ReconcileFailed, TypeOK, Phases
<1>16. CASE Finalize BY <1>16 DEF Finalize, TypeOK, Phases, StageNames, cpVars, Objects, External
<1>17. CASE RemoveFinalizer BY <1>17 DEF RemoveFinalizer, TypeOK, Phases
<1>18. CASE FinalizeFailed BY <1>18 DEF FinalizeFailed, TypeOK, Phases, cpVars
<1>0. WorkerTyped BY DEF TypeOK, WorkerTyped
<1>19. CASE UserDelete
    <2>1. WorkerTyped' BY <1>0, <1>19, WorkerUnchanged DEF UserDelete
    <2>2. QED BY <1>19, <2>1 DEF UserDelete, TypeOK, WorkerTyped
<1>20. CASE Recreate
    <2>1. WorkerTyped' BY <1>0, <1>20, WorkerUnchanged DEF Recreate
    <2>2. incarnation' \in 1..MaxIncarnation BY <1>20, IncarnationAssumption DEF Recreate, TypeOK
    <2>3. QED BY <1>20, <2>1, <2>2, Zenon DEF Recreate, TypeOK, WorkerTyped
<1>21. CASE \E o \in Owned : GarbageCollect(o)
    <2>1. PICK o \in Owned : GarbageCollect(o) BY <1>21
    <2>2. owner' \in [Objects -> 0..MaxIncarnation]
        <3>1. \A x \in Objects : owner[x] \in 0..MaxIncarnation BY DEF TypeOK
        <3>2. QED BY <2>1, <3>1 DEF GarbageCollect
    <2>3. hostname' \in BOOLEAN BY <2>1 DEF GarbageCollect
    <2>4. QED BY <2>1, <2>2, <2>3 DEF GarbageCollect, TypeOK, cpVars, workerVars
<1>22. CASE AssignHostname BY <1>22 DEF AssignHostname, TypeOK, cpVars, workerVars
<1>23. CASE Restart BY <1>23 DEF Restart, TypeOK, cpVars, Phases
<1>24. CASE UNCHANGED vars BY <1>24 DEF vars, TypeOK, cpVars, workerVars
<1>25. QED BY <1>3, <1>4, <1>5, <1>6, <1>7, <1>8, <1>9, <1>10, <1>11, <1>12,
              <1>13, <1>14, <1>15, <1>16, <1>17, <1>18, <1>19, <1>20, <1>21,
              <1>22, <1>23, <1>24 DEF Next

(* The initial state is well typed.                                       *)
LEMMA InitTyped == Init => TypeOK
<1> SUFFICES ASSUME Init PROVE TypeOK OBVIOUS
<1>1. owner \in [Objects -> 0..MaxIncarnation] BY IncarnationAssumption DEF Init
<1>2. stage \in 1..Len(Stages) /\ step \in 1..StepCount[stage] BY StageShape DEF Init
<1>3. invoked \in Seq(StageNames) BY DEF Init
<1>4. incarnation \in 1..MaxIncarnation /\ seen \in 1..MaxIncarnation /\ crashes \in 0..MaxCrashes
        BY IncarnationAssumption, CrashAssumption DEF Init
<1>5. QED BY <1>1, <1>2, <1>3, <1>4, Zenon DEF Init, TypeOK, Phases

(* The type invariant holds in every reachable state.                      *)
THEOREM TypeCorrect == Spec => []TypeOK
BY InitTyped, TypeStep, PTL DEF Spec
-----------------------------------------------------------------------------
(* NoLeakedIAM.  It is not inductive alone: a step of the worker could     *)
(* create the IAM role after the object is gone.  FinalizerGuardsIAM says  *)
(* why that cannot happen: the worker reconciles only a live object that   *)
(* carries the finalizer, and the finalizer cannot leave before Finalize   *)
(* has released the role.                                                  *)
IInv == TypeOK /\ FinalizerGuardsIAM

(* Creating or patching any object other than the IAM role leaves it.      *)
LEMMA EnsureOther ==
    ASSUME TypeOK, NEW o \in Objects, o # "iamRole", EnsureCreate(o)
    PROVE  owner'["iamRole"] = owner["iamRole"]
BY DEF EnsureCreate, TypeOK, Objects, External

(* The worker's position after Advance: reconciling goes on or ends idle.  *)
LEMMA AdvancePhase ==
    ASSUME Advance PROVE phase' \in {phase, "idle"}
BY DEF Advance

LEMMA GuardStep == IInv /\ [Next]_vars => FinalizerGuardsIAM'
<1> SUFFICES ASSUME TypeOK, FinalizerGuardsIAM, [Next]_vars
             PROVE  FinalizerGuardsIAM'
    BY DEF IInv
<1> DEFINE iam == owner["iamRole"]
<1>1. "iamRole" \in Objects BY DEF Objects, External
(* The steps of a pass that create or patch a non-IAM object.             *)
<1>2. ASSUME NEW o \in Objects \ {"iamRole"}, Reconciling(o), EnsureCreate(o), Advance,
             UNCHANGED <<exists, deleting, finalizer>>
      PROVE  FinalizerGuardsIAM'
    <2>1. iam' = iam BY <1>2, EnsureOther
    <2>2. phase' \in {phase, "idle"} BY <1>2, AdvancePhase
    <2>3. phase = "reconcile" BY <1>2 DEF Reconciling
    <2>4. QED BY <1>2, <2>1, <2>2, <2>3 DEF FinalizerGuardsIAM
<1>3. CASE Dequeue BY <1>3 DEF Dequeue, FinalizerGuardsIAM, cpVars, workerVars
<1>4. CASE AddFinalizer BY <1>4 DEF AddFinalizer, FinalizerGuardsIAM
<1>5. CASE ReconcileEtcd BY <1>5, <1>2 DEF ReconcileEtcd, Objects, Owned
<1>6. CASE ReconcileEndpoint BY <1>6, <1>2 DEF ReconcileEndpoint, Objects, Owned
<1>7. CASE ReconcileRootCA BY <1>7, <1>2 DEF ReconcileRootCA, Objects, Owned
<1>8. CASE ReconcileIAM
    <2>1. exists /\ finalizer BY <1>8 DEF ReconcileIAM, Reconciling, FinalizerGuardsIAM
    <2>2. phase' \in {"reconcile", "idle"} BY <1>8, AdvancePhase DEF ReconcileIAM, Reconciling
    <2>3. QED BY <1>8, <2>1, <2>2 DEF ReconcileIAM, FinalizerGuardsIAM
<1>9. CASE ServiceAccount BY <1>9, <1>2 DEF ServiceAccount, EnsurePatch, Objects, Tenant
<1>10. CASE ClusterRoleBinding BY <1>10, <1>2 DEF ClusterRoleBinding, Objects, Tenant
<1>11. CASE KubeConfig BY <1>11, <1>2 DEF KubeConfig, EnsurePatch, Objects, Tenant
<1>12. CASE KubeConfigWaiting BY <1>12 DEF KubeConfigWaiting, FinalizerGuardsIAM, cpVars
<1>13. CASE KubeConfigNoCA BY <1>13 DEF KubeConfigNoCA, FinalizerGuardsIAM
<1>14. CASE DaemonsetForKubeProxy BY <1>14, <1>2 DEF DaemonsetForKubeProxy, EnsurePatch, Objects, Tenant
<1>15. CASE ReconcileFailed BY <1>15 DEF ReconcileFailed, FinalizerGuardsIAM
<1>16. CASE Finalize
    <2>1. iam' = 0 BY <1>16, <1>1 DEF Finalize, TypeOK
    <2>2. QED BY <1>16, <2>1 DEF Finalize, FinalizerGuardsIAM, cpVars
<1>17. CASE RemoveFinalizer BY <1>17 DEF RemoveFinalizer, FinalizerGuardsIAM
<1>18. CASE FinalizeFailed BY <1>18 DEF FinalizeFailed, FinalizerGuardsIAM, cpVars
<1>19. CASE UserDelete BY <1>19 DEF UserDelete, FinalizerGuardsIAM, workerVars
<1>20. CASE Recreate BY <1>20 DEF Recreate, FinalizerGuardsIAM, workerVars
<1>21. CASE \E o \in Owned : GarbageCollect(o)
    <2>1. PICK o \in Owned : GarbageCollect(o) BY <1>21
    <2>2. iam' = iam BY <2>1, <1>1 DEF GarbageCollect, Owned, Tenant
    <2>3. QED BY <2>1, <2>2 DEF GarbageCollect, FinalizerGuardsIAM, cpVars, workerVars
<1>22. CASE AssignHostname BY <1>22 DEF AssignHostname, FinalizerGuardsIAM, cpVars, workerVars
<1>23. CASE Restart BY <1>23 DEF Restart, FinalizerGuardsIAM, cpVars
<1>24. CASE UNCHANGED vars BY <1>24 DEF vars, FinalizerGuardsIAM, cpVars, workerVars
<1>25. QED BY <1>3, <1>4, <1>5, <1>6, <1>7, <1>8, <1>9, <1>10, <1>11, <1>12,
              <1>13, <1>14, <1>15, <1>16, <1>17, <1>18, <1>19, <1>20, <1>21,
              <1>22, <1>23, <1>24 DEF Next

(* The IAM role of a ControlPlane is never left behind once the object is  *)
(* gone: the master controller's Finalize runs before the finalizer goes.  *)
THEOREM NoLeak == Spec => []NoLeakedIAM
<1>1. Init => IInv
    <2>1. Init => TypeOK BY InitTyped
    <2>2. Init => FinalizerGuardsIAM BY DEF Init, FinalizerGuardsIAM, Objects, External
    <2>3. QED BY <2>1, <2>2 DEF IInv
<1>2. IInv /\ [Next]_vars => IInv' BY TypeStep, GuardStep DEF IInv
<1>3. IInv => NoLeakedIAM BY DEF IInv, FinalizerGuardsIAM, NoLeakedIAM
<1>4. QED BY <1>1, <1>2, <1>3, PTL DEF Spec

(* The finalizer guards the IAM role in every reachable state: the role    *)
(* exists only on a live object holding the finalizer, a pass past        *)
(* AddFinalizer runs only on such an object, and the finalizer is removed  *)
(* only after Finalize released the role.                                  *)
THEOREM GuardsIAM == Spec => []FinalizerGuardsIAM
<1>1. Init => IInv
    BY InitTyped DEF Init, IInv, FinalizerGuardsIAM, Objects, External
<1>2. IInv /\ [Next]_vars => IInv' BY TypeStep, GuardStep DEF IInv
<1>3. QED BY <1>1, <1>2, PTL DEF Spec, IInv
-----------------------------------------------------------------------------
(* Refinement of Finalization.  Besides IInv, the mapping needs to know    *)
(* that a finalization pass runs on a deleting object: Finalize maps to    *)
(* the release of a deleting object's resource and RemoveFinalizer to its  *)
(* removal.                                                                *)
FinalizeOnDeleting == phase \in {"finalize", "removeFinalizer"} => deleting

RInv == IInv /\ FinalizeOnDeleting

LEMMA FinalizeOnDeletingStep == RInv /\ [Next]_vars => FinalizeOnDeleting'
<1> SUFFICES ASSUME TypeOK, FinalizerGuardsIAM, FinalizeOnDeleting, [Next]_vars
             PROVE  FinalizeOnDeleting'
    BY DEF RInv, IInv
(* A step that leaves the deletion timestamp and does not enter the        *)
(* finalization pass.                                                      *)
<1>1. ASSUME phase' \in {phase, "idle", "reconcile"}, UNCHANGED deleting
      PROVE  FinalizeOnDeleting'
    BY <1>1 DEF FinalizeOnDeleting
(* The steps of a reconcile pass.                                          *)
<1>2. ASSUME Advance, UNCHANGED deleting PROVE FinalizeOnDeleting'
    BY <1>2, <1>1, AdvancePhase
<1>3. CASE Dequeue BY <1>3 DEF Dequeue, FinalizeOnDeleting, cpVars, workerVars
<1>4. CASE AddFinalizer BY <1>4, <1>1 DEF AddFinalizer
<1>5. CASE ReconcileEtcd BY <1>5, <1>2 DEF ReconcileEtcd
<1>6. CASE ReconcileEndpoint BY <1>6, <1>2 DEF ReconcileEndpoint
<1>7. CASE ReconcileRootCA BY <1>7, <1>2 DEF ReconcileRootCA
<1>8. CASE ReconcileIAM BY <1>8, <1>2 DEF ReconcileIAM
<1>9. CASE ServiceAccount BY <1>9, <1>2 DEF ServiceAccount
<1>10. CASE ClusterRoleBinding BY <1>10, <1>2 DEF ClusterRoleBinding
<1>11. CASE KubeConfig BY <1>11, <1>2 DEF KubeConfig
<1>12. CASE KubeConfigWaiting BY <1>12, <1>1 DEF KubeConfigWaiting, cpVars
<1>13. CASE KubeConfigNoCA BY <1>13, <1>1 DEF KubeConfigNoCA
<1>14. CASE DaemonsetForKubeProxy BY <1>14, <1>2 DEF DaemonsetForKubeProxy
<1>15. CASE ReconcileFailed BY <1>15, <1>1 DEF ReconcileFailed
<1>16. CASE Finalize BY <1>16 DEF Finalize, FinalizeOnDeleting, cpVars
<1>17. CASE RemoveFinalizer BY <1>17, <1>1 DEF RemoveFinalizer
<1>18. CASE FinalizeFailed BY <1>18, <1>1 DEF FinalizeFailed, cpVars
<1>19. CASE UserDelete BY <1>19 DEF UserDelete, FinalizeOnDeleting, workerVars
(* A re-created object has no deletion timestamp, but the worker cannot be *)
(* finalizing: the object was gone, and a finalization pass runs on a live *)
(* one.                                                                    *)
<1>20. CASE Recreate
    <2>1. phase \notin {"finalize", "removeFinalizer"} BY <1>20 DEF Recreate, FinalizerGuardsIAM
    <2>2. QED BY <1>20, <2>1 DEF Recreate, FinalizeOnDeleting, workerVars
<1>21. CASE \E o \in Owned : GarbageCollect(o)
    BY <1>21, <1>1 DEF GarbageCollect, cpVars, workerVars
<1>22. CASE AssignHostname BY <1>22, <1>1 DEF AssignHostname, cpVars, workerVars
<1>23. CASE Restart BY <1>23, <1>1 DEF Restart, cpVars
<1>24. CASE UNCHANGED vars BY <1>24, <1>1 DEF vars, workerVars, cpVars
<1>25. QED BY <1>3, <1>4, <1>5, <1>6, <1>7, <1>8, <1>9, <1>10, <1>11, <1>12,
              <1>13, <1>14, <1>15, <1>16, <1>17, <1>18, <1>19, <1>20, <1>21,
              <1>22, <1>23, <1>24 DEF Next

(* RInv holds in every reachable state.                                    *)
LEMMA RInvariant == Spec => []RInv
<1>1. Init => RInv
    <2>1. Init => TypeOK BY InitTyped
    <2>2. Init => FinalizerGuardsIAM /\ FinalizeOnDeleting
        BY DEF Init, FinalizerGuardsIAM, FinalizeOnDeleting, Objects, External
    <2>3. QED BY <2>1, <2>2 DEF RInv, IInv
<1>2. RInv /\ [Next]_vars => RInv'
    BY TypeStep, GuardStep, FinalizeOnDeletingStep DEF RInv, IInv
<1>3. QED BY <1>1, <1>2, PTL DEF Spec

(* The steps that change none of the mapped state are abstract stutters.   *)
LEMMA MappedStutter ==
    ASSUME UNCHANGED <<exists, deleting, finalizer>>, owner'["iamRole"] = owner["iamRole"]
    PROVE  UNCHANGED Abstract!vars
BY DEF Abstract!vars, ObjState

(* Every step of ControlPlane is a step of Finalization under the mapping, *)
(* or leaves the mapped state alone.                                       *)
LEMMA RefinementStep == RInv /\ [Next]_vars => [Abstract!Next]_Abstract!vars
<1> SUFFICES ASSUME TypeOK, FinalizerGuardsIAM, FinalizeOnDeleting, [Next]_vars
             PROVE  [Abstract!Next]_Abstract!vars
    BY DEF RInv, IInv
<1> DEFINE iam == owner["iamRole"]
<1>1. "iamRole" \in Objects BY DEF Objects, External
(* The steps of a pass that create or patch a non-IAM object.             *)
<1>2. ASSUME NEW o \in Objects \ {"iamRole"}, EnsureCreate(o),
             UNCHANGED <<exists, deleting, finalizer>>
      PROVE  UNCHANGED Abstract!vars
    BY <1>2, EnsureOther, MappedStutter
(* The steps that leave the object and every resource alone.              *)
<1>3. ASSUME UNCHANGED <<exists, deleting, finalizer, owner>> PROVE UNCHANGED Abstract!vars
    BY <1>3, MappedStutter
<1>4. CASE Dequeue BY <1>4, <1>3 DEF Dequeue, cpVars
<1>5. CASE AddFinalizer
    <2>1. Abstract!Protect BY <1>5 DEF AddFinalizer, Abstract!Protect, ObjState
    <2>2. QED BY <2>1 DEF Abstract!Next
<1>6. CASE ReconcileEtcd BY <1>6, <1>2 DEF ReconcileEtcd, Objects, Owned
<1>7. CASE ReconcileEndpoint BY <1>7, <1>2 DEF ReconcileEndpoint, Objects, Owned
<1>8. CASE ReconcileRootCA BY <1>8, <1>2 DEF ReconcileRootCA, Objects, Owned
(* Creating the IAM role is Acquire: the pass runs on a live object that   *)
(* carries the finalizer; when the role is there already, nothing changes. *)
<1>9. CASE ReconcileIAM
    <2>1. exists /\ finalizer BY <1>9 DEF ReconcileIAM, Reconciling, FinalizerGuardsIAM
    <2>2. CASE iam = 0
        <3>1. iam' # 0 BY <1>9, <2>2, <1>1 DEF ReconcileIAM, EnsureCreate, TypeOK
        <3>2. Abstract!Acquire
            BY <1>9, <2>1, <3>1, Zenon DEF ReconcileIAM, Abstract!Acquire, ObjState
        <3>3. QED BY <3>2 DEF Abstract!Next
    <2>3. CASE iam # 0
        <3>1. iam' = iam BY <1>9, <2>3 DEF ReconcileIAM, EnsureCreate
        <3>2. QED BY <1>9, <3>1, MappedStutter DEF ReconcileIAM
    <2>4. QED BY <2>2, <2>3
<1>10. CASE ServiceAccount BY <1>10, <1>2 DEF ServiceAccount, EnsurePatch, Objects, Tenant
<1>11. CASE ClusterRoleBinding BY <1>11, <1>2 DEF ClusterRoleBinding, Objects, Tenant
<1>12. CASE KubeConfig BY <1>12, <1>2 DEF KubeConfig, EnsurePatch, Objects, Tenant
<1>13. CASE KubeConfigWaiting BY <1>13, <1>3 DEF KubeConfigWaiting, cpVars
<1>14. CASE KubeConfigNoCA BY <1>14, <1>3 DEF KubeConfigNoCA
<1>15. CASE DaemonsetForKubeProxy BY <1>15, <1>2 DEF DaemonsetForKubeProxy, EnsurePatch, Objects, Tenant
<1>16. CASE ReconcileFailed BY <1>16, <1>3 DEF ReconcileFailed
(* Finalize releases the role of an object that is deleting.              *)
<1>17. CASE Finalize
    <2>1. exists /\ deleting BY <1>17 DEF Finalize, FinalizerGuardsIAM, FinalizeOnDeleting
    <2>2. iam' = 0 BY <1>17, <1>1 DEF Finalize, TypeOK
    <2>3. Abstract!Release BY <1>17, <2>1, <2>2 DEF Finalize, cpVars, Abstract!Release, ObjState
    <2>4. QED BY <2>3 DEF Abstract!Next
(* Removing the finalizer removes a deleting object whose role is gone.   *)
<1>18. CASE RemoveFinalizer
    <2>1. exists /\ deleting /\ iam = 0
        BY <1>18 DEF RemoveFinalizer, FinalizerGuardsIAM, FinalizeOnDeleting
    <2>2. Abstract!Remove BY <1>18, <2>1 DEF RemoveFinalizer, Abstract!Remove, ObjState
    <2>3. QED BY <2>2 DEF Abstract!Next
<1>19. CASE FinalizeFailed BY <1>19, <1>3 DEF FinalizeFailed, cpVars
<1>20. CASE UserDelete
    <2>1. Abstract!Delete BY <1>20 DEF UserDelete, Abstract!Delete, ObjState
    <2>2. QED BY <2>1 DEF Abstract!Next
<1>21. CASE Recreate
    <2>1. Abstract!Recreate BY <1>21 DEF Recreate, Abstract!Recreate, ObjState
    <2>2. QED BY <2>1 DEF Abstract!Next
(* The garbage collector never touches the IAM role: it is not owned.      *)
<1>22. CASE \E o \in Owned : GarbageCollect(o)
    <2>1. PICK o \in Owned : GarbageCollect(o) BY <1>22
    <2>2. iam' = iam BY <2>1, <1>1 DEF GarbageCollect, Owned, Tenant
    <2>3. QED BY <2>1, <2>2, MappedStutter DEF GarbageCollect, cpVars
<1>23. CASE AssignHostname BY <1>23, <1>3 DEF AssignHostname, cpVars
<1>24. CASE Restart BY <1>24, <1>3 DEF Restart, cpVars
<1>25. CASE UNCHANGED vars BY <1>25, <1>3 DEF vars, cpVars
<1>26. QED BY <1>4, <1>5, <1>6, <1>7, <1>8, <1>9, <1>10, <1>11, <1>12, <1>13,
              <1>14, <1>15, <1>16, <1>17, <1>18, <1>19, <1>20, <1>21, <1>22,
              <1>23, <1>24, <1>25 DEF Next

(* ControlPlane implements the finalizer protocol: its initial state maps  *)
(* to a live object without finalizer or role, and every step of the       *)
(* worker, the user, the garbage collector, the cloud and restarts is a    *)
(* step of Finalization or a stutter.                                      *)
THEOREM Refinement == Spec => RefinesFinalization
<1>1. Init => Abstract!Init
    BY DEF Init, Abstract!Init, ObjState, Objects, External
<1>2. QED BY <1>1, RInvariant, RefinementStep, PTL
          DEF Spec, RefinesFinalization, Abstract!Spec

=============================================================================
