---------------------- MODULE ControlPlaneOrder_proofs ----------------------
(***************************************************************************)
(* Proofs of the creation order of ControlPlane's composition (the action *)
(* properties PrerequisitesFirst and PodSpecRefsFirst) and of Ready        *)
(* meaning provisioned, for every number of incarnations, restarts and     *)
(* failures, in every behaviour where no object ever carries the owner     *)
(* reference of a ControlPlane that is no longer the live one.  Where one  *)
(* does, all three properties fail: a pass that loaded the old UID creates *)
(* or adopts objects the garbage collector then takes away from under the  *)
(* pass or from under Ready (run cp_adopt_race).                           *)
(***************************************************************************)
EXTENDS ControlPlane_proofs

(* A reconcile pass has everything it applied so far in place: every      *)
(* resource of the stages before the current one and of the steps before   *)
(* the current one in its stage.  A pass starts at the first step.          *)
PassPrefixPresent ==
    /\ phase = "addFinalizer" => stage = 1 /\ step = 1
    /\ phase = "reconcile" =>
        /\ \A i \in 1..(stage - 1) : \A j \in 1..StepCount[i] : owner[StepsOf(i)[j]] # 0
        /\ \A j \in 1..(step - 1) : owner[StepsOf(stage)[j]] # 0

OInv == IInv /\ PassPrefixPresent

(* No object is owned by a dead UID: every owner reference (endpoint.go    *)
(* 32 and its siblings stamp the UID of the snapshot the pass loaded) is   *)
(* the live ControlPlane's.  It holds always when a name is never created  *)
(* again, and across re-creations when the collector has taken the old     *)
(* objects before the new object's first pass; it fails exactly in the    *)
(* stale-UID race of cp_adopt_race.                                        *)
NoStaleOwner == \A o \in Objects : owner[o] \in {0, incarnation}

(* The resources of the composition are objects of the model.              *)
LEMMA StepsAreObjects ==
    ASSUME NEW i \in 1..Len(Stages), NEW j \in 1..StepCount[i]
    PROVE  StepsOf(i)[j] \in Objects
<1>1. i \in 1..3 BY StageShape
<1>2. CASE i = 1 BY <1>2, StageShape DEF StepsOf, Stages, StageSteps, EtcdSteps, Objects, Owned
<1>3. CASE i = 2 BY <1>3, StageShape DEF StepsOf, Stages, StageSteps, MasterSteps, Objects, Owned, External
<1>4. CASE i = 3 BY <1>4, StageShape DEF StepsOf, Stages, StageSteps, KubeProxySteps, Objects, Tenant
<1>5. QED BY <1>1, <1>2, <1>3, <1>4

(* Creating or patching never removes an object, and leaves the object it  *)
(* applies in place.                                                       *)
LEMMA EnsureKeeps ==
    ASSUME TypeOK, NEW o \in Objects, EnsureCreate(o)
    PROVE  /\ owner'[o] # 0
           /\ \A x \in Objects : owner[x] # 0 => owner'[x] # 0
           /\ \A x \in Objects \ {o} : owner'[x] = owner[x]
BY IncarnationAssumption DEF EnsureCreate, TypeOK

(* A step of the pass that applies the current resource and moves on       *)
(* keeps the prefix in place and adds the current resource to it.         *)
LEMMA ApplyStep ==
    ASSUME TypeOK, PassPrefixPresent, phase = "reconcile",
           EnsureCreate(Current), Advance
    PROVE  PassPrefixPresent'
<1>1. stage \in 1..Len(Stages) /\ step \in 1..StepCount[stage] BY DEF TypeOK
<1>2. Current \in Objects BY <1>1, StepsAreObjects DEF Current
<1>3. /\ owner'[Current] # 0
      /\ \A x \in Objects : owner[x] # 0 => owner'[x] # 0
    BY <1>2, EnsureKeeps
<1>4. \A i \in 1..(stage - 1) : \A j \in 1..StepCount[i] : owner'[StepsOf(i)[j]] # 0
    <2>1. \A i \in 1..(stage - 1) : i \in 1..Len(Stages) BY <1>1, StageShape
    <2>2. QED BY <2>1, <1>3, StepsAreObjects DEF PassPrefixPresent
<1>5. \A j \in 1..step : owner'[StepsOf(stage)[j]] # 0
    <2>1. \A j \in 1..(step - 1) : j \in 1..StepCount[stage] BY <1>1, StageShape
    <2>2. \A j \in 1..(step - 1) : owner'[StepsOf(stage)[j]] # 0
        BY <2>1, <1>1, <1>3, StepsAreObjects DEF PassPrefixPresent
    <2>3. \A j \in 1..step : j \in 1..(step - 1) \/ j = step BY <1>1, StageShape
    <2>4. QED BY <2>2, <2>3, <1>3 DEF Current
<1>6. CASE step < StepCount[stage] /\ step' = step + 1 /\ UNCHANGED <<stage, phase, ready>>
    <2>1. \A j \in 1..(step' - 1) : j \in 1..step BY <1>6, <1>1, StageShape
    <2>2. QED BY <1>4, <1>5, <1>6, <2>1 DEF PassPrefixPresent
<1>7. CASE step = StepCount[stage] /\ stage < Len(Stages) /\ stage' = stage + 1
           /\ step' = 1 /\ UNCHANGED <<phase, ready>>
    <2>1. \A i \in 1..(stage' - 1) : i \in 1..(stage - 1) \/ i = stage BY <1>7, <1>1, StageShape
    <2>2. \A j \in 1..StepCount[stage] : j \in 1..step BY <1>7, <1>1, StageShape
    <2>3. 1..(step' - 1) = {} BY <1>7
    <2>4. QED BY <1>4, <1>5, <1>7, <2>1, <2>2, <2>3 DEF PassPrefixPresent
<1>8. CASE phase' = "idle" /\ ready' = TRUE /\ UNCHANGED <<stage, step>>
    BY <1>8 DEF PassPrefixPresent
<1>9. QED BY <1>6, <1>7, <1>8 DEF Advance
(* The steps that leave the worker and every object alone, or send the     *)
(* worker back to idle or into finalization, keep the prefix trivially.    *)
LEMMA QuietStep ==
    ASSUME PassPrefixPresent,
           \/ UNCHANGED <<phase, stage, step, owner>>
           \/ phase' \in {"idle", "finalize", "removeFinalizer"}
    PROVE  PassPrefixPresent'
BY DEF PassPrefixPresent

(* Every step from a state without stale owners keeps the prefix of a     *)
(* pass in place.  The one step that takes objects away without the worker *)
(* is the garbage collector, and without stale owners it only collects for *)
(* an object that is gone, while a pass runs on one that exists.           *)
LEMMA PrefixStep ==
    OInv /\ NoStaleOwner /\ [Next]_vars => PassPrefixPresent'
<1> SUFFICES ASSUME TypeOK, FinalizerGuardsIAM, PassPrefixPresent, NoStaleOwner, [Next]_vars
             PROVE  PassPrefixPresent'
    BY DEF OInv, IInv
<1>1. ASSUME NEW o \in Objects, Reconciling(o), EnsureCreate(o), Advance
      PROVE  PassPrefixPresent'
    BY <1>1, ApplyStep DEF Reconciling
<1>2. CASE Dequeue
    <2>1. CASE ~exists /\ UNCHANGED workerVars BY <1>2, <2>1, QuietStep DEF Dequeue, workerVars
    <2>2. CASE exists /\ stage' = 1 /\ step' = 1
                /\ phase' = IF deleting THEN "finalize" ELSE "addFinalizer"
        BY <2>2 DEF PassPrefixPresent
    <2>3. QED BY <1>2, <2>1, <2>2 DEF Dequeue
<1>3. CASE AddFinalizer BY <1>3 DEF AddFinalizer, PassPrefixPresent
<1>4. CASE ReconcileEtcd BY <1>4, <1>1 DEF ReconcileEtcd, Objects, Owned
<1>5. CASE ReconcileEndpoint BY <1>5, <1>1 DEF ReconcileEndpoint, Objects, Owned
<1>6. CASE ReconcileRootCA BY <1>6, <1>1 DEF ReconcileRootCA, Objects, Owned
<1>7. CASE ReconcileIAM BY <1>7, <1>1 DEF ReconcileIAM, Objects, External
<1>8. CASE ServiceAccount BY <1>8, <1>1 DEF ServiceAccount, EnsurePatch, Objects, Tenant
<1>9. CASE ClusterRoleBinding BY <1>9, <1>1 DEF ClusterRoleBinding, Objects, Tenant
<1>10. CASE KubeConfig BY <1>10, <1>1 DEF KubeConfig, EnsurePatch, Objects, Tenant
<1>11. CASE KubeConfigWaiting BY <1>11, QuietStep DEF KubeConfigWaiting
<1>12. CASE KubeConfigNoCA BY <1>12, QuietStep DEF KubeConfigNoCA
<1>13. CASE DaemonsetForKubeProxy BY <1>13, <1>1 DEF DaemonsetForKubeProxy, EnsurePatch, Objects, Tenant
<1>14. CASE ReconcileFailed BY <1>14, QuietStep DEF ReconcileFailed
<1>15. CASE Finalize BY <1>15, QuietStep DEF Finalize
<1>16. CASE RemoveFinalizer BY <1>16, QuietStep DEF RemoveFinalizer
<1>17. CASE FinalizeFailed BY <1>17, QuietStep DEF FinalizeFailed
<1>18. CASE UserDelete BY <1>18, QuietStep DEF UserDelete, workerVars
<1>19. CASE Recreate BY <1>19, QuietStep DEF Recreate, workerVars
(* Every owner reference is 0 or the live UID, so the                      *)
(* collector acts only once the ControlPlane is gone, and then no pass is  *)
(* reconciling.                                                            *)
<1>20. CASE \E o \in Owned : GarbageCollect(o)
    <2>1. PICK o \in Owned : GarbageCollect(o) BY <1>20
    <2>2. o \in Objects BY DEF Objects
    <2>3. owner[o] = incarnation BY <2>1, <2>2 DEF GarbageCollect, NoStaleOwner
    <2>4. ~exists BY <2>1, <2>3 DEF GarbageCollect
    <2>5. phase # "reconcile" BY <2>4 DEF FinalizerGuardsIAM
    <2>6. UNCHANGED workerVars BY <2>1 DEF GarbageCollect
    <2>7. QED BY <2>5, <2>6 DEF PassPrefixPresent, workerVars
<1>21. CASE AssignHostname BY <1>21, QuietStep DEF AssignHostname, workerVars
<1>22. CASE Restart BY <1>22, QuietStep DEF Restart
<1>23. CASE UNCHANGED vars BY <1>23, QuietStep DEF vars, workerVars
<1>24. QED BY <1>2, <1>3, <1>4, <1>5, <1>6, <1>7, <1>8, <1>9, <1>10, <1>11,
              <1>12, <1>13, <1>14, <1>15, <1>16, <1>17, <1>18, <1>19, <1>20,
              <1>21, <1>22, <1>23 DEF Next
(* The invariant of the order proofs holds in every state of a behaviour   *)
(* without stale owners.                                                   *)
LEMMA OrderInvariant == Spec /\ []NoStaleOwner => []OInv
<1>1. Init => OInv
    <2>1. Init => IInv BY InitTyped DEF Init, IInv, FinalizerGuardsIAM, Objects, External
    <2>2. Init => PassPrefixPresent BY DEF Init, PassPrefixPresent
    <2>3. QED BY <2>1, <2>2 DEF OInv
<1>2. OInv /\ NoStaleOwner /\ [Next]_vars => OInv' BY PrefixStep, TypeStep, GuardStep DEF OInv, IInv
<1>3. QED BY <1>1, <1>2, PTL DEF Spec

(* Where each resource sits in the composition.                            *)
LEMMA Positions ==
    /\ StepsOf(1)[1] = "etcd"
    /\ StepsOf(2)[1] = "endpointSvc" /\ StepsOf(2)[2] = "rootCA" /\ StepsOf(2)[3] = "iamRole"
    /\ StepsOf(3)[1] = "kpServiceAccount" /\ StepsOf(3)[2] = "kpRoleBinding"
    /\ StepsOf(3)[3] = "kpKubeConfig" /\ StepsOf(3)[4] = "kpDaemonSet"
BY DEF StepsOf, Stages, StageSteps, EtcdSteps, MasterSteps, KubeProxySteps

(* The resource a pass applies, by stage.                                  *)
LEMMA CurrentAt ==
    ASSUME TypeOK
    PROVE  /\ stage \in {1, 2, 3}
           /\ stage = 1 => Current = "etcd"
           /\ stage = 2 => Current \in {"endpointSvc", "rootCA", "iamRole"}
           /\ stage = 3 => Current \in Tenant /\ (Current = "kpDaemonSet" => step = 4)
<1>1. stage \in 1..3 /\ step \in 1..StepCount[stage] BY StageShape DEF TypeOK
<1>2. stage = 1 => step = 1 BY <1>1, StageShape
<1>3. stage = 2 => step \in 1..3 BY <1>1, StageShape
<1>4. stage = 3 => step \in 1..4 BY <1>1, StageShape
<1>5. QED BY <1>1, <1>2, <1>3, <1>4, Positions DEF Current, Tenant

(* Only the step that applies the current resource of a pass makes an      *)
(* absent object present: the collector and Finalize only remove.          *)
LEMMA CreatesOnlyCurrent ==
    ASSUME TypeOK, [Next]_vars, NEW o \in Objects, owner[o] = 0, owner'[o] # 0
    PROVE  phase = "reconcile" /\ o = Current
<1>1. ASSUME NEW c \in Objects, Reconciling(c), EnsureCreate(c)
      PROVE  phase = "reconcile" /\ o = Current
    <2>1. o = c BY <1>1, EnsureKeeps
    <2>2. QED BY <1>1, <2>1 DEF Reconciling
<1>2. ASSUME UNCHANGED owner PROVE FALSE BY <1>2
<1>3. CASE ReconcileEtcd BY <1>3, <1>1 DEF ReconcileEtcd, Objects, Owned
<1>4. CASE ReconcileEndpoint BY <1>4, <1>1 DEF ReconcileEndpoint, Objects, Owned
<1>5. CASE ReconcileRootCA BY <1>5, <1>1 DEF ReconcileRootCA, Objects, Owned
<1>6. CASE ReconcileIAM BY <1>6, <1>1 DEF ReconcileIAM, Objects, External
<1>7. CASE ServiceAccount BY <1>7, <1>1 DEF ServiceAccount, EnsurePatch, Objects, Tenant
<1>8. CASE ClusterRoleBinding BY <1>8, <1>1 DEF ClusterRoleBinding, Objects, Tenant
<1>9. CASE KubeConfig BY <1>9, <1>1 DEF KubeConfig, EnsurePatch, Objects, Tenant
<1>10. CASE DaemonsetForKubeProxy BY <1>10, <1>1 DEF DaemonsetForKubeProxy, EnsurePatch, Objects, Tenant
<1>11. CASE Finalize
    <2>1. "iamRole" \in Objects BY DEF Objects, External
    <2>2. QED BY <1>11, <2>1 DEF Finalize, TypeOK
<1>12. CASE \E x \in Owned : GarbageCollect(x) BY <1>12 DEF GarbageCollect
<1>13. CASE ~(\/ ReconcileEtcd \/ ReconcileEndpoint \/ ReconcileRootCA \/ ReconcileIAM
              \/ ServiceAccount \/ ClusterRoleBinding \/ KubeConfig
              \/ DaemonsetForKubeProxy \/ Finalize \/ \E x \in Owned : GarbageCollect(x))
    <2>1. UNCHANGED owner
        BY <1>13 DEF Next, vars, Dequeue, AddFinalizer, KubeConfigWaiting, KubeConfigNoCA,
                     ReconcileFailed, RemoveFinalizer, FinalizeFailed, UserDelete,
                     Recreate, AssignHostname, Restart
    <2>2. QED BY <2>1, <1>2
<1>14. QED BY <1>3, <1>4, <1>5, <1>6, <1>7, <1>8, <1>9, <1>10, <1>11, <1>12, <1>13
(* During a pass every object of a lower layer than the current resource   *)
(* is present: the lower layers are the stages the pass has finished.      *)
LEMMA LowerLayersPresent ==
    ASSUME TypeOK, PassPrefixPresent, phase = "reconcile"
    PROVE  \A p \in Objects : Layer(p) < Layer(Current) => owner[p] # 0
<1> SUFFICES ASSUME NEW p \in Objects, Layer(p) < Layer(Current) PROVE owner[p] # 0
    OBVIOUS
<1>0. /\ \A i \in 1..(stage - 1) : \A j \in 1..StepCount[i] : owner[StepsOf(i)[j]] # 0
    BY DEF PassPrefixPresent
<1>1. CASE stage = 1
    <2>1. Layer(Current) = 1 BY <1>1, CurrentAt DEF Layer
    <2>2. QED BY <2>1 DEF Layer
<1>2. CASE stage = 2
    <2>1. Layer(Current) = 2 BY <1>2, CurrentAt DEF Layer, Tenant
    <2>2. p = "etcd" BY <2>1 DEF Layer
    <2>3. 1 \in 1..(stage - 1) /\ 1 \in 1..StepCount[1] BY <1>2, StageShape
    <2>4. QED BY <1>0, <2>2, <2>3, Positions
<1>3. CASE stage = 3
    <2>1. Layer(Current) = 3 BY <1>3, CurrentAt DEF Layer, Tenant
    <2>2. p \in {"etcd", "endpointSvc", "rootCA", "iamRole"}
        BY <2>1 DEF Layer, Objects, Owned, External, Tenant
    <2>3. 1 \in 1..(stage - 1) /\ 2 \in 1..(stage - 1) BY <1>3
    <2>4. 1 \in 1..StepCount[1] /\ {1, 2, 3} \subseteq 1..StepCount[2] BY StageShape
    <2>5. QED BY <1>0, <2>2, <2>3, <2>4, Positions
<1>4. QED BY <1>1, <1>2, <1>3, CurrentAt

(* Creation before dependents, in every behaviour without stale owners     *)
(* (any number of re-creations, restarts and failures): no step of the reconcile creates an object of a layer    *)
(* while an object of a lower layer is absent (etcd before the master's   *)
(* resources, those before the add-ons).                                   *)
THEOREM PrerequisitesOrdered ==
    Spec /\ []NoStaleOwner => PrerequisitesFirst
<1>1. OInv /\ [Next]_vars =>
        \A o \in Objects :
            (owner[o] = 0 /\ owner'[o] # 0) =>
                \A p \in Objects : Layer(p) < Layer(o) => owner[p] # 0
    <2> SUFFICES ASSUME OInv, [Next]_vars, NEW o \in Objects, owner[o] = 0, owner'[o] # 0
                 PROVE  \A p \in Objects : Layer(p) < Layer(o) => owner[p] # 0
        OBVIOUS
    <2>1. TypeOK /\ PassPrefixPresent BY DEF OInv, IInv
    <2>2. phase = "reconcile" /\ o = Current BY <2>1, CreatesOnlyCurrent
    <2>3. QED BY <2>1, <2>2, LowerLayersPresent
<1>2. Spec /\ []NoStaleOwner => []OInv BY OrderInvariant
<1>3. QED BY <1>1, <1>2, PTL DEF PrerequisitesFirst, Spec

(* The kube-proxy DaemonSet is created, in every behaviour without stale   *)
(* owners, only once the service account and the kubeconfig   *)
(* secret its pod spec (kubeProxyPodSpecFor) refers to are in place: they  *)
(* are the first and third resource of the stage, the DaemonSet the last.  *)
THEOREM PodSpecRefsOrdered ==
    Spec /\ []NoStaleOwner => PodSpecRefsFirst
<1>1. OInv /\ [Next]_vars =>
        ((owner["kpDaemonSet"] = 0 /\ owner'["kpDaemonSet"] # 0) =>
            \A o \in PodSpecRefs : owner[o] # 0)
    <2> SUFFICES ASSUME OInv, [Next]_vars, owner["kpDaemonSet"] = 0, owner'["kpDaemonSet"] # 0
                 PROVE  \A o \in PodSpecRefs : owner[o] # 0
        OBVIOUS
    <2>1. TypeOK /\ PassPrefixPresent BY DEF OInv, IInv
    <2>2. "kpDaemonSet" \in Objects BY DEF Objects, Tenant
    <2>3. phase = "reconcile" /\ Current = "kpDaemonSet" BY <2>1, <2>2, CreatesOnlyCurrent
    <2>4. stage = 3 /\ step = 4
        <3>1. stage \in {1, 2, 3} BY <2>1, CurrentAt
        <3>2. stage # 1 /\ stage # 2 BY <2>1, <2>3, CurrentAt
        <3>3. QED BY <2>1, <2>3, <3>1, <3>2, CurrentAt
    <2>5. \A j \in 1..3 : owner[StepsOf(3)[j]] # 0 BY <2>1, <2>3, <2>4 DEF PassPrefixPresent
    <2>6. QED BY <2>5, Positions DEF PodSpecRefs
<1>2. Spec /\ []NoStaleOwner => []OInv BY OrderInvariant
<1>3. QED BY <1>1, <1>2, PTL DEF PodSpecRefsFirst, Spec
-----------------------------------------------------------------------------
(* ReadyMeansProvisioned.  The step that sets Ready is the last step of a  *)
(* pass, which applies the DaemonSet: the prefix of the pass gives every   *)
(* other object, but not the hostname, which only the kubeconfig step      *)
(* checks.  So the invariant is strengthened by what that check leaves    *)
(* behind: a pass at the DaemonSet saw the hostname, and nothing can have  *)
(* removed it since, because without stale owners the garbage collector   *)
(* does not act while a pass runs.  Finalize removing     *)
(* the IAM role needs FinalizeOnDeleting: it runs only on a deleted        *)
(* ControlPlane, about which Ready says nothing.                           *)
PassEndHostname == phase = "reconcile" /\ stage = 3 /\ step = 4 => hostname

ReadyInv == OInv /\ FinalizeOnDeleting /\ PassEndHostname /\ ReadyMeansProvisioned

(* The only step of a pass that reaches the DaemonSet, the last resource   *)
(* of the last stage, is the one that applied the kubeconfig before it.    *)
LEMMA AdvanceToLast ==
    ASSUME TypeOK, Advance, phase' = "reconcile", stage' = 3, step' = 4
    PROVE  stage = 3 /\ step = 3 /\ Current = "kpKubeConfig"
<1>1. step \in Nat BY StageShape DEF TypeOK
<1>2. stage = 3 /\ step = 3 BY <1>1 DEF Advance
<1>3. QED BY <1>2, Positions DEF Current

(* Ready only grows Provisioned's premise: objects that stay present and   *)
(* a hostname that stays assigned keep the ControlPlane provisioned.       *)
LEMMA ProvisionedKeeps ==
    ASSUME Provisioned, \A x \in Objects : owner[x] # 0 => owner'[x] # 0,
           hostname => hostname'
    PROVE  Provisioned'
BY DEF Provisioned

(* The step that sets Ready: at the end of a pass the prefix, the          *)
(* DaemonSet just applied and the hostname the kubeconfig step saw make    *)
(* the ControlPlane provisioned; any other step of a pass keeps Ready and  *)
(* removes nothing.                                                        *)
LEMMA ReadyApply ==
    ASSUME TypeOK, PassPrefixPresent, PassEndHostname, ReadyMeansProvisioned,
           phase = "reconcile", EnsureCreate(Current), Advance,
           UNCHANGED <<exists, deleting, hostname>>
    PROVE  ReadyMeansProvisioned'
<1>1. stage \in 1..Len(Stages) /\ step \in 1..StepCount[stage] BY DEF TypeOK
<1>2. Current \in Objects BY <1>1, StepsAreObjects DEF Current
<1>3. /\ owner'[Current] # 0
      /\ \A x \in Objects : owner[x] # 0 => owner'[x] # 0
    BY <1>2, EnsureKeeps
<1>4. CASE UNCHANGED ready
    BY <1>3, <1>4, ProvisionedKeeps DEF ReadyMeansProvisioned
<1>5. CASE step = StepCount[stage] /\ stage = Len(Stages)
    <2>1. stage = 3 /\ step = 4 BY <1>5, StageShape
    <2>2. hostname BY <2>1 DEF PassEndHostname
    <2>3. \A i \in 1..2 : \A j \in 1..StepCount[i] : owner[StepsOf(i)[j]] # 0
        BY <2>1 DEF PassPrefixPresent
    <2>4. \A j \in 1..3 : owner[StepsOf(3)[j]] # 0 BY <2>1 DEF PassPrefixPresent
    <2>5. 1 \in 1..StepCount[1] /\ {1, 2, 3} \subseteq 1..StepCount[2] BY StageShape
    <2>6. \A x \in Objects \ {"kpDaemonSet"} : owner[x] # 0
        BY <2>3, <2>4, <2>5, Positions DEF Objects, Owned, Tenant, External
    <2>7. owner'["kpDaemonSet"] # 0 BY <1>3, <2>1, Positions DEF Current
    <2>8. \A x \in Objects : owner'[x] # 0 BY <1>3, <2>6, <2>7
    <2>9. QED BY <2>2, <2>8 DEF ReadyMeansProvisioned, Provisioned
<1>6. QED BY <1>4, <1>5 DEF Advance

(* Every step keeps PassEndHostname: a pass reaches the DaemonSet only     *)
(* from the kubeconfig step, which needs the hostname, and the hostname is *)
(* only lost to the garbage collector, which does not act during a pass    *)
(* without stale owners.                                                   *)
LEMMA HostnameStep ==
    ReadyInv /\ NoStaleOwner /\ [Next]_vars => PassEndHostname'
<1> SUFFICES ASSUME TypeOK, FinalizerGuardsIAM, PassPrefixPresent, PassEndHostname,
                    NoStaleOwner, [Next]_vars
             PROVE  PassEndHostname'
    BY DEF ReadyInv, OInv, IInv
<1>1. ASSUME NEW c \in Objects, c # "kpKubeConfig", Reconciling(c), Advance,
             UNCHANGED hostname
      PROVE  PassEndHostname'
    <2> SUFFICES ASSUME phase' = "reconcile", stage' = 3, step' = 4 PROVE FALSE
        BY <1>1 DEF PassEndHostname
    <2>1. Current = "kpKubeConfig" BY <1>1, AdvanceToLast
    <2>2. QED BY <1>1, <2>1 DEF Reconciling
<1>2. ASSUME phase' # "reconcile" PROVE PassEndHostname' BY <1>2 DEF PassEndHostname
<1>3. ASSUME UNCHANGED <<phase, stage, step, hostname>> PROVE PassEndHostname'
    BY <1>3 DEF PassEndHostname
<1>4. CASE Dequeue
    <2>1. CASE ~exists /\ UNCHANGED workerVars BY <1>4, <2>1, <1>3 DEF Dequeue, workerVars
    <2>2. CASE exists /\ stage' = 1 BY <2>2 DEF PassEndHostname
    <2>3. QED BY <1>4, <2>1, <2>2 DEF Dequeue
<1>5. CASE AddFinalizer BY <1>5 DEF AddFinalizer, PassPrefixPresent, PassEndHostname
<1>6. CASE ReconcileEtcd BY <1>6, <1>1 DEF ReconcileEtcd, Objects, Owned
<1>7. CASE ReconcileEndpoint BY <1>7, <1>1 DEF ReconcileEndpoint, Objects, Owned
<1>8. CASE ReconcileRootCA BY <1>8, <1>1 DEF ReconcileRootCA, Objects, Owned
<1>9. CASE ReconcileIAM BY <1>9, <1>1 DEF ReconcileIAM, Objects, External
<1>10. CASE ServiceAccount BY <1>10, <1>1 DEF ServiceAccount, Objects, Tenant
<1>11. CASE ClusterRoleBinding BY <1>11, <1>1 DEF ClusterRoleBinding, Objects, Tenant
<1>12. CASE DaemonsetForKubeProxy BY <1>12, <1>1 DEF DaemonsetForKubeProxy, Objects, Tenant
<1>13. CASE KubeConfig BY <1>13 DEF KubeConfig, PassEndHostname
<1>14. CASE KubeConfigWaiting BY <1>14, <1>2 DEF KubeConfigWaiting
<1>15. CASE KubeConfigNoCA BY <1>15, <1>2 DEF KubeConfigNoCA
<1>16. CASE ReconcileFailed BY <1>16, <1>2 DEF ReconcileFailed
<1>17. CASE Finalize BY <1>17, <1>2 DEF Finalize
<1>18. CASE RemoveFinalizer BY <1>18, <1>2 DEF RemoveFinalizer
<1>19. CASE FinalizeFailed BY <1>19, <1>2 DEF FinalizeFailed
<1>20. CASE UserDelete BY <1>20, <1>3 DEF UserDelete, workerVars
<1>21. CASE Recreate BY <1>21, <1>3 DEF Recreate, workerVars
(* As in PrefixStep: the collector acts only for a ControlPlane that is    *)
(* gone, and then no pass is reconciling.                                  *)
<1>22. CASE \E o \in Owned : GarbageCollect(o)
    <2>1. PICK o \in Owned : GarbageCollect(o) BY <1>22
    <2>2. o \in Objects BY DEF Objects
    <2>3. owner[o] = incarnation BY <2>1, <2>2 DEF GarbageCollect, NoStaleOwner
    <2>4. ~exists BY <2>1, <2>3 DEF GarbageCollect
    <2>5. phase # "reconcile" BY <2>4 DEF FinalizerGuardsIAM
    <2>6. UNCHANGED workerVars BY <2>1 DEF GarbageCollect
    <2>7. QED BY <2>5, <2>6 DEF PassEndHostname, workerVars
<1>23. CASE AssignHostname BY <1>23 DEF AssignHostname, PassEndHostname
<1>24. CASE Restart BY <1>24, <1>2 DEF Restart
<1>25. CASE UNCHANGED vars BY <1>25, <1>3 DEF vars, workerVars
<1>26. QED BY <1>4, <1>5, <1>6, <1>7, <1>8, <1>9, <1>10, <1>11, <1>12, <1>13,
              <1>14, <1>15, <1>16, <1>17, <1>18, <1>19, <1>20, <1>21, <1>22,
              <1>23, <1>24, <1>25 DEF Next

(* Every step keeps ReadyMeansProvisioned: the step that sets Ready ends   *)
(* a complete pass (ReadyApply); the failures clear Ready; what removes    *)
(* objects acts on a deleted (Finalize) or a gone (the collector)          *)
(* ControlPlane, and the only step that makes one live again clears Ready. *)
LEMMA ReadyStep ==
    ReadyInv /\ NoStaleOwner /\ [Next]_vars => ReadyMeansProvisioned'
<1> SUFFICES ASSUME TypeOK, PassPrefixPresent, FinalizeOnDeleting, PassEndHostname,
                    ReadyMeansProvisioned, NoStaleOwner, [Next]_vars
             PROVE  ReadyMeansProvisioned'
    BY DEF ReadyInv, OInv, IInv
<1>1. ASSUME NEW c \in Objects, Reconciling(c), EnsureCreate(c), Advance,
             UNCHANGED <<exists, deleting, hostname>>
      PROVE  ReadyMeansProvisioned'
    BY <1>1, ReadyApply DEF Reconciling
<1>2. ASSUME ready' = FALSE PROVE ReadyMeansProvisioned'
    BY <1>2 DEF ReadyMeansProvisioned
<1>3. ASSUME UNCHANGED <<ready, exists, deleting, owner, hostname>>
      PROVE  ReadyMeansProvisioned'
    BY <1>3 DEF ReadyMeansProvisioned, Provisioned
<1>4. CASE Dequeue BY <1>4, <1>3 DEF Dequeue, cpVars
<1>5. CASE AddFinalizer BY <1>5, <1>3 DEF AddFinalizer
<1>6. CASE ReconcileEtcd BY <1>6, <1>1 DEF ReconcileEtcd, Objects, Owned
<1>7. CASE ReconcileEndpoint BY <1>7, <1>1 DEF ReconcileEndpoint, Objects, Owned
<1>8. CASE ReconcileRootCA BY <1>8, <1>1 DEF ReconcileRootCA, Objects, Owned
<1>9. CASE ReconcileIAM BY <1>9, <1>1 DEF ReconcileIAM, Objects, External
<1>10. CASE ServiceAccount BY <1>10, <1>1 DEF ServiceAccount, EnsurePatch, Objects, Tenant
<1>11. CASE ClusterRoleBinding BY <1>11, <1>1 DEF ClusterRoleBinding, Objects, Tenant
<1>12. CASE KubeConfig BY <1>12, <1>1 DEF KubeConfig, EnsurePatch, Objects, Tenant
<1>13. CASE DaemonsetForKubeProxy BY <1>13, <1>1 DEF DaemonsetForKubeProxy, EnsurePatch, Objects, Tenant
<1>14. CASE KubeConfigWaiting BY <1>14, <1>3 DEF KubeConfigWaiting, cpVars
<1>15. CASE KubeConfigNoCA BY <1>15, <1>2 DEF KubeConfigNoCA
<1>16. CASE ReconcileFailed BY <1>16, <1>2 DEF ReconcileFailed
(* Finalize runs on a ControlPlane with a deletion timestamp.              *)
<1>17. CASE Finalize
    <2>1. deleting /\ UNCHANGED cpVars BY <1>17 DEF Finalize, FinalizeOnDeleting
    <2>2. QED BY <2>1 DEF ReadyMeansProvisioned, cpVars
<1>18. CASE RemoveFinalizer BY <1>18 DEF RemoveFinalizer, ReadyMeansProvisioned
<1>19. CASE FinalizeFailed BY <1>19, <1>3 DEF FinalizeFailed, cpVars
<1>20. CASE UserDelete BY <1>20 DEF UserDelete, ReadyMeansProvisioned
<1>21. CASE Recreate BY <1>21, <1>2 DEF Recreate
<1>22. CASE \E o \in Owned : GarbageCollect(o)
    <2>1. PICK o \in Owned : GarbageCollect(o) BY <1>22
    <2>2. o \in Objects BY DEF Objects
    <2>3. owner[o] = incarnation BY <2>1, <2>2 DEF GarbageCollect, NoStaleOwner
    <2>4. ~exists /\ UNCHANGED cpVars BY <2>1, <2>3 DEF GarbageCollect
    <2>5. QED BY <2>4 DEF ReadyMeansProvisioned, cpVars
<1>23. CASE AssignHostname
    <2>1. UNCHANGED <<ready, exists, deleting, owner>> /\ hostname' = TRUE
        BY <1>23 DEF AssignHostname, cpVars
    <2>2. QED BY <2>1 DEF ReadyMeansProvisioned, Provisioned
<1>24. CASE Restart BY <1>24, <1>3 DEF Restart, cpVars
<1>25. CASE UNCHANGED vars BY <1>25, <1>3 DEF vars, cpVars
<1>26. QED BY <1>4, <1>5, <1>6, <1>7, <1>8, <1>9, <1>10, <1>11, <1>12, <1>13,
              <1>14, <1>15, <1>16, <1>17, <1>18, <1>19, <1>20, <1>21, <1>22,
              <1>23, <1>24, <1>25 DEF Next

(* Ready means provisioned, in every behaviour without stale owners (any   *)
(* number of re-creations): while a live, undeleted ControlPlane reports Ready, etcd, the    *)
(* master's resources, the IAM role and the kube-proxy add-on all exist    *)
(* and the endpoint has a hostname, whatever failures, requeues and        *)
(* restarts interleaved with the reconcile.                                *)
THEOREM ReadyProvisioned ==
    Spec /\ []NoStaleOwner => []ReadyMeansProvisioned
<1>1. Init => ReadyInv
    <2>1. Init => IInv BY InitTyped DEF Init, IInv, FinalizerGuardsIAM, Objects, External
    <2>2. Init => FinalizeOnDeleting /\ PassEndHostname /\ ReadyMeansProvisioned
        BY DEF Init, FinalizeOnDeleting, PassEndHostname, ReadyMeansProvisioned
    <2>3. Init => PassPrefixPresent BY DEF Init, PassPrefixPresent
    <2>4. QED BY <2>1, <2>2, <2>3 DEF ReadyInv, OInv
<1>2. ReadyInv /\ NoStaleOwner /\ [Next]_vars => ReadyInv'
    <2>1. ReadyInv /\ NoStaleOwner /\ [Next]_vars => OInv' BY PrefixStep, TypeStep, GuardStep DEF ReadyInv, OInv, IInv
    <2>2. ReadyInv /\ [Next]_vars => FinalizeOnDeleting'
        BY FinalizeOnDeletingStep DEF ReadyInv, OInv, RInv
    <2>3. QED BY <2>1, <2>2, HostnameStep, ReadyStep DEF ReadyInv
<1>3. QED BY <1>1, <1>2, PTL DEF Spec, ReadyInv
=============================================================================
