---------------------------- MODULE ControlPlane ----------------------------
(***************************************************************************)
(* The reconciliation of one ControlPlane custom resource by the operator. *)
(*                                                                         *)
(* The worker is the controller-runtime reconcile loop for the             *)
(* ControlPlane key: it takes the key off the work queue, loads the object *)
(* and either runs the composer of controlplane.go (etcd, then master,     *)
(* then addons, each a list of resources applied in order, aborting on the *)
(* first error) or, when the object carries a deletion timestamp, the      *)
(* composer's Finalize and then removes the finalizer.  The environment is *)
(* the user (delete, re-create under the same name), the API server's      *)
(* garbage collector (deletes objects whose owner UID is gone), the cloud  *)
(* load-balancer controller (assigns the endpoint service's hostname) and  *)
(* operator restarts.                                                      *)
(*                                                                         *)
(* Objects are tracked by presence only: owner[o] is 0 when o is absent    *)
(* and otherwise the incarnation (the UID) of the ControlPlane whose       *)
(* reconcile created it, which is the owner reference object.WithOwner     *)
(* writes.  Content, names and formatting are abstracted away.             *)
(***************************************************************************)
EXTENDS Naturals, Sequences

CONSTANTS
    MaxIncarnation,  \* how many ControlPlanes of the same name the user creates
    MaxCrashes       \* how many times the operator process restarts

ASSUME IncarnationAssumption == MaxIncarnation \in Nat \ {0}
ASSUME CrashAssumption == MaxCrashes \in Nat

-----------------------------------------------------------------------------
(* The composition: stages in controlplane.go order, the resources of each *)
(* in the order its Reconcile applies them.                                *)

EtcdSteps == <<"etcd">>

MasterSteps == <<"endpointSvc", "rootCA", "iamRole">>

(* Mutant: the DaemonSet applied before the kubeconfig secret.             *)
KubeProxyStepsDaemonSetFirst ==
    <<"kpServiceAccount", "kpRoleBinding", "kpDaemonSet", "kpKubeConfig">>

KubeProxySteps == <<"kpServiceAccount", "kpRoleBinding", "kpKubeConfig", "kpDaemonSet">>

(* kubeProxyPodSpecFor: the kube-proxy pods run as the kube-proxy service  *)
(* account and mount the kubeconfig secret KubeProxyConfigNameFor names;   *)
(* the rest of the pod spec is static.                                     *)
PodSpecRefs == {"kpServiceAccount", "kpKubeConfig"}

(* Mutant: the add-ons stage listed before the master stage. *)
StagesAddonsFirst == <<"etcd", "addons", "master">>

Stages == <<"etcd", "master", "addons">>

StageNames == {"etcd", "master", "addons"}

StageSteps == [etcd |-> EtcdSteps, master |-> MasterSteps, addons |-> KubeProxySteps]

(* Objects in the substrate cluster created with an owner reference to the *)
(* ControlPlane: the garbage collector removes them once that owner is     *)
(* gone.                                                                   *)
Owned == {"etcd", "endpointSvc", "rootCA"}

(* Objects in the tenant cluster, created without owner (kubeproxy.go      *)
(* line 96): they live in the tenant's etcd and disappear with it.          *)
Tenant == {"kpServiceAccount", "kpRoleBinding", "kpKubeConfig", "kpDaemonSet"}

(* Cloud resources, invisible to the garbage collector: only Finalize      *)
(* removes them.                                                           *)
External == {"iamRole"}

Objects == Owned \cup Tenant \cup External

Phases == {"idle", "addFinalizer", "reconcile", "finalize", "removeFinalizer"}

-----------------------------------------------------------------------------
VARIABLES
    incarnation,  \* UID of the current (or last) ControlPlane of this name
    exists,       \* the ControlPlane object is in the store
    deleting,     \* its deletion timestamp is set
    finalizer,    \* the operator's finalizer token is in its Finalizers
    ready,        \* its Status condition Ready is True
    owner,        \* owner[o]: 0 if o is absent, else the UID that created it
    hostname,     \* the endpoint service has a load-balancer ingress hostname
    queued,       \* the ControlPlane key is in the work queue (deduplicated)
    phase,        \* what the worker is doing
    stage,        \* index into Stages of the sub-controller being run
    step,         \* index into that sub-controller's steps
    seen,         \* UID of the object the worker loaded at dequeue
    invoked,      \* sub-controller Finalize calls of the current finalize pass
    crashes       \* operator restarts so far

cpVars == <<incarnation, exists, deleting, finalizer, ready>>
workerVars == <<phase, stage, step, seen, invoked>>
vars == <<cpVars, owner, hostname, queued, workerVars, crashes>>

StepsOf(i) == StageSteps[Stages[i]]

(* How many steps each stage has.                                         *)
StepCount == [i \in 1..Len(Stages) |-> Len(StepsOf(i))]

Current == StepsOf(stage)[step]

Busy == Phases \ {"idle"}

TypeOK ==
    /\ incarnation \in 1..MaxIncarnation
    /\ exists \in BOOLEAN
    /\ deleting \in BOOLEAN
    /\ finalizer \in BOOLEAN
    /\ ready \in BOOLEAN
    /\ owner \in [Objects -> 0..MaxIncarnation]
    /\ hostname \in BOOLEAN
    /\ queued \in BOOLEAN
    /\ phase \in Phases
    /\ stage \in 1..Len(Stages)
    /\ step \in 1..StepCount[stage]
    /\ seen \in 1..MaxIncarnation
    /\ invoked \in Seq(StageNames)
    /\ crashes \in 0..MaxCrashes

Init ==
    /\ incarnation = 1
    /\ exists = TRUE
    /\ deleting = FALSE
    /\ finalizer = FALSE
    /\ ready = FALSE
    /\ owner = [o \in Objects |-> 0]
    /\ hostname = FALSE
    /\ queued = TRUE
    /\ phase = "idle"
    /\ stage = 1
    /\ step = 1
    /\ seen = 1
    /\ invoked = <<>>
    /\ crashes = 0

-----------------------------------------------------------------------------
(* Apply primitives.  EnsureCreate: create; AlreadyExists is success and   *)
(* leaves the existing object, owner reference included, as it is.         *)
EnsureCreate(o) ==
    \/ owner[o] = 0 /\ owner' = [owner EXCEPT ![o] = seen]
    \/ owner[o] # 0 /\ UNCHANGED owner

(* EnsurePatch: create if absent, else merge-patch the live object to the  *)
(* desired fields.  The tenant objects it is used for carry no owner       *)
(* reference, so at the level of presence it changes what EnsureCreate     *)
(* changes.                                                                *)
EnsurePatch(o) == EnsureCreate(o)

(* The stage loop runs one step past the end of a sub-controller's list.   *)
AdvanceOffByOne ==
    \/ /\ step <= StepCount[stage]
       /\ step' = step + 1
       /\ UNCHANGED <<stage, phase, ready>>
    \/ /\ step = StepCount[stage]
       /\ stage < Len(Stages)
       /\ stage' = stage + 1
       /\ step' = 1
       /\ UNCHANGED <<phase, ready>>
    \/ /\ step = StepCount[stage]
       /\ stage = Len(Stages)
       /\ phase' = "idle"
       /\ ready' = TRUE
       /\ UNCHANGED <<stage, step>>

(* The composer's loop and each sub-controller's loop: go to the next      *)
(* resource, the next stage, or return results.Created, on which the       *)
(* top-level loop sets Ready.                                              *)
Advance ==
    \/ /\ step < StepCount[stage]
       /\ step' = step + 1
       /\ UNCHANGED <<stage, phase, ready>>
    \/ /\ step = StepCount[stage]
       /\ stage < Len(Stages)
       /\ stage' = stage + 1
       /\ step' = 1
       /\ UNCHANGED <<phase, ready>>
    \/ /\ step = StepCount[stage]
       /\ stage = Len(Stages)
       /\ phase' = "idle"
       /\ ready' = TRUE
       /\ UNCHANGED <<stage, step>>

Reconciling(o) == phase = "reconcile" /\ Current = o

-----------------------------------------------------------------------------
(* Mutants: plausible slips in the code, each replacing one definition     *)
(* below when a run's property is checked against it.                      *)

(* WaitingForSubResources treated as a finished reconcile: no requeue.     *)
KubeConfigWaitingNoRequeue ==
    /\ Reconciling("kpKubeConfig")
    /\ owner["rootCA"] # 0
    /\ ~hostname
    /\ phase' = "idle"
    /\ UNCHANGED <<cpVars, owner, hostname, queued, stage, step, seen, invoked, crashes>>

(* The kubeconfig is written without waiting for the load balancer's      *)
(* hostname: WaitingForSubResources is never returned.                     *)
KubeConfigNoHostnameCheck ==
    /\ Reconciling("kpKubeConfig")
    /\ owner["rootCA"] # 0
    /\ EnsurePatch("kpKubeConfig")
    /\ Advance
    /\ UNCHANGED <<incarnation, exists, deleting, finalizer, hostname,
                   queued, seen, invoked, crashes>>

-----------------------------------------------------------------------------
(* The worker.                                                             *)

(* Take the key off the queue and load the object: NotFound ends the       *)
(* invocation; a deletion timestamp routes to Finalize; otherwise the      *)
(* finalizer is ensured before anything is created.                        *)
Dequeue ==
    /\ phase = "idle"
    /\ queued
    /\ queued' = FALSE
    /\ \/ /\ ~exists
          /\ UNCHANGED workerVars
       \/ /\ exists
          /\ seen' = incarnation
          /\ phase' = IF deleting THEN "finalize" ELSE "addFinalizer"
          /\ stage' = 1
          /\ step' = 1
          /\ invoked' = <<>>
    /\ UNCHANGED <<cpVars, owner, hostname, crashes>>

(* Patch the finalizer token onto the object of that name.                 *)
AddFinalizer ==
    /\ phase = "addFinalizer"
    /\ exists
    /\ finalizer' = TRUE
    /\ phase' = "reconcile"
    /\ UNCHANGED <<incarnation, exists, deleting, ready, owner, hostname,
                   queued, stage, step, seen, invoked, crashes>>

ReconcileEtcd ==
    /\ Reconciling("etcd")
    /\ EnsureCreate("etcd")
    /\ Advance
    /\ UNCHANGED <<incarnation, exists, deleting, finalizer, hostname,
                   queued, seen, invoked, crashes>>

ReconcileEndpoint ==
    /\ Reconciling("endpointSvc")
    /\ EnsureCreate("endpointSvc")
    /\ Advance
    /\ UNCHANGED <<incarnation, exists, deleting, finalizer, hostname,
                   queued, seen, invoked, crashes>>

ReconcileRootCA ==
    /\ Reconciling("rootCA")
    /\ EnsureCreate("rootCA")
    /\ Advance
    /\ UNCHANGED <<incarnation, exists, deleting, finalizer, hostname,
                   queued, seen, invoked, crashes>>

ReconcileIAM ==
    /\ Reconciling("iamRole")
    /\ EnsureCreate("iamRole")
    /\ Advance
    /\ UNCHANGED <<incarnation, exists, deleting, finalizer, hostname,
                   queued, seen, invoked, crashes>>

ServiceAccount ==
    /\ Reconciling("kpServiceAccount")
    /\ EnsurePatch("kpServiceAccount")
    /\ Advance
    /\ UNCHANGED <<incarnation, exists, deleting, finalizer, hostname,
                   queued, seen, invoked, crashes>>

ClusterRoleBinding ==
    /\ Reconciling("kpRoleBinding")
    /\ EnsureCreate("kpRoleBinding")
    /\ Advance
    /\ UNCHANGED <<incarnation, exists, deleting, finalizer, hostname,
                   queued, seen, invoked, crashes>>

(* kube-proxy's kubeconfig needs the root CA secret and the cluster        *)
(* endpoint, both read from the substrate cluster.                         *)
KubeConfig ==
    /\ Reconciling("kpKubeConfig")
    /\ owner["rootCA"] # 0
    /\ hostname
    /\ EnsurePatch("kpKubeConfig")
    /\ Advance
    /\ UNCHANGED <<incarnation, exists, deleting, finalizer, hostname,
                   queued, seen, invoked, crashes>>

(* No service or no ingress yet: WaitingForSubResources, which the top     *)
(* level turns into a requeue without error.                               *)
KubeConfigWaiting ==
    /\ Reconciling("kpKubeConfig")
    /\ owner["rootCA"] # 0
    /\ ~hostname
    /\ phase' = "idle"
    /\ queued' = TRUE
    /\ UNCHANGED <<cpVars, owner, hostname, stage, step, seen, invoked, crashes>>

(* The root CA secret cannot be read: an error, retried with backoff.      *)
KubeConfigNoCA ==
    /\ Reconciling("kpKubeConfig")
    /\ owner["rootCA"] = 0
    /\ phase' = "idle"
    /\ queued' = TRUE
    /\ ready' = FALSE
    /\ UNCHANGED <<incarnation, exists, deleting, finalizer, owner, hostname,
                   stage, step, seen, invoked, crashes>>

DaemonsetForKubeProxy ==
    /\ Reconciling("kpDaemonSet")
    /\ EnsurePatch("kpDaemonSet")
    /\ Advance
    /\ UNCHANGED <<incarnation, exists, deleting, finalizer, hostname,
                   queued, seen, invoked, crashes>>

(* A store or cloud call of the reconcile path fails: the composer stops   *)
(* at that stage, the error is returned, Ready is False and the key is     *)
(* requeued with backoff.                                                  *)
ReconcileFailed ==
    /\ phase \in {"addFinalizer", "reconcile"}
    /\ phase' = "idle"
    /\ queued' = TRUE
    /\ ready' = FALSE
    /\ UNCHANGED <<incarnation, exists, deleting, finalizer, owner, hostname,
                   stage, step, seen, invoked, crashes>>

(* Mutant: Finalize returns Terminated without calling the master          *)
(* controller's Finalize.                                                  *)
FinalizeSkipsMaster ==
    /\ phase = "finalize"
    /\ phase' = "removeFinalizer"
    /\ UNCHANGED <<cpVars, owner, hostname, queued, stage, step, seen, invoked, crashes>>

(* The composer's Finalize: only the master controller's Finalize, which   *)
(* releases the IAM resources (deleting what is already gone succeeds).    *)
Finalize ==
    /\ phase = "finalize"
    /\ owner' = [owner EXCEPT !["iamRole"] = 0]
    /\ invoked' = Append(invoked, "master")
    /\ phase' = "removeFinalizer"
    /\ UNCHANGED <<cpVars, hostname, queued, stage, step, seen, crashes>>

(* results.Terminated: remove the finalizer; the object has a deletion     *)
(* timestamp and no other finalizer, so the store removes it.              *)
RemoveFinalizer ==
    /\ phase = "removeFinalizer"
    /\ finalizer' = FALSE
    /\ exists' = FALSE
    /\ phase' = "idle"
    /\ queued' = TRUE
    /\ UNCHANGED <<incarnation, deleting, ready, owner, hostname,
                   stage, step, seen, invoked, crashes>>

(* Finalize or the finalizer patch fails: requeue with backoff, finalizer  *)
(* kept.                                                                   *)
FinalizeFailed ==
    /\ phase \in {"finalize", "removeFinalizer"}
    /\ phase' = "idle"
    /\ queued' = TRUE
    /\ UNCHANGED <<cpVars, owner, hostname, stage, step, seen, invoked, crashes>>

-----------------------------------------------------------------------------
(* The environment.                                                        *)

(* The user deletes the ControlPlane: with a finalizer the store only sets *)
(* the deletion timestamp, without one it removes the object at once.      *)
UserDelete ==
    /\ exists
    /\ ~deleting
    /\ \/ finalizer /\ deleting' = TRUE /\ UNCHANGED exists
       \/ ~finalizer /\ exists' = FALSE /\ UNCHANGED deleting
    /\ queued' = TRUE
    /\ UNCHANGED <<incarnation, finalizer, ready, owner, hostname, workerVars, crashes>>

(* The user creates a ControlPlane of the same name again: a new UID.      *)
Recreate ==
    /\ ~exists
    /\ incarnation < MaxIncarnation
    /\ incarnation' = incarnation + 1
    /\ exists' = TRUE
    /\ deleting' = FALSE
    /\ finalizer' = FALSE
    /\ ready' = FALSE
    /\ queued' = TRUE
    /\ UNCHANGED <<owner, hostname, workerVars, crashes>>

(* The garbage collector deletes an owned object whose owner UID no longer *)
(* exists; deleting etcd takes the tenant cluster's objects with it, and   *)
(* deleting the service releases its load balancer.                        *)
GarbageCollect(o) ==
    /\ owner[o] # 0
    /\ (~exists \/ owner[o] # incarnation)
    /\ owner' = [x \in Objects |->
                    IF x = o \/ (o = "etcd" /\ x \in Tenant) THEN 0 ELSE owner[x]]
    /\ hostname' = (hostname /\ o # "endpointSvc")
    /\ UNCHANGED <<cpVars, queued, workerVars, crashes>>

(* The cloud assigns the endpoint service's load balancer a hostname.      *)
AssignHostname ==
    /\ owner["endpointSvc"] # 0
    /\ ~hostname
    /\ hostname' = TRUE
    /\ UNCHANGED <<cpVars, owner, queued, workerVars, crashes>>

(* The operator process restarts: the invocation in flight is lost and the *)
(* informer's initial list enqueues the object if it exists.               *)
Restart ==
    /\ crashes < MaxCrashes
    /\ crashes' = crashes + 1
    /\ phase' = "idle"
    /\ queued' = exists
    /\ UNCHANGED <<cpVars, owner, hostname, stage, step, seen, invoked>>

-----------------------------------------------------------------------------
Next ==
    \/ Dequeue
    \/ AddFinalizer
    \/ ReconcileEtcd
    \/ ReconcileEndpoint
    \/ ReconcileRootCA
    \/ ReconcileIAM
    \/ ServiceAccount
    \/ ClusterRoleBinding
    \/ KubeConfig
    \/ KubeConfigWaiting
    \/ KubeConfigNoCA
    \/ DaemonsetForKubeProxy
    \/ ReconcileFailed
    \/ Finalize
    \/ RemoveFinalizer
    \/ FinalizeFailed
    \/ UserDelete
    \/ Recreate
    \/ \E o \in Owned : GarbageCollect(o)
    \/ AssignHostname
    \/ Restart

(* The worker is weakly fair; a call that can fail transiently is strongly *)
(* fair, since every retry offers it again; the garbage collector and the  *)
(* cloud eventually act.  The user and restarts are not fair.              *)
Fairness ==
    /\ WF_vars(Dequeue)
    /\ SF_vars(AddFinalizer)
    /\ SF_vars(ReconcileEtcd)
    /\ SF_vars(ReconcileEndpoint)
    /\ SF_vars(ReconcileRootCA)
    /\ SF_vars(ReconcileIAM)
    /\ SF_vars(ServiceAccount)
    /\ SF_vars(ClusterRoleBinding)
    /\ SF_vars(KubeConfig)
    /\ WF_vars(KubeConfigWaiting)
    /\ WF_vars(KubeConfigNoCA)
    /\ SF_vars(DaemonsetForKubeProxy)
    /\ SF_vars(Finalize)
    /\ SF_vars(RemoveFinalizer)
    /\ \A o \in Owned : WF_vars(GarbageCollect(o))
    /\ WF_vars(AssignHostname)

Spec == Init /\ [][Next]_vars

FairSpec == Spec /\ Fairness

-----------------------------------------------------------------------------
(* Properties.                                                             *)

(* The spec's dependency chain: storage, then control-plane processes,     *)
(* then add-ons.                                                           *)
Layer(o) == IF o = "etcd" THEN 1 ELSE IF o \in Tenant THEN 3 ELSE 2

Provisioned == (\A o \in Objects : owner[o] # 0) /\ hostname

(* No leak through the finalizer: once the ControlPlane is gone from the   *)
(* store, the IAM resources its reconcile created have been released,      *)
(* whatever deletions, re-creations and restarts interleaved with the      *)
(* worker (finalizer added before any create, Finalize before removal).    *)
NoLeakedIAM == ~exists => owner["iamRole"] = 0

(* The finalizer guards the IAM resources: they exist only on a live       *)
(* object holding the finalizer; every step of a pass past AddFinalizer    *)
(* runs on such an object; the finalizer is removed only after Finalize   *)
(* released them; a deletion timestamp on a live object means the          *)
(* finalizer is there.  The strengthening that makes NoLeakedIAM           *)
(* inductive.                                                              *)
FinalizerGuardsIAM ==
    /\ owner["iamRole"] # 0 => exists /\ finalizer
    /\ phase \in {"reconcile", "finalize", "removeFinalizer"} => exists /\ finalizer
    /\ phase = "removeFinalizer" => owner["iamRole"] = 0
    /\ exists /\ deleting => finalizer
    /\ finalizer => exists

(* Creation before dependents: a step of the composer never creates an     *)
(* object of a layer while an object of an earlier layer is absent.        *)
PrerequisitesFirst ==
    [][\A o \in Objects :
         (owner[o] = 0 /\ owner'[o] # 0) =>
            \A p \in Objects : Layer(p) < Layer(o) => owner[p] # 0]_vars

(* The kube-proxy DaemonSet is created only when the service account its   *)
(* pods run as and the kubeconfig secret they mount are there: a step that *)
(* creates it finds both.                                                  *)
PodSpecRefsFirst ==
    [][(owner["kpDaemonSet"] = 0 /\ owner'["kpDaemonSet"] # 0) =>
          \A o \in PodSpecRefs : owner[o] # 0]_vars

(* Ready tells dependents they may proceed: while a live, undeleted        *)
(* ControlPlane reports Ready, every object it needs exists and the        *)
(* endpoint is assigned.                                                   *)
ReadyMeansProvisioned == (ready /\ exists /\ ~deleting) => Provisioned

(* Reverse teardown (spec 4.5): the finalizer is removed only after the    *)
(* Finalize pass invoked addons, master and etcd, in that order.           *)
TeardownInReverse ==
    [][(finalizer /\ ~finalizer') => invoked = <<"addons", "master", "etcd">>]_vars

(* Convergence: a live ControlPlane that is not deleted is eventually      *)
(* Ready with everything provisioned, through requeues on the missing      *)
(* endpoint and retries of failed calls, unless it is deleted first.       *)
EventuallyProvisioned ==
    (exists /\ ~deleting) ~> (~exists \/ deleting \/ (ready /\ Provisioned))

(* Deletion completes: a deletion timestamp leads to the object's removal  *)
(* with its IAM resources released.                                        *)
DeletionCompletes == deleting ~> (~exists /\ owner["iamRole"] = 0)

(* The refinement mapping onto Finalization: the object is absent when it  *)
(* is not in the store, deleting when it carries a deletion timestamp, and *)
(* the external resource is the IAM role.                                  *)
ObjState == IF ~exists THEN "absent" ELSE IF deleting THEN "deleting" ELSE "live"

Abstract == INSTANCE Finalization
                WITH obj <- ObjState, fin <- finalizer, held <- owner["iamRole"] # 0

(* The worker, the user, the garbage collector and restarts together       *)
(* implement the finalizer protocol: every step adds the finalizer to an   *)
(* existing object, creates the IAM role under it, deletes, releases the   *)
(* role of a deleting object, removes a deleting object after the release, *)
(* re-creates, or leaves the abstract state alone.                         *)
RefinesFinalization == Abstract!Spec

=============================================================================
