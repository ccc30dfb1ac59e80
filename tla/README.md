# TLA+ models of the kit operator

This directory holds TLA+ models of the control loops in this repository,
together with the TLC configurations that check them and the TLAPS proofs of
their main invariants. Each model is written from the Go source under `src/`,
and `PROJECT.json` maps every definition to the lines it models.

## The system

The operator turns two kinds of desired-state object into infrastructure.

* A **ControlPlane** (`src/operator/pkg/controllers/...`) gets a nested
  Kubernetes control plane.
  * `controlPlane.Reconcile` (controlplane.go 60-71) runs three
    sub-controllers in order, etcd, then master, then addons, and stops at
    the first error.
  * `controlPlane.Finalize` (73-78) runs on deletion. It calls only the
    master controller's `Finalize`.
  * The master controller creates, among other things, the endpoint service
    (endpoint.go 31-53), owned by the ControlPlane through an owner reference.
  * The addons controller runs kube-proxy's four steps (kubeproxy.go 60-155):
    the service account, the cluster role binding, a kubeconfig, and the
    daemonset.
  * The kubeconfig reads the root CA secret and the load balancer's hostname.
    While the hostname is missing, it returns `WaitingForSubResources`
    (endpoint.go 59-71), which the top level turns into a requeue.
* **SecurityGroup.Create** (`src/pkg/resource/securitygroup.go` 32-67)
  makes sure a SecurityGroup custom object exists for each supported
  component. For each component it Gets the object from the client's
  informer cache. On NotFound it Creates the object in the API server. Any
  other error of the Get, and any error of the Create (AlreadyExists
  included), ends the call with that error.
* A **Substrate** gets an S3 bucket holding the bootstrap artifacts of its
  cluster.
  * `Config.Create` (part_003 100-137) waits for the address, then ensures
    the bucket. It writes the CA tree, kubeconfigs, manifests, kubelet unit
    and authenticator files under `/tmp/<name>`, and uploads them through a
    `DirectoryIterator` (346-398).
  * `Config.Delete` (139-154) empties and deletes the bucket, then removes
    the staging directory.

Some code these loops depend on is not in this repository:

* the top-level reconcile loop, with its workqueue, finalizer handling and
  retry policy;
* the store's owner-reference garbage collector;
* the etcd controller and the rest of the master controller;
* the AWS SDK's `UploadWithIterator`.

The models represent these from `spec.md` and mark them `spec_modelled` in
the map. `UploadWithIterator` is modelled as aws-sdk-go v1 behaves: it loops
while `Next()` is true, collects upload errors, calls `After`, and never
reads `Err()`.

## Modules

| module | models | state |
|---|---|---|
| `ControlPlane` | composer, kube-proxy addon, endpoint, finalizer protocol, GC, restarts | see below |
| `ControlPlane_proofs` | TLAPS proofs about `ControlPlane`, the refinement included | - |
| `ControlPlaneOrder_proofs` | TLAPS proofs of the creation order of the composition and of Ready meaning provisioned | - |
| `Finalization` | abstract finalizer protocol that `ControlPlane` implements, with its proof | see below |
| `MC_ControlPlane` | TLC instance of `ControlPlane` | - |
| `SubstrateConfig` | `Config.Create`, `Config.Delete`, `DirectoryIterator` | see below |
| `SubstrateConfig_proofs` | TLAPS proofs of `TypeOK` and `DeleteLeavesNothing` | - |
| `MC_SubstrateConfig` | TLC instance of `SubstrateConfig` | - |
| `SecurityGroup` | `SecurityGroup.Create`, the informer cache and its watch events | see below |
| `SecurityGroup_proofs` | TLAPS proofs about `SecurityGroup` | - |
| `MC_SecurityGroup` | TLC instance of `SecurityGroup` | - |

### ControlPlane

**Store state.** One object name that the user can delete and re-create,
tracked by these variables:

* `incarnation`: the UID of the current object;
* `exists`, `deleting` and `finalizer`: whether the object is in the store,
  whether it has a deletion timestamp, and whether it carries the finalizer;
* `ready`: the Ready condition.

**Owned objects.** `owner[o]` is 0 when object `o` is absent, and otherwise
the UID in its owner reference. The objects are:

* etcd, the endpoint service and the root CA, in the management cluster and
  owned by the ControlPlane;
* the four kube-proxy objects in the tenant cluster, which go away when etcd
  goes;
* the IAM role, which is external and released only by `Finalize`.

`hostname` says whether the endpoint's load balancer has a hostname.

**Worker state.**

* `phase`: idle, addFinalizer, reconcile, finalize or removeFinalizer;
* `stage` and `step`: the position in the composition;
* `seen`: the UID of the snapshot the pass loaded;
* `invoked`: the stages finalized so far.

**Actions.**

* Each step of a sub-controller is one action, and the composer's loop is
  `Advance`.
* Every call can fail. `ReconcileFailed` and `FinalizeFailed` return the
  error and requeue with backoff.
* The kube-proxy kubeconfig has three outcomes:
  * `KubeConfig` writes the kubeconfig;
  * `KubeConfigWaiting` requeues without error while the hostname is missing;
  * `KubeConfigNoCA` returns an error when the root CA is missing.
* The environment:
  * `UserDelete` (with a finalizer it sets the timestamp; without one it
    removes the object);
  * `Recreate` (a new UID);
  * `GarbageCollect(o)` (the object's owner UID is dead);
  * `AssignHostname`;
  * `Restart` (the pass in flight is lost and the informer re-lists).

**Abstraction.** Objects are abstracted to presence and owner UID. Object
contents and names are left out, since no property reads them. Of the
daemonset's pod spec (`kubeProxyPodSpecFor`, kubeproxy.go 206-287), the
model keeps only what it refers to: the service account and the kubeconfig
secret (`PodSpecRefs`).

**Refinement.** `ObjState` maps the store state to Finalization's `obj`
(absent, live or deleting). `finalizer` maps to `fin`, and "the IAM role
exists" to `held`. `RefinesFinalization` is `Abstract!Spec` under this
mapping.

### Finalization

`Finalization` is the promise a finalizer-guarded external resource makes,
with no workers or stages. Its variables are `obj`, `fin` and `held`. Its
actions are:

* `Protect`: the finalizer is put on;
* `Acquire`: the resource is acquired, only under the finalizer;
* `Delete`: the user deletes the object;
* `Release`: the resource is released, only while the object is deleting;
* `Remove`: the finalizer goes and the object with it, only after the
  release;
* `Recreate`: a new object of the same name.

Its invariant `NoLeak` says that an absent object holds no resource, and
that a resource is held only under the finalizer.

### SubstrateConfig

**Variables.**

* `address`, `deleting`: the Substrate's state;
* `retry`: why the key is queued (event, requeue or backoff);
* `phase`: the worker's position in Create or Delete;
* `bucket` and `objects[f]`: S3;
* `local[f]`: `/tmp/<name>`;
* `gen`: the CA generations minted so far;
* `paths`, `handle` and `errs`: the iterator and the uploader;
* `published`: `Status.Cluster.KubeConfig` is set.

A file's content is the generation of the CA it derives from, or 1 for files
that do not embed the CA.

**Actions.**

* Every call of Create and Delete is one action. It follows the code's
  order and its early returns.
* Any call can fail, up to `MaxFaults` failures in total. This covers:
  * a failed open in `Next`;
  * a failed PutObject;
  * a partial batch delete;
  * a bucket that S3 refuses to delete;
  * a `filepath.Walk` error in `NewDirectoryIterator`, which ends the walk
    early and keeps only the paths collected so far.
* A container restart, up to `MaxRestarts`, loses `/tmp`.
* `GenerateCerts` reuses the CA in the directory, as kubeadm's cert tree
  does, and mints a new one only when there is none.

### SecurityGroup

**Variables.**

* `store[c]`: component `c`'s object is in the API server;
* `cache[c]`: the informer's cache holds it;
* `events[c]`: the watch events of `c` not yet delivered, in order;
* `queued`: the ControlPlane key is in the work queue;
* `running`, `idx`, `at`, `result`: the call in progress, the loop's
  component, whether it is at the Get or the Create, and the last return.

**Actions.**

* `Reconcile`: the worker takes the key and starts the loop.
* `Exists`: the Get, lines 33 and 61-67. It has three outcomes: a hit goes
  to the next component, NotFound goes to the Create, and any other error
  ends the call.
* `CreateObj`: the Create, lines 47-59. It has three outcomes: it creates
  the object (appending a watch event) and moves on; it gets AlreadyExists
  when the store has the object; or it fails.
* `Continue`: the loop's step, line 38-44. It returns nil after the last
  component.
* `CacheSync(c)`: the informer delivers `c`'s oldest event and queues the
  owner.
* `ExternalDelete(c)`: someone else deletes the object, up to `MaxDeletes`
  times.

Get and Create failures are bounded by `MaxFaults`. An error return
requeues the key, and the work queue's dirty bit keeps a key that is added
while a call runs.

## Runs

| run | expect | checks | bounds |
|---|---|---|---|
| `cp_safety` | pass | `TypeOK`, `NoLeakedIAM`, `FinalizerGuardsIAM`, `RefinesFinalization` | 2 incarnations, 1 restart, unbounded failures (~100k states) |
| `cp_order` | pass | `ReadyMeansProvisioned`, `PrerequisitesFirst`, `PodSpecRefsFirst` | 1 incarnation, 1 restart |
| `cp_liveness` | pass | `EventuallyProvisioned`, `DeletionCompletes` | 1 incarnation, 1 restart |
| `cp_adopt_race` | violation | `ReadyMeansProvisioned` | 2 incarnations |
| `cp_reverse_teardown` | violation | `TeardownInReverse` | 1 incarnation |
| `ss_safety` | pass | `TypeOK`, `DeleteLeavesNothing` | 2 faults, 1 restart |
| `ss_liveness` | pass | `EventuallyPublished`, `DeletionCompletes` | 1 fault, 1 restart |
| `ss_upload_swallowed` | violation | `SuccessUploadsAll` | 1 fault |
| `ss_ca_rotation` | violation | `CAStable` | 1 restart |
| `sg_safety` | pass | `TypeOK`, `IdleMeansCovered` | 3 components, 2 faults, 2 deletions (~28k states) |
| `sg_liveness` | pass | `EventuallyConverged` | 3 components, 2 faults, 1 deletion |
| `sg_stale_already_exists` | violation | `AlreadyExistsNotFatal` | 2 components, 1 fault |

**Why these bounds are enough.**

* Two incarnations give the delete-and-re-create race under one name, and
  one restart falls between any two steps of a pass or of a teardown. A third
  incarnation adds no new kind of step.
* Failures of the ControlPlane calls are unbounded, because each only
  requeues. Failures of the Substrate calls are bounded, because they feed
  the liveness runs.
* `cp_order` keeps one incarnation. With two, `PrerequisitesFirst` and
  `ReadyMeansProvisioned` are broken by the stale-UID race that
  `cp_adopt_race` already reports.
* Three security-group components give a first, a middle and a last
  component for the loop's bounds. Two deletions let an object be deleted
  twice, or two objects once each, with events still in flight.
* Two faults let a failure land in Create and another in Delete, or two in
  the same Delete: a partial batch delete followed by a failed `RemoveAll`.

**Deadlock.** Every cfg sets `CHECK_DEADLOCK FALSE`, because the systems
really do stop. A ControlPlane that is gone and collected, and a Substrate
that is gone, leave the worker dormant, as the spec says of success without a
requeue.

**Mutants.** Each property of a passing run is also checked against a
mutant of the code (`PROJECT.json`, "mutants"), and each mutant violates it.
A mutant is a plausible bug:

* `Finalize` returning Terminated without calling the master controller;
* an off-by-one in the composer's loop;
* addons ordered first;
* the WaitingForSubResources requeue dropped;
* `BucketAlreadyOwnedByYou` not tolerated;
* `NoSuchBucket` from DeleteBucket treated as an error;
* `RemoveAll` skipped;
* a CA minted on every call;
* the security-group loop running one past the end, or stopping one short;
* NotFound from the Get taken as a hit;
* the kube-proxy daemonset created before what its pod spec refers to.

## What the runs show

* **NoLeakedIAM and FinalizerGuardsIAM.** The IAM role never outlives the
  ControlPlane. This holds whatever deletions, re-creations, restarts and
  failures interleave with a pass. The reasons:
  * the finalizer is patched on before anything is created;
  * a pass only goes on while the object still exists;
  * the finalizer is removed only after `Finalize` released the role.
* **PrerequisitesFirst.** No step creates an object while an object of an
  earlier layer is absent, so etcd comes before the master's objects, and
  those before the add-ons. The kubeconfig's reads of the root CA and the
  hostname are part of this.
* **RefinesFinalization.** Every behaviour of `ControlPlane`, failures,
  restarts and re-creations included, is a behaviour of `Finalization`.
* **ReadyMeansProvisioned** (one incarnation). While a live, undeleted
  ControlPlane reports Ready, every object exists and the endpoint has a
  hostname. The step that sets Ready ends a complete pass, and the
  kubeconfig step before it waits for the hostname (its mutant, which
  skips that wait, breaks the property).
* **PodSpecRefsFirst.** The kube-proxy daemonset is created only once the
  service account and the kubeconfig secret its pod spec names exist.
* **IdleMeansCovered** (SecurityGroup). When the worker is idle with
  nothing queued, each component's object is in the cache or has a watch
  event on its way. That event will queue the owner again, so no missing
  object goes unnoticed.
* **EventuallyConverged** (SecurityGroup). Once failures and deletions have
  run out, every object exists and the last call returned nil.
* **EventuallyProvisioned and DeletionCompletes** (ControlPlane). A live
  ControlPlane becomes Ready, and a deleted one goes away with its role
  released.
* **DeleteLeavesNothing, EventuallyPublished and DeletionCompletes**
  (Substrate).
  * A bucket that is already there on a retry does not block Create.
  * A bucket that is already gone on a retry does not block Delete.
  * A deleted Substrate leaves nothing in S3 or `/tmp`.
* **Five disagreements with the spec** (`PROJECT.json`, "findings"):
  1. `Finalize` tears down only the master stage, not the stages in reverse
     order (`cp_reverse_teardown`).
  2. A pass that loaded the previous incarnation creates objects owned by a
     dead UID, or adopts such objects through AlreadyExists. The garbage
     collector then deletes them while Ready is True (`cp_adopt_race`).
  3. A file that cannot be opened ends the upload loop silently. Create
     reports success with files missing from the bucket
     (`ss_upload_swallowed`). The spec says the error is reported.
  4. A container restart loses the CA staged in `/tmp`, and the next Create
     overwrites the published CA (`ss_ca_rotation`).
  5. When the informer cache lags the store, the Get says NotFound for an
     object that exists. The Create then fails with AlreadyExists, and the
     call returns that as an error (`sg_stale_already_exists`). The spec
     treats AlreadyExists as ordinary. The error costs only a retry with
     backoff, as `EventuallyConverged` shows.

## Fairness

**ControlPlane.**

* Dequeue is weakly fair, because the workqueue hands every queued key to
  the worker.
* Each call that can fail is strongly fair. A failing call is retried with
  backoff, so it is enabled again and again, and the model assumes the cloud
  and the store are not failing for ever.
* The garbage collector and the hostname assignment are weakly fair.
* The user and restarts get no fairness.

**SecurityGroup.** `Reconcile`, `Exists`, `CreateObj` and each
`CacheSync(c)` are weakly fair. The worker and the informer each run on a
goroutine of their own, and both keep going while they have work. Failures
and deletions are bounded, so no strong fairness is needed.

**SubstrateConfig.** The worker is weakly fair. Failures are bounded by
`MaxFaults`, so strong fairness is not needed there.

## What is proved

`ControlPlane_proofs` proves the theorems below with TLAPS. They hold for
every value of the constants, under `IncarnationAssumption` and
`CrashAssumption`.

**`TypeCorrect`: `Spec => []TypeOK`.** The proof rests on these lemmas:

* `StageShape`: the lengths of the composition;
* `AdvanceTyped`: the composer's loop stays inside the composition;
* `WorkerUnchanged`;
* `InitTyped`;
* `TypeStep`: one case per action of `Next`.

**`NoLeak`: `Spec => []NoLeakedIAM`.** `NoLeakedIAM` is not inductive on its
own, because a step of a pass could create the role for an object that is
gone. The inductive invariant is `IInv == TypeOK /\ FinalizerGuardsIAM`.
TLC checked it first (in `cp_safety`), and then three facts were proved:

1. `Init => IInv`.
2. `IInv /\ [Next]_vars => IInv'` (`GuardStep`). This has one case per
   action, built on two lemmas:
   * `EnsureOther`: creating any other object leaves the role alone;
   * `AdvancePhase`: the composer's loop only continues or goes idle.
3. `IInv => NoLeakedIAM`.

**`GuardsIAM`: `Spec => []FinalizerGuardsIAM`.** This follows from the same
two facts, since `FinalizerGuardsIAM` is a conjunct of `IInv`.

**`PrerequisitesOrdered` and `PodSpecRefsOrdered`** (in
`ControlPlaneOrder_proofs`). These prove
`Spec /\ []NoStaleOwner => PrerequisitesFirst` and
`Spec /\ []NoStaleOwner => PodSpecRefsFirst`. They hold for every number of
incarnations, restarts and failures.

`NoStaleOwner` says that every owner reference is the live ControlPlane's
UID. It always holds for a name that is never created again. It also holds
across re-creations when the collector takes the old objects before the
new object's first pass. It fails exactly in the race that `cp_adopt_race`
reports:

1. A pass loads the old UID.
2. The pass creates or adopts objects owned by that UID.
3. The garbage collector removes those objects between two steps of the
   pass, or while the ControlPlane reports Ready.

So the theorems say that this race is the only way to break the order and
readiness. The hypothesis is not a restriction on the constants. TLC
checked all three properties in the behaviours that satisfy it, at 2 and 3
incarnations (2,670 states at 3). In those runs a re-created ControlPlane
does reach Ready again.

The proofs rest on the inductive invariant
`OInv == IInv /\ PassPrefixPresent`. `PassPrefixPresent` says that a pass
in the reconcile phase has every resource it applied so far in place: all of
the earlier stages, and the earlier steps of the current stage. It also says
that a pass starts at the first step. TLC checked `OInv` before the proof. The lemmas are:

* `ApplyStep`: a step that applies the current resource and advances keeps
  the prefix;
* `PrefixStep`: one case per action. Without stale owners the
  collector only acts once the object is gone, and no pass is then
  reconciling, by `FinalizerGuardsIAM`;
* `CreatesOnlyCurrent`: the only step that makes an absent object present
  is the one that applies the pass's current resource;
* `LowerLayersPresent`: the lower layers are the finished stages;
* `Positions` and `CurrentAt`: where each resource sits in the
  composition.

**`ReadyProvisioned`: `Spec /\ []NoStaleOwner => []ReadyMeansProvisioned`**
(in `ControlPlaneOrder_proofs`; `cp_adopt_race` violates it through a stale
owner). The invariant is not inductive
alone. The step that sets Ready is the last step of a pass, the one that
applies the DaemonSet. `PassPrefixPresent` gives every other object, but
not the hostname. The inductive invariant is

`ReadyInv == OInv /\ FinalizeOnDeleting /\ PassEndHostname /\ ReadyMeansProvisioned`,

where `PassEndHostname` says that a pass standing at the DaemonSet has
seen the hostname. TLC checked `ReadyInv` before the proof: at one
incarnation (1,345 states), and at 2 and 3 incarnations in the behaviours
without stale owners. The lemmas are:

* `AdvanceToLast`: a pass reaches the DaemonSet only from the kubeconfig
  step, which needs the hostname;
* `HostnameStep`: one case per action. Only the garbage collector takes
  the hostname away, and it does not act during a pass;
* `ReadyApply`: the step that sets Ready finds the prefix, the DaemonSet
  just applied and the hostname;
* `ReadyStep`: one case per action. Failures clear Ready. `Finalize` acts on
  a deleted ControlPlane (`FinalizeOnDeleting`), and the collector on a gone
  one. `Recreate`, the only step that makes a name live again, clears
  Ready.

**`Refinement`: `Spec => RefinesFinalization`** (in `ControlPlane_proofs`).
The step simulation needs one more fact than `IInv`:
`FinalizeOnDeleting` says that a worker in the finalize or
removeFinalizer phase works on an object that is deleting. Without it, the
role's release could look like a `Release` of a live object. The proof has
four parts:

1. `RInvariant` proves `Spec => []RInv`, where
   `RInv == IInv /\ FinalizeOnDeleting`.
2. `Init` maps to `Abstract!Init`.
3. `RefinementStep` shows that, under `RInv`, every `Next` step maps to an
   abstract step or a stutter. It has one case per action, and
   `MappedStutter` covers the steps that leave the mapped state alone.
4. The last step combines these with PTL.

**`AbstractNoLeak`: `Finalization!Spec => []NoLeak`.** `NoLeak` is
inductive together with the type invariant (`NoLeakStep`).

**`TypeCorrect`: `Spec => []TypeOK`** (in `SubstrateConfig_proofs`). This
holds for every bound on failures and restarts. `Walk` is written the way
`NewDirectoryIterator` builds its list: the walk function's step (`Visit`)
appends each present file, applied to the six entries of `WalkOrder` in
turn. `VisitTyped` and `WalkTyped` show that it lists only files. TLC
checked this `Walk` against `SelectSeq(WalkOrder, ...)` in every reachable
state of `ss_safety` before the change. `WriteTyped` shows that a generator's
write keeps the type. The theorem is a type invariant and no more: it does
not say that a content is a generation already minted.

**`DeleteClean`: `Spec => []DeleteLeavesNothing`** (in
`SubstrateConfig_proofs`). The inductive invariant is `TeardownProgress`.
It records what each phase of Delete has already removed: the objects
before `deleteBucket`, the bucket before `removeLocal`, and the directory
at `gone`. The calls of Create write only while the phase is outside the
teardown (`WriteStep`). A failed call sends the worker back to idle
(`FailStep`). Nothing else touches the bucket, its objects or `/tmp` once
Delete is past its first call.

**`TypeCorrect` and `NoLostWakeup`** (in `SecurityGroup_proofs`). These
prove `Spec => []TypeOK` and `Spec => []IdleMeansCovered` for every number
of components. `IdleMeansCovered` is not inductive by itself. It needs
`LoopCovers`: while a call runs and no event has re-queued the key, every
component before the loop index is covered. `SInv` is
`TypeOK /\ IdleMeansCovered /\ LoopCovers`. The step proof (`CoverStep`)
uses three lemmas:

* `ContinueCovers`: the loop's last step returns with everything covered;
* `QueuedCovers`: any step that queues the key is trivially fine;
* `AppendNonEmpty`: a create or a deletion leaves its component's event
  queue non-empty.

**Left to TLC.** These stay with the model checker:

* the liveness properties, which the prover cannot check under fairness;
* `PrerequisitesFirst`, `PodSpecRefsFirst` and `ReadyMeansProvisioned`
  when a stale owner reference appears, where they are false
  (`cp_adopt_race`);
* the `SubstrateConfig` properties other than `TypeOK` and
  `DeleteLeavesNothing`. These are the liveness properties and the
  violated `SuccessUploadsAll` and `CAStable`;
* everything about the bounded runs.

## Not modelled

* **Inside the generators:** `DefaultClusterConfig` and the kubeadm
  generators are pure data and file writers. They are modelled by which file
  they write and which CA it carries.
* **Error types:** the model keeps only success and failure. The
  `err.(awserr.Error)` assertions in Delete cannot panic:
  * the batch delete reports its failures as a `*BatchError`, which is an
    `awserr.Error`;
  * the SDK's request errors are `awserr.Error` values, cancellation
    included.
* **The master controller's Finalize:** it is not under `src/`. The model
  takes its IAM release as idempotent. A restart between Finalize and the
  finalizer removal reruns it, and the model assumes the rerun succeeds on
  resources that are already gone.
* **Object contents:** the security-group objects' specs are not compared
  by the code (the TODO at securitygroup.go 43), so the model keeps only
  their presence.
* **Configuration files:** the Dockerfile, tekton tasks, GitHub workflow,
  Helm templates, RBAC and CloudFormation in `src/unnamed` and
  `src/operator/charts` are configuration, not control flow.
* **Logging and formatting.**

## Plan for further work

1. **Compose SecurityGroup with ControlPlane.** Run the security-group loop
   as a step of the master stage, so that its AlreadyExists error requeues
   the whole composition.
2. **Prove SecurityGroup's refinement.** State what the loop promises, an
   abstract cache of covered components, and prove the detailed module
   implements it.
3. **A bound for the iterator.** Bound the iterator's list by the walk and
   prove that each file is opened at most once per pass.
