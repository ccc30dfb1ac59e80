--------------------------- MODULE SubstrateConfig ---------------------------
(***************************************************************************)
(* The substrate cluster's configuration controller (package cluster,      *)
(* Config.Create and Config.Delete) and the DirectoryIterator that feeds   *)
(* the S3 batch uploader.                                                  *)
(*                                                                         *)
(* Create stages the cluster's bootstrap artifacts in a local directory    *)
(* under /tmp, one generator call at a time, then walks the directory and  *)
(* uploads every file to the cluster's S3 bucket.  Delete empties and      *)
(* deletes the bucket and removes the local directory.  One worker serves  *)
(* the Substrate, so calls never overlap; what interleaves with them is    *)
(* the user's delete, the address assignment, injected failures of every   *)
(* cloud and file call, and restarts of the operator's container, which    *)
(* lose /tmp.                                                              *)
(*                                                                         *)
(* A file's content is abstracted to the generation of the cluster CA it   *)
(* derives from (files that do not derive from the CA have content 1);     *)
(* 0 is "no such file".                                                    *)
(***************************************************************************)
EXTENDS Naturals, Sequences

CONSTANTS
    MaxFaults,      \* failed cloud or file calls in a behaviour
    MaxRestarts     \* operator container restarts in a behaviour

ASSUME FaultAssumption == MaxFaults \in Nat
ASSUME RestartAssumption == MaxRestarts \in Nat

(* A CA is minted on the first Create and again after each loss of /tmp.   *)
MaxGen == MaxRestarts + 1

(* The artifact groups the generators write, in the order filepath.Walk    *)
(* visits them under /tmp/<name>/etc.                                     *)
WalkOrder == <<"authconfig", "kubeconfigs", "authpod", "manifests", "pki", "kubelet">>
Files == {WalkOrder[i] : i \in 1..Len(WalkOrder)}

(* The calls of Create in the order it makes them.                         *)
CreatePhases == {"bucket", "certs", "kubeconfigs", "manifests", "kubelet",
                 "authconfig", "authpod", "walk", "upload", "finish"}
DeletePhases == {"deleteObjects", "deleteBucket", "removeLocal"}
Phases == {"idle", "gone"} \cup CreatePhases \cup DeletePhases

None == "none"

VARIABLES
    address,    \* Status.Cluster.Address is set
    deleting,   \* the Substrate has a deletion timestamp
    retry,      \* why the key is queued: none, event, requeue or backoff
    phase,      \* the worker's position in Create or Delete
    bucket,     \* the S3 bucket exists
    objects,    \* objects[f]: the content of f in the bucket
    local,      \* local[f]: the content of f under /tmp/<name>
    gen,        \* CA generations minted so far
    paths,      \* DirectoryIterator.filePaths
    handle,     \* DirectoryIterator.next.f: the open file, or None
    errs,       \* the batch uploader has collected an upload error
    published,  \* Status.Cluster.KubeConfig is set
    faults,
    restarts

vars == <<address, deleting, retry, phase, bucket, objects, local, gen, paths,
          handle, errs, published, faults, restarts>>
iterVars == <<paths, handle, errs>>

NoFiles == [f \in Files |-> 0]

TypeOK ==
    /\ address \in BOOLEAN
    /\ deleting \in BOOLEAN
    /\ retry \in {"none", "event", "requeue", "backoff"}
    /\ phase \in Phases
    /\ bucket \in BOOLEAN
    /\ objects \in [Files -> 0..MaxGen]
    /\ local \in [Files -> 0..MaxGen]
    /\ gen \in 0..MaxGen
    /\ paths \in Seq(Files)
    /\ handle \in Files \cup {None}
    /\ errs \in BOOLEAN
    /\ published \in BOOLEAN
    /\ faults \in 0..MaxFaults
    /\ restarts \in 0..MaxRestarts

(* The Substrate has just been created: no address yet, nothing staged.   *)
Init ==
    /\ address = FALSE
    /\ deleting = FALSE
    /\ retry = "event"
    /\ phase = "idle"
    /\ bucket = FALSE
    /\ objects = NoFiles
    /\ local = NoFiles
    /\ gen = 0
    /\ paths = <<>>
    /\ handle = None
    /\ errs = FALSE
    /\ published = FALSE
    /\ faults = 0
    /\ restarts = 0

-----------------------------------------------------------------------------
(* Helpers.                                                                *)

(* A call fails: the error is returned and the key requeued with backoff. *)
Fail ==
    /\ faults < MaxFaults
    /\ faults' = faults + 1
    /\ phase' = "idle"
    /\ retry' = "backoff"

(* A generator call of Create writes file f with content c and goes on.   *)
Write(f, c, next) ==
    /\ local' = [local EXCEPT ![f] = c]
    /\ phase' = next
    /\ UNCHANGED <<address, deleting, retry, bucket, objects, iterVars,
                   published, faults, restarts>>

(* The walk function's step for the i-th entry of the directory: a file   *)
(* that is present is appended to the list of paths.                       *)
Visit(ps, i) == IF local[WalkOrder[i]] # 0 THEN Append(ps, WalkOrder[i]) ELSE ps

(* The files present under /tmp/<name>, in the order Walk visits them: the *)
(* walk function applied to the six entries of WalkOrder in turn.          *)
Walk == Visit(Visit(Visit(Visit(Visit(Visit(<<>>, 1), 2), 3), 4), 5), 6)

-----------------------------------------------------------------------------
(* The worker.                                                             *)

(* The key is dequeued.  A Substrate being deleted goes to Delete; one     *)
(* without an address is requeued without error; otherwise Create starts.  *)
Dequeue ==
    /\ phase = "idle"
    /\ retry # "none"
    /\ \/ /\ deleting
          /\ phase' = "deleteObjects"
          /\ retry' = "none"
       \/ /\ ~deleting /\ ~address
          /\ retry' = "requeue"
          /\ UNCHANGED phase
       \/ /\ ~deleting /\ address
          /\ phase' = "bucket"
          /\ retry' = "none"
    /\ UNCHANGED <<address, deleting, bucket, objects, local, gen, iterVars,
                   published, faults, restarts>>

(* Mutant: BucketAlreadyOwnedByYou is not tolerated (line 218 dropped).   *)
EnsureBucketOnlyNew ==
    /\ phase = "bucket"
    /\ ~bucket
    /\ bucket' = TRUE
    /\ phase' = "certs"
    /\ UNCHANGED <<address, deleting, retry, objects, local, gen, iterVars,
                   published, faults, restarts>>

(* CreateBucket: created, or BucketAlreadyOwnedByYou, both go on.          *)
EnsureBucket ==
    /\ phase = "bucket"
    /\ bucket' = TRUE
    /\ phase' = "certs"
    /\ UNCHANGED <<address, deleting, retry, objects, local, gen, iterVars,
                   published, faults, restarts>>

(* Mutant: a cert generator that mints a new CA on every call.            *)
GenerateCertsAlwaysNew ==
    /\ phase = "certs"
    /\ gen' = gen + 1
    /\ Write("pki", gen + 1, "kubeconfigs")

(* kubeadm's cert tree reuses the CA found in the directory and mints a    *)
(* new one when there is none.                                             *)
GenerateCerts ==
    /\ phase = "certs"
    /\ \/ /\ local["pki"] # 0
          /\ Write("pki", local["pki"], "kubeconfigs")
          /\ UNCHANGED gen
       \/ /\ local["pki"] = 0
          /\ gen < MaxGen
          /\ gen' = gen + 1
          /\ Write("pki", gen + 1, "kubeconfigs")

(* The admin, kubelet, controller-manager and scheduler kubeconfigs embed  *)
(* the CA read from the directory.                                        *)
KubeConfigs ==
    /\ phase = "kubeconfigs"
    /\ Write("kubeconfigs", local["pki"], "manifests")
    /\ UNCHANGED gen

GenerateStaticPodManifests ==
    /\ phase = "manifests"
    /\ Write("manifests", 1, "kubelet")
    /\ UNCHANGED gen

KubeletSystemService ==
    /\ phase = "kubelet"
    /\ Write("kubelet", 1, "authconfig")
    /\ UNCHANGED gen

EnsureAuthenticatorConfig ==
    /\ phase = "authconfig"
    /\ Write("authconfig", 1, "authpod")
    /\ UNCHANGED gen

StaticPodSpecForAuthenticator ==
    /\ phase = "authpod"
    /\ Write("authpod", 1, "walk")
    /\ UNCHANGED gen

(* Any call of Create up to the upload fails.                              *)
CreateFailed ==
    /\ phase \in CreatePhases \ {"walk", "upload", "finish"}
    /\ Fail
    /\ UNCHANGED <<address, deleting, bucket, objects, local, gen, iterVars,
                   published, restarts>>

(* NewDirectoryIterator: the walk lists every file once, up front.  When  *)
(* the walk function is handed an error (an entry that cannot be read)     *)
(* it returns it, filepath.Walk stops there, and its result is dropped:    *)
(* the iterator gets the files visited so far.                             *)
NewDirectoryIterator ==
    /\ phase = "walk"
    /\ \/ /\ paths' = Walk
          /\ UNCHANGED faults
       \/ /\ faults < MaxFaults
          /\ faults' = faults + 1
          /\ \E k \in 0..(Len(Walk) - 1) : paths' = SubSeq(Walk, 1, k)
    /\ handle' = None
    /\ errs' = FALSE
    /\ phase' = "upload"
    /\ UNCHANGED <<address, deleting, retry, bucket, objects, local, gen,
                   published, restarts>>

(* The uploader's loop calls Next: at the end of the list it returns       *)
(* false; otherwise it opens the head of the list and drops it from the    *)
(* list, returning false when the open fails (the error is kept in d.err, *)
(* which the uploader's loop never reads).                                 *)
IteratorNext ==
    /\ phase = "upload"
    /\ handle = None
    /\ \/ /\ paths = <<>>
          /\ phase' = "finish"
          /\ UNCHANGED <<paths, handle, faults>>
       \/ /\ paths # <<>>
          /\ handle' = Head(paths)
          /\ paths' = Tail(paths)
          /\ UNCHANGED <<phase, faults>>
       \/ /\ paths # <<>>
          /\ faults < MaxFaults
          /\ faults' = faults + 1
          /\ paths' = Tail(paths)
          /\ phase' = "finish"
          /\ UNCHANGED handle
    /\ UNCHANGED <<address, deleting, retry, bucket, objects, local, gen, errs,
                   published, restarts>>

(* UploadObject, the upload of the unit, and its After (the close): a      *)
(* failed PutObject is collected and the loop goes on.                     *)
UploadObject ==
    /\ phase = "upload"
    /\ handle # None
    /\ \/ /\ bucket
          /\ objects' = [objects EXCEPT ![handle] = local[handle]]
          /\ UNCHANGED <<errs, faults>>
       \/ /\ faults < MaxFaults
          /\ faults' = faults + 1
          /\ errs' = TRUE
          /\ UNCHANGED objects
    /\ handle' = None
    /\ UNCHANGED <<address, deleting, retry, phase, bucket, local, gen, paths,
                   published, restarts>>

(* UploadWithIterator returns: a batch error fails Create; otherwise the   *)
(* kubeconfig path is recorded in the status.                              *)
FinishCreate ==
    /\ phase = "finish"
    /\ phase' = "idle"
    /\ \/ /\ errs
          /\ retry' = "backoff"
          /\ UNCHANGED published
       \/ /\ ~errs
          /\ published' = TRUE
          /\ UNCHANGED retry
    /\ UNCHANGED <<address, deleting, bucket, objects, local, gen, iterVars,
                   faults, restarts>>

(* Batch delete of the bucket's listing.  NoSuchBucket counts as done; a  *)
(* failed batch has deleted some of the objects.                           *)
DeleteObjects ==
    /\ phase = "deleteObjects"
    /\ \/ /\ objects' = NoFiles
          /\ phase' = "deleteBucket"
          /\ UNCHANGED <<retry, faults>>
       \/ /\ bucket
          /\ \E gone \in SUBSET Files :
                objects' = [f \in Files |-> IF f \in gone THEN 0 ELSE objects[f]]
          /\ Fail
    /\ UNCHANGED <<address, deleting, bucket, local, gen, iterVars, published,
                   restarts>>

(* Mutant: NoSuchBucket from DeleteBucket is an error (line 147 dropped).  *)
DeleteBucketRequiresBucket ==
    /\ phase = "deleteBucket"
    /\ \/ /\ objects = NoFiles
          /\ bucket
          /\ bucket' = FALSE
          /\ phase' = "removeLocal"
          /\ UNCHANGED <<retry, faults>>
       \/ /\ bucket
          /\ Fail
          /\ UNCHANGED bucket
    /\ UNCHANGED <<address, deleting, objects, local, gen, iterVars, published,
                   restarts>>

(* DeleteBucket: NoSuchBucket counts as done; S3 refuses a bucket that     *)
(* still holds objects.                                                    *)
DeleteBucket ==
    /\ phase = "deleteBucket"
    /\ \/ /\ objects = NoFiles
          /\ bucket' = FALSE
          /\ phase' = "removeLocal"
          /\ UNCHANGED <<retry, faults>>
       \/ /\ bucket
          /\ Fail
          /\ UNCHANGED bucket
    /\ UNCHANGED <<address, deleting, objects, local, gen, iterVars, published,
                   restarts>>

(* Mutant: Delete returns without removing the staging directory.         *)
RemoveLocalSkipped ==
    /\ phase = "removeLocal"
    /\ phase' = "gone"
    /\ UNCHANGED <<address, deleting, retry, bucket, objects, local, gen,
                   iterVars, published, faults, restarts>>

(* os.RemoveAll of the staging directory; its error is Delete's result.   *)
(* On success the finalizer goes and the Substrate is gone.                *)
RemoveLocal ==
    /\ phase = "removeLocal"
    /\ \/ /\ local' = NoFiles
          /\ phase' = "gone"
          /\ UNCHANGED <<retry, faults>>
       \/ /\ Fail
          /\ UNCHANGED local
    /\ UNCHANGED <<address, deleting, bucket, objects, gen, iterVars, published,
                   restarts>>

-----------------------------------------------------------------------------
(* The environment.                                                        *)

(* The substrate's elastic IP is recorded: an update event.               *)
AssignAddress ==
    /\ ~address
    /\ phase # "gone"
    /\ address' = TRUE
    /\ retry' = IF retry = "none" THEN "event" ELSE retry
    /\ UNCHANGED <<deleting, phase, bucket, objects, local, gen, iterVars,
                   published, faults, restarts>>

(* The user deletes the Substrate; the finalizer holds it.                *)
UserDelete ==
    /\ ~deleting
    /\ phase # "gone"
    /\ deleting' = TRUE
    /\ retry' = IF retry = "none" THEN "event" ELSE retry
    /\ UNCHANGED <<address, phase, bucket, objects, local, gen, iterVars,
                   published, faults, restarts>>

(* The operator's container restarts: the call in flight is lost, open    *)
(* files are closed, /tmp starts empty and the initial list enqueues the   *)
(* Substrate again.                                                        *)
Restart ==
    /\ restarts < MaxRestarts
    /\ phase # "gone"
    /\ restarts' = restarts + 1
    /\ phase' = "idle"
    /\ local' = NoFiles
    /\ paths' = <<>>
    /\ handle' = None
    /\ errs' = FALSE
    /\ retry' = "event"
    /\ UNCHANGED <<address, deleting, bucket, objects, gen, published, faults>>

-----------------------------------------------------------------------------
Next ==
    \/ Dequeue \/ EnsureBucket \/ GenerateCerts \/ KubeConfigs
    \/ GenerateStaticPodManifests \/ KubeletSystemService
    \/ EnsureAuthenticatorConfig \/ StaticPodSpecForAuthenticator
    \/ CreateFailed \/ NewDirectoryIterator \/ IteratorNext \/ UploadObject
    \/ FinishCreate \/ DeleteObjects \/ DeleteBucket \/ RemoveLocal
    \/ AssignAddress \/ UserDelete \/ Restart

Spec == Init /\ [][Next]_vars

(* The worker runs whenever the key is queued (requeues and backoffs       *)
(* fire eventually) and never stops in the middle of a call.               *)
WorkerSteps ==
    Dequeue \/ EnsureBucket \/ GenerateCerts \/ KubeConfigs
    \/ GenerateStaticPodManifests \/ KubeletSystemService
    \/ EnsureAuthenticatorConfig \/ StaticPodSpecForAuthenticator
    \/ NewDirectoryIterator \/ IteratorNext \/ UploadObject \/ FinishCreate
    \/ DeleteObjects \/ DeleteBucket \/ RemoveLocal

FairSpec == Spec /\ WF_vars(WorkerSteps)
-----------------------------------------------------------------------------
(* Properties.                                                             *)

(* Delete releases everything Create made, whatever failures and restarts *)
(* interrupted either of them (Config.Delete, lines 139-154): once the     *)
(* Substrate is gone there is no bucket, no object and no staged file.     *)
DeleteLeavesNothing ==
    phase = "gone" => ~bucket /\ objects = NoFiles /\ local = NoFiles

(* A Substrate with an address eventually has its configuration in S3 and *)
(* its kubeconfig recorded, unless it is deleted first: every failed call  *)
(* of Create, BucketAlreadyOwnedByYou on a retry included, is retried.    *)
EventuallyPublished == (address /\ ~deleting) ~> (published \/ deleting)

(* A deleted Substrate is eventually gone: Delete retried after any        *)
(* partial teardown (bucket already deleted, objects half deleted)         *)
(* completes.                                                              *)
DeletionCompletes == deleting ~> (phase = "gone")

(* A Create that reports success has uploaded every staged file: the spec *)
(* says an open error during the directory sync is reported, not dropped. *)
SuccessUploadsAll ==
    [][(phase = "finish" /\ ~errs) =>
          \A f \in Files : local[f] # 0 => objects[f] = local[f]]_vars

(* The cluster CA in the bucket is never replaced once the kubeconfig has  *)
(* been published to the substrate's nodes.                                *)
CAStable ==
    [][(published /\ objects["pki"] # 0 /\ objects'["pki"] # 0)
          => objects'["pki"] = objects["pki"]]_vars
=============================================================================
