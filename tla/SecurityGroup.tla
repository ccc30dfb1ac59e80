---------------------------- MODULE SecurityGroup ----------------------------
(***************************************************************************)
(* The SecurityGroup resource of package resource: SecurityGroup.Create    *)
(* makes sure that a SecurityGroup custom object exists for every          *)
(* component of a ControlPlane.                                            *)
(*                                                                         *)
(* Create loops over the components in order.  For each it Gets the       *)
(* object; a hit moves on, NotFound makes it Create the object and move on *)
(* (the "continue"), and any other error, or any error of the Create,     *)
(* AlreadyExists included, ends the call with that error.  The object      *)
(* store is the API server; the controller-runtime client's Get reads the  *)
(* informer's cache of it, which the watch brings up to date one event at  *)
(* a time, queueing the owner with each event it delivers.  The objects can be deleted      *)
(* behind the controller's back (by a user, or by garbage collection).     *)
(*                                                                         *)
(* An object is abstracted to whether it exists: Create writes the same    *)
(* spec every time, and the code never compares it (the TODO on line 43).  *)
(***************************************************************************)
EXTENDS Naturals, Sequences

CONSTANTS
    N,          \* len(v1alpha1.ComponentsSupported)
    MaxFaults,  \* failed Get or Create calls in a behaviour
    MaxDeletes  \* deletions of an object by someone else in a behaviour

ASSUME ComponentsAssumption == N \in Nat \ {0}
ASSUME SGFaultAssumption == MaxFaults \in Nat
ASSUME DeleteAssumption == MaxDeletes \in Nat

Components == 1..N

VARIABLES
    store,      \* store[c]: the object of component c exists in the API server
    cache,      \* cache[c]: the informer's cache holds the object of c
    events,     \* events[c]: the watch events of c not yet delivered, in order
    queued,     \* the ControlPlane's key is in the work queue
    running,    \* a call of Create is in progress
    idx,        \* the loop's current component
    at,         \* "get" (line 33) or "create" (line 35) for component idx
    result,     \* what the last call returned: none, ok, or the error's cause
    faults,
    deletes

vars == <<store, cache, events, queued, running, idx, at, result, faults, deletes>>
callVars == <<running, idx, at, result>>

Results == {"none", "ok", "getFailed", "createFailed", "alreadyExists"}

TypeOK ==
    /\ store \in [Components -> BOOLEAN]
    /\ cache \in [Components -> BOOLEAN]
    /\ events \in [Components -> Seq(BOOLEAN)]
    /\ queued \in BOOLEAN
    /\ running \in BOOLEAN
    /\ idx \in Components
    /\ at \in {"get", "create"}
    /\ result \in Results
    /\ faults \in 0..MaxFaults
    /\ deletes \in 0..MaxDeletes

Init ==
    /\ store = [c \in Components |-> FALSE]
    /\ cache = [c \in Components |-> FALSE]
    /\ events = [c \in Components |-> <<>>]
    /\ queued = TRUE
    /\ running = FALSE
    /\ idx = 1
    /\ at = "get"
    /\ result = "none"
    /\ faults = 0
    /\ deletes = 0

(* exists(): a Get of the object of component c, served by the client     *)
(* from the informer's cache; NotFound when the cache does not hold it.   *)
Get(c) == cache[c]

(* The call returns err; the controller requeues the key with backoff.     *)
Return(err) ==
    /\ running' = FALSE
    /\ result' = err
    /\ queued' = (err # "ok" \/ queued)

(* Mutant: the loop runs one turn past the last component.                 *)
ContinueOffByOne ==
    IF idx <= N
    THEN /\ idx' = idx + 1
         /\ at' = "get"
         /\ UNCHANGED <<running, result, queued>>
    ELSE /\ Return("ok")
         /\ UNCHANGED <<idx, at>>

(* Mutant: the loop stops before the last component.                       *)
ContinueSkipsLast ==
    IF idx < N - 1
    THEN /\ idx' = idx + 1
         /\ at' = "get"
         /\ UNCHANGED <<running, result, queued>>
    ELSE /\ Return("ok")
         /\ UNCHANGED <<idx, at>>

(* The range loop's step after component idx is done.                      *)
Continue ==
    IF idx < N
    THEN /\ idx' = idx + 1
         /\ at' = "get"
         /\ UNCHANGED <<running, result, queued>>
    ELSE /\ Return("ok")
         /\ UNCHANGED <<idx, at>>

(* The worker takes the key and calls Create from the top of the loop.     *)
Reconcile ==
    /\ queued
    /\ ~running
    /\ queued' = FALSE
    /\ running' = TRUE
    /\ idx' = 1
    /\ at' = "get"
    /\ UNCHANGED <<store, cache, events, result, faults, deletes>>

(* Mutant: NotFound from the Get taken as a hit.                           *)
ExistsIgnoresNotFound ==
    /\ running
    /\ at = "get"
    /\ \/ /\ Continue
          /\ UNCHANGED faults
       \/ /\ faults < MaxFaults
          /\ faults' = faults + 1
          /\ Return("getFailed")
          /\ UNCHANGED <<idx, at>>
    /\ UNCHANGED <<store, cache, events, deletes>>

(* Line 33: exists() for component idx.  A hit moves on; NotFound leads to *)
(* create(); any other error ends the call.                                *)
Exists ==
    /\ running
    /\ at = "get"
    /\ \/ /\ Get(idx)
          /\ Continue
          /\ UNCHANGED faults
       \/ /\ ~Get(idx)
          /\ at' = "create"
          /\ UNCHANGED <<running, idx, result, queued, faults>>
       \/ /\ faults < MaxFaults
          /\ faults' = faults + 1
          /\ Return("getFailed")
          /\ UNCHANGED <<idx, at>>
    /\ UNCHANGED <<store, cache, events, deletes>>

(* create(): a Create of component idx's object in the API server, which  *)
(* refuses it with AlreadyExists when the object is there.                 *)
CreateObj ==
    /\ running
    /\ at = "create"
    /\ \/ /\ ~store[idx]
          /\ store' = [store EXCEPT ![idx] = TRUE]
          /\ events' = [events EXCEPT ![idx] = Append(@, TRUE)]
          /\ Continue
          /\ UNCHANGED faults
       \/ /\ store[idx]
          /\ Return("alreadyExists")
          /\ UNCHANGED <<store, events, idx, at, faults>>
       \/ /\ faults < MaxFaults
          /\ faults' = faults + 1
          /\ Return("createFailed")
          /\ UNCHANGED <<store, events, idx, at>>
    /\ UNCHANGED <<cache, deletes>>

(* The informer delivers the oldest watch event of component c's object:   *)
(* the cache applies it and the owner is queued.                           *)
CacheSync(c) ==
    /\ events[c] # <<>>
    /\ cache' = [cache EXCEPT ![c] = Head(events[c])]
    /\ events' = [events EXCEPT ![c] = Tail(@)]
    /\ queued' = TRUE
    /\ UNCHANGED <<store, callVars, faults, deletes>>

(* Someone else deletes component c's object.                              *)
ExternalDelete(c) ==
    /\ store[c]
    /\ deletes < MaxDeletes
    /\ store' = [store EXCEPT ![c] = FALSE]
    /\ events' = [events EXCEPT ![c] = Append(@, FALSE)]
    /\ deletes' = deletes + 1
    /\ UNCHANGED <<cache, queued, callVars, faults>>

Next ==
    \/ Reconcile
    \/ Exists
    \/ CreateObj
    \/ \E c \in Components : CacheSync(c) \/ ExternalDelete(c)

Spec == Init /\ [][Next]_vars

(* One worker serves the key and the informer runs on its own goroutine;  *)
(* both keep going while they have something to do.                        *)
Fairness ==
    /\ WF_vars(Reconcile)
    /\ WF_vars(Exists)
    /\ WF_vars(CreateObj)
    /\ \A c \in Components : WF_vars(CacheSync(c))

FairSpec == Spec /\ Fairness

-----------------------------------------------------------------------------
(* PROPERTIES                                                              *)

(* Convergence: once the failures and the deletions have run out, Create  *)
(* ends up returning nil with every component's object in the store and   *)
(* the worker idle.  A stale cache may make a call fail or succeed too     *)
(* early, but the informer's next event queues the owner again.           *)
EventuallyConverged ==
    <>[](/\ ~running
         /\ ~queued
         /\ result = "ok"
         /\ \A c \in Components : store[c])

(* No lost wake-up: whenever the worker is idle with nothing queued, each  *)
(* component's object is in the cache or has a watch event on its way,     *)
(* which will queue the owner; an object missing from the cache with no    *)
(* event pending would stay missing for good.  It needs the loop to visit  *)
(* every component and the work queue to keep an event that arrives while  *)
(* a call is running.                                                      *)
IdleMeansCovered ==
    (~running /\ ~queued) => \A c \in Components : cache[c] \/ events[c] # <<>>

(* The object-store contract the controller core relies on: AlreadyExists *)
(* is an ordinary outcome, never a failure of the reconcile.  Create       *)
(* never returns an error whose cause is AlreadyExists.                    *)
AlreadyExistsNotFatal == result # "alreadyExists"

=============================================================================
