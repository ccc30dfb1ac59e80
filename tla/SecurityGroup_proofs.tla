------------------------ MODULE SecurityGroup_proofs ------------------------
(***************************************************************************)
(* Proofs about SecurityGroup for every number of components and every     *)
(* bound on failures and deletions: the type invariant, and that the       *)
(* worker never goes idle while an object is missing unnoticed.            *)
(***************************************************************************)
EXTENDS SecurityGroup, TLAPS

USE ComponentsAssumption, SGFaultAssumption, DeleteAssumption

(* Return keeps the call's variables typed.                                *)
LEMMA ReturnTyped ==
    ASSUME NEW err \in Results, queued \in BOOLEAN, Return(err)
    PROVE  running' \in BOOLEAN /\ result' \in Results /\ queued' \in BOOLEAN
BY DEF Return

(* Continue keeps the loop inside the components.                          *)
LEMMA ContinueTyped ==
    ASSUME TypeOK, Continue
    PROVE  /\ idx' \in Components /\ at' \in {"get", "create"}
           /\ running' \in BOOLEAN /\ result' \in Results /\ queued' \in BOOLEAN
<1>1. CASE idx < N BY <1>1 DEF Continue, TypeOK, Components
<1>2. CASE ~(idx < N) BY <1>2, ReturnTyped DEF Continue, TypeOK, Results
<1>3. QED BY <1>1, <1>2

LEMMA TypeStep == TypeOK /\ [Next]_vars => TypeOK'
<1> SUFFICES ASSUME TypeOK, [Next]_vars PROVE TypeOK' OBVIOUS
<1>0. 1 \in Components BY DEF Components
<1>1. CASE Reconcile BY <1>0, <1>1, Zenon DEF Reconcile, TypeOK
<1>2. CASE Exists
    <2>1. CASE Get(idx) /\ Continue /\ UNCHANGED faults
        BY <1>2, <2>1, ContinueTyped DEF Exists, TypeOK
    <2>2. CASE ~Get(idx) /\ at' = "create" /\ UNCHANGED <<running, idx, result, queued, faults>>
        BY <1>2, <2>2 DEF Exists, TypeOK
    <2>3. CASE faults < MaxFaults /\ faults' = faults + 1 /\ Return("getFailed") /\ UNCHANGED <<idx, at>>
        BY <1>2, <2>3, ReturnTyped DEF Exists, TypeOK, Results
    <2>4. QED BY <1>2, <2>1, <2>2, <2>3 DEF Exists
<1>3. CASE CreateObj
    <2>1. CASE ~store[idx] /\ store' = [store EXCEPT ![idx] = TRUE]
                /\ events' = [events EXCEPT ![idx] = Append(@, TRUE)]
                /\ Continue /\ UNCHANGED faults
        BY <1>3, <2>1, ContinueTyped DEF CreateObj, TypeOK, Components
    <2>2. CASE store[idx] /\ Return("alreadyExists") /\ UNCHANGED <<store, events, idx, at, faults>>
        BY <1>3, <2>2, ReturnTyped DEF CreateObj, TypeOK, Results
    <2>3. CASE faults < MaxFaults /\ faults' = faults + 1 /\ Return("createFailed")
                /\ UNCHANGED <<store, events, idx, at>>
        BY <1>3, <2>3, ReturnTyped DEF CreateObj, TypeOK, Results
    <2>4. QED BY <1>3, <2>1, <2>2, <2>3 DEF CreateObj
<1>4. CASE \E c \in Components : CacheSync(c)
    BY <1>4 DEF CacheSync, TypeOK, callVars
<1>5. CASE \E c \in Components : ExternalDelete(c)
    BY <1>5 DEF ExternalDelete, TypeOK, callVars
<1>6. CASE UNCHANGED vars BY <1>6 DEF vars, TypeOK
<1>7. QED BY <1>1, <1>2, <1>3, <1>4, <1>5, <1>6 DEF Next

LEMMA InitTyped == Init => TypeOK
<1>1. 1 \in Components /\ <<>> \in Seq(BOOLEAN) /\ 0 \in 0..MaxFaults /\ 0 \in 0..MaxDeletes
    BY DEF Components
<1>2. QED BY <1>1, Zenon DEF Init, TypeOK, Results

(* Every state of a behaviour of SecurityGroup is well typed.              *)
THEOREM TypeCorrect == Spec => []TypeOK
BY InitTyped, TypeStep, PTL DEF Spec
-----------------------------------------------------------------------------
(* IdleMeansCovered.  It is not inductive alone: the step that ends a call *)
(* must know that every component the loop went through is covered.  That *)
(* is LoopCovers: while a call runs with nothing queued, every component   *)
(* before idx is in the cache or has an event pending.  The loop covers a  *)
(* component by a hit in the cache or by the create, whose event is        *)
(* pending; a component stops being covered only when the informer        *)
(* delivers its last event, which queues the key.                          *)
Covered(c) == cache[c] \/ events[c] # <<>>

LoopCovers == (running /\ ~queued) => \A c \in 1..(idx - 1) : Covered(c)

SInv == TypeOK /\ IdleMeansCovered /\ LoopCovers

(* A watch event appended to a queue leaves it non-empty.                 *)
LEMMA AppendNonEmpty ==
    ASSUME NEW s \in Seq(BOOLEAN), NEW x \in BOOLEAN
    PROVE  Append(s, x) # <<>>
<1>1. Len(Append(s, x)) = Len(s) + 1 OBVIOUS
<1>2. Len(s) \in Nat OBVIOUS
<1>3. Len(<<>>) = 0 OBVIOUS
<1>4. QED BY <1>1, <1>2, <1>3

(* The loop's step after a covered component keeps both invariants.        *)
LEMMA ContinueCovers ==
    ASSUME TypeOK, running, Continue,
           ~queued => \A c \in 1..idx : Covered(c)'
    PROVE  IdleMeansCovered' /\ LoopCovers'
<1>1. CASE idx < N
    <2>1. idx' = idx + 1 /\ running' /\ queued' = queued BY <1>1 DEF Continue
    <2>2. \A c \in 1..(idx' - 1) : c \in 1..idx BY <2>1 DEF TypeOK, Components
    <2>3. QED BY <2>1, <2>2 DEF IdleMeansCovered, LoopCovers, Covered
<1>2. CASE ~(idx < N)
    <2>1. ~running' /\ queued' = queued BY <1>2 DEF Continue, Return, TypeOK
    <2>2. Components = 1..idx BY <1>2 DEF TypeOK, Components
    <2>3. QED BY <2>1, <2>2 DEF IdleMeansCovered, LoopCovers, Covered
<1>3. QED BY <1>1, <1>2

(* A step that queues the key or stops the call keeps both trivially.     *)
LEMMA QueuedCovers ==
    ASSUME queued' PROVE IdleMeansCovered' /\ LoopCovers'
BY DEF IdleMeansCovered, LoopCovers

LEMMA CoverStep == SInv /\ [Next]_vars => IdleMeansCovered' /\ LoopCovers'
<1> SUFFICES ASSUME TypeOK, IdleMeansCovered, LoopCovers, [Next]_vars
             PROVE  IdleMeansCovered' /\ LoopCovers'
    BY DEF SInv
<1>1. CASE Reconcile BY <1>1 DEF Reconcile, IdleMeansCovered, LoopCovers
<1>2. CASE Exists
    <2>1. CASE Get(idx) /\ Continue /\ UNCHANGED faults
        <3>1. ~queued => \A c \in 1..idx : Covered(c)'
            BY <1>2, <2>1 DEF Exists, Get, LoopCovers, Covered, TypeOK, Components
        <3>2. QED BY <1>2, <2>1, <3>1, ContinueCovers DEF Exists
    <2>2. CASE ~Get(idx) /\ at' = "create" /\ UNCHANGED <<running, idx, result, queued, faults>>
        BY <1>2, <2>2 DEF Exists, IdleMeansCovered, LoopCovers, Covered
    <2>3. CASE faults < MaxFaults /\ faults' = faults + 1 /\ Return("getFailed") /\ UNCHANGED <<idx, at>>
        BY <2>3, QueuedCovers DEF Return
    <2>4. QED BY <1>2, <2>1, <2>2, <2>3 DEF Exists
<1>3. CASE CreateObj
    <2>1. CASE ~store[idx] /\ store' = [store EXCEPT ![idx] = TRUE]
                /\ events' = [events EXCEPT ![idx] = Append(@, TRUE)]
                /\ Continue /\ UNCHANGED faults
        <3>0. events'[idx] = Append(events[idx], TRUE) /\ events[idx] \in Seq(BOOLEAN)
            BY <2>1 DEF TypeOK, Components
        <3>1. events'[idx] # <<>> BY <3>0, AppendNonEmpty
        <3>2. \A c \in 1..(idx - 1) : c \in Components /\ c # idx BY DEF TypeOK, Components
        <3>3. \A c \in 1..(idx - 1) : events'[c] = events[c] BY <2>1, <3>2, Zenon DEF TypeOK
        <3>4. cache' = cache /\ running BY <1>3 DEF CreateObj
        <3>5. ~queued => \A c \in 1..idx : Covered(c)'
            <4> SUFFICES ASSUME ~queued, NEW c \in 1..idx PROVE Covered(c)'
                OBVIOUS
            <4>1. CASE c = idx BY <4>1, <3>1 DEF Covered
            <4>2. CASE c # idx
                <5>1. c \in 1..(idx - 1) BY <4>2 DEF TypeOK, Components
                <5>2. Covered(c) BY <5>1, <3>4 DEF LoopCovers
                <5>3. QED BY <5>1, <5>2, <3>3, <3>4 DEF Covered
            <4>3. QED BY <4>1, <4>2
        <3>6. QED BY <1>3, <2>1, <3>5, ContinueCovers DEF CreateObj
    <2>2. CASE store[idx] /\ Return("alreadyExists") /\ UNCHANGED <<store, events, idx, at, faults>>
        BY <2>2, QueuedCovers DEF Return
    <2>3. CASE faults < MaxFaults /\ faults' = faults + 1 /\ Return("createFailed")
                /\ UNCHANGED <<store, events, idx, at>>
        BY <2>3, QueuedCovers DEF Return
    <2>4. QED BY <1>3, <2>1, <2>2, <2>3 DEF CreateObj
<1>4. CASE \E c \in Components : CacheSync(c) BY <1>4, QueuedCovers DEF CacheSync
(* A deletion appends an event: it covers its component and leaves the     *)
(* others alone.                                                           *)
<1>5. CASE \E c \in Components : ExternalDelete(c)
    <2>1. PICK d \in Components : ExternalDelete(d) BY <1>5
    <2>2. events'[d] = Append(events[d], FALSE) /\ UNCHANGED cache BY <2>1 DEF ExternalDelete, TypeOK
    <2>3. events'[d] # <<>> BY <2>2, AppendNonEmpty DEF TypeOK
    <2>4. \A c \in Components \ {d} : events'[c] = events[c] BY <2>1 DEF ExternalDelete, TypeOK
    <2>5. \A c \in Components : Covered(c) => Covered(c)'
        BY <2>2, <2>3, <2>4 DEF Covered
    <2>6. UNCHANGED <<running, queued, idx>> BY <2>1 DEF ExternalDelete, callVars
    <2>7. \A c \in 1..(idx - 1) : c \in Components BY DEF TypeOK, Components
    <2>8. QED BY <2>5, <2>6, <2>7 DEF IdleMeansCovered, LoopCovers, Covered
<1>6. CASE UNCHANGED vars BY <1>6 DEF vars, IdleMeansCovered, LoopCovers, Covered
<1>7. QED BY <1>1, <1>2, <1>3, <1>4, <1>5, <1>6 DEF Next

(* For any number of components and any bounds: whenever the worker is     *)
(* idle with nothing queued, every component's object is in the cache or   *)
(* has an informer event on its way (no lost wake-up in Create's loop).    *)
THEOREM NoLostWakeup == Spec => []IdleMeansCovered
<1>1. Init => SInv
    <2>1. Init => TypeOK BY InitTyped
    <2>2. Init => IdleMeansCovered /\ LoopCovers BY DEF Init, IdleMeansCovered, LoopCovers
    <2>3. QED BY <2>1, <2>2 DEF SInv
<1>2. SInv /\ [Next]_vars => SInv' BY TypeStep, CoverStep DEF SInv
<1>3. QED BY <1>1, <1>2, PTL DEF Spec, SInv
=============================================================================
