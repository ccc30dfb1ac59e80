---------------------------- MODULE Finalization ----------------------------
(***************************************************************************)
(* What the operator promises about a desired-state object and an         *)
(* external resource it acquires for it (the ControlPlane's IAM            *)
(* resources): the resource is acquired only for a live object that holds *)
(* the operator's finalizer, it is released only in the finalization of   *)
(* a deleted object, and the store removes a deleted object only once     *)
(* the finalizer is gone, which the operator removes only after the       *)
(* release.  An object that goes from the store never leaves the resource *)
(* behind.                                                                 *)
(*                                                                         *)
(* The object is absent, live, or deleting (it has a deletion timestamp). *)
(* ControlPlane implements this specification under a refinement mapping. *)
(***************************************************************************)
EXTENDS TLAPS

VARIABLES
    obj,    \* "absent", "live" or "deleting"
    fin,    \* the object carries the operator's finalizer
    held    \* the external resource exists

vars == <<obj, fin, held>>

TypeOK ==
    /\ obj \in {"absent", "live", "deleting"}
    /\ fin \in BOOLEAN
    /\ held \in BOOLEAN

Init ==
    /\ obj = "live"
    /\ fin = FALSE
    /\ held = FALSE

(* The operator puts its finalizer on the object.                          *)
Protect ==
    /\ obj # "absent"
    /\ fin' = TRUE
    /\ UNCHANGED <<obj, held>>

(* The operator acquires the resource for a protected object.              *)
Acquire ==
    /\ obj # "absent"
    /\ fin
    /\ held' = TRUE
    /\ UNCHANGED <<obj, fin>>

(* The user deletes the object: a finalizer holds it in the store with a   *)
(* deletion timestamp, otherwise it goes at once.                          *)
Delete ==
    /\ obj = "live"
    /\ obj' = IF fin THEN "deleting" ELSE "absent"
    /\ UNCHANGED <<fin, held>>

(* Finalization releases the resource of a deleted object.                 *)
Release ==
    /\ obj = "deleting"
    /\ held' = FALSE
    /\ UNCHANGED <<obj, fin>>

(* The finalizer is removed after the release and the store drops the      *)
(* object.                                                                 *)
Remove ==
    /\ obj = "deleting"
    /\ ~held
    /\ obj' = "absent"
    /\ fin' = FALSE
    /\ UNCHANGED held

(* An object of the same name is created again.                            *)
Recreate ==
    /\ obj = "absent"
    /\ obj' = "live"
    /\ fin' = FALSE
    /\ UNCHANGED held

Next == Protect \/ Acquire \/ Delete \/ Release \/ Remove \/ Recreate

Spec == Init /\ [][Next]_vars

(* The promise: an object that is gone from the store left no resource     *)
(* behind, and a resource only exists under the finalizer's protection.    *)
NoLeak ==
    /\ obj = "absent" => ~held
    /\ held => fin

-----------------------------------------------------------------------------
(* NoLeak is inductive together with the type invariant: a resource is     *)
(* acquired only under the finalizer, the finalizer leaves only with the   *)
(* object and only after the release, and an unprotected object that is   *)
(* deleted had nothing to leak.                                            *)
LEMMA NoLeakStep == TypeOK /\ NoLeak /\ [Next]_vars => TypeOK' /\ NoLeak'
<1> SUFFICES ASSUME TypeOK, NoLeak, [Next]_vars PROVE TypeOK' /\ NoLeak'
    OBVIOUS
<1>1. CASE Protect BY <1>1 DEF Protect, TypeOK, NoLeak
<1>2. CASE Acquire BY <1>2 DEF Acquire, TypeOK, NoLeak
<1>3. CASE Delete BY <1>3 DEF Delete, TypeOK, NoLeak
<1>4. CASE Release BY <1>4 DEF Release, TypeOK, NoLeak
<1>5. CASE Remove BY <1>5 DEF Remove, TypeOK, NoLeak
<1>6. CASE Recreate BY <1>6 DEF Recreate, TypeOK, NoLeak
<1>7. CASE UNCHANGED vars BY <1>7 DEF vars, TypeOK, NoLeak
<1>8. QED BY <1>1, <1>2, <1>3, <1>4, <1>5, <1>6, <1>7 DEF Next

(* The promise holds in every behaviour of the protocol.                   *)
THEOREM AbstractNoLeak == Spec => []NoLeak
<1>1. Init => TypeOK /\ NoLeak BY DEF Init, TypeOK, NoLeak
<1>2. QED BY <1>1, NoLeakStep, PTL DEF Spec

=============================================================================
