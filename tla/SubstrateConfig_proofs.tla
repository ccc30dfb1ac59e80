----------------------- MODULE SubstrateConfig_proofs -----------------------
(***************************************************************************)
(* Proofs about SubstrateConfig for every bound on failures and restarts: *)
(* Delete leaves nothing behind.                                           *)
(***************************************************************************)
EXTENDS SubstrateConfig, TLAPS

USE FaultAssumption, RestartAssumption

(* Typing.                                                                 *)

(* The walk lists files of the directory only.                             *)
LEMMA VisitTyped == \A ps \in Seq(Files), i \in 1..6 : Visit(ps, i) \in Seq(Files)
<1> SUFFICES ASSUME NEW ps \in Seq(Files), NEW i \in 1..6 PROVE Visit(ps, i) \in Seq(Files)
    OBVIOUS
<1>1. WalkOrder[i] \in Files BY DEF Files, WalkOrder
<1>2. QED BY <1>1 DEF Visit

LEMMA WalkTyped == Walk \in Seq(Files)
<1>1. <<>> \in Seq(Files) OBVIOUS
<1>0. {1, 2, 3, 4, 5, 6} \subseteq 1..6 OBVIOUS
<1>2. Visit(<<>>, 1) \in Seq(Files) BY <1>0, <1>1, VisitTyped
<1>3. Visit(Visit(<<>>, 1), 2) \in Seq(Files) BY <1>0, <1>2, VisitTyped
<1>4. Visit(Visit(Visit(<<>>, 1), 2), 3) \in Seq(Files) BY <1>0, <1>3, VisitTyped
<1>5. Visit(Visit(Visit(Visit(<<>>, 1), 2), 3), 4) \in Seq(Files) BY <1>0, <1>4, VisitTyped
<1>6. Visit(Visit(Visit(Visit(Visit(<<>>, 1), 2), 3), 4), 5) \in Seq(Files) BY <1>0, <1>5, VisitTyped
<1>7. QED BY <1>0, <1>6, VisitTyped DEF Walk

(* A generator call writes a content of a minted generation.               *)
LEMMA WriteTyped ==
    ASSUME TypeOK, NEW f \in Files, NEW c \in 0..MaxGen, NEW next \in Phases,
           Write(f, c, next), UNCHANGED gen
    PROVE  TypeOK'
BY DEF Write, TypeOK, iterVars

LEMMA FailTyped ==
    ASSUME TypeOK, Fail PROVE faults' \in 0..MaxFaults /\ phase' \in Phases /\ retry' = "backoff"
BY DEF Fail, TypeOK, Phases

LEMMA TypeStep == TypeOK /\ [Next]_vars => TypeOK'
<1> SUFFICES ASSUME TypeOK, [Next]_vars PROVE TypeOK'
    OBVIOUS
<1>0. /\ "pki" \in Files /\ "kubeconfigs" \in Files /\ "manifests" \in Files
      /\ "kubelet" \in Files /\ "authconfig" \in Files /\ "authpod" \in Files
      /\ 1 \in 0..MaxGen
    BY DEF Files, WalkOrder, MaxGen
<1>1. CASE Dequeue BY <1>1 DEF Dequeue, TypeOK, Phases, DeletePhases, CreatePhases, iterVars
<1>2. CASE EnsureBucket BY <1>2 DEF EnsureBucket, TypeOK, Phases, CreatePhases, iterVars
<1>3. CASE GenerateCerts
    <2>1. CASE local["pki"] # 0 /\ Write("pki", local["pki"], "kubeconfigs") /\ UNCHANGED gen
        <3>1. local["pki"] \in 0..MaxGen BY <1>0 DEF TypeOK
        <3>2. QED BY <2>1, <3>1, <1>0, WriteTyped DEF Phases, CreatePhases
    <2>2. CASE local["pki"] = 0 /\ gen < MaxGen /\ gen' = gen + 1 /\ Write("pki", gen + 1, "kubeconfigs")
        <3>1. gen + 1 \in 0..MaxGen /\ gen' \in 0..MaxGen BY <2>2 DEF TypeOK, MaxGen
        <3>2. QED BY <2>2, <3>1, <1>0 DEF Write, TypeOK, iterVars, Phases, CreatePhases
    <2>3. QED BY <1>3, <2>1, <2>2 DEF GenerateCerts
<1>4. CASE KubeConfigs
    <2>1. local["pki"] \in 0..MaxGen BY <1>0 DEF TypeOK
    <2>2. QED BY <1>4, <2>1, <1>0, WriteTyped DEF KubeConfigs, Phases, CreatePhases
<1>5. CASE GenerateStaticPodManifests
    BY <1>5, <1>0, WriteTyped DEF GenerateStaticPodManifests, Phases, CreatePhases
<1>6. CASE KubeletSystemService
    BY <1>6, <1>0, WriteTyped DEF KubeletSystemService, Phases, CreatePhases
<1>7. CASE EnsureAuthenticatorConfig
    BY <1>7, <1>0, WriteTyped DEF EnsureAuthenticatorConfig, Phases, CreatePhases
<1>8. CASE StaticPodSpecForAuthenticator
    BY <1>8, <1>0, WriteTyped DEF StaticPodSpecForAuthenticator, Phases, CreatePhases
<1>9. CASE CreateFailed BY <1>9, FailTyped DEF CreateFailed, TypeOK, iterVars
<1>10. CASE NewDirectoryIterator
    <2>1. paths' \in Seq(Files)
        <3>1. CASE paths' = Walk BY <3>1, WalkTyped
        <3>2. CASE \E k \in 0..(Len(Walk) - 1) : paths' = SubSeq(Walk, 1, k)
            <4>1. PICK k \in 0..(Len(Walk) - 1) : paths' = SubSeq(Walk, 1, k) BY <3>2
            <4>2. QED BY <4>1, WalkTyped
        <3>3. QED BY <1>10, <3>1, <3>2 DEF NewDirectoryIterator
    <2>2. faults' \in 0..MaxFaults BY <1>10 DEF NewDirectoryIterator, TypeOK
    <2>3. QED BY <1>10, <2>1, <2>2 DEF NewDirectoryIterator, TypeOK, Phases, CreatePhases, None
<1>11. CASE IteratorNext
    <2>1. paths # <<>> => Head(paths) \in Files /\ Tail(paths) \in Seq(Files) BY DEF TypeOK
    <2>2. faults' \in 0..MaxFaults BY <1>11 DEF IteratorNext, TypeOK
    <2>3. paths' \in Seq(Files) /\ handle' \in Files \cup {None} BY <1>11, <2>1 DEF IteratorNext, TypeOK
    <2>4. phase' \in Phases BY <1>11 DEF IteratorNext, TypeOK, Phases, CreatePhases
    <2>5. QED BY <1>11, <2>2, <2>3, <2>4, Zenon DEF IteratorNext, TypeOK
<1>12. CASE UploadObject
    <2>1. handle \in Files BY <1>12 DEF UploadObject, TypeOK, None, Files, WalkOrder
    <2>2. objects' \in [Files -> 0..MaxGen]
        BY <1>12, <2>1 DEF UploadObject, TypeOK
    <2>3. faults' \in 0..MaxFaults /\ errs' \in BOOLEAN
        <3>1. CASE UNCHANGED <<errs, faults>> BY <3>1 DEF TypeOK
        <3>2. CASE faults < MaxFaults /\ faults' = faults + 1 /\ errs' = TRUE BY <3>2 DEF TypeOK
        <3>3. QED BY <1>12, <3>1, <3>2 DEF UploadObject
    <2>4. handle' \in Files \cup {None} BY <1>12 DEF UploadObject
    <2>5. QED BY <1>12, <2>2, <2>3, <2>4, Zenon DEF UploadObject, TypeOK
<1>13. CASE FinishCreate BY <1>13 DEF FinishCreate, TypeOK, Phases, iterVars
<1>14. CASE DeleteObjects
    <2>1. NoFiles \in [Files -> 0..MaxGen] BY DEF NoFiles, MaxGen
    <2>2. \A gone \in SUBSET Files :
            [f \in Files |-> IF f \in gone THEN 0 ELSE objects[f]] \in [Files -> 0..MaxGen]
        BY DEF TypeOK, MaxGen
    <2>3. QED BY <1>14, <2>1, <2>2, FailTyped DEF DeleteObjects, TypeOK, Phases, DeletePhases, iterVars
<1>15. CASE DeleteBucket BY <1>15, FailTyped DEF DeleteBucket, TypeOK, Phases, DeletePhases, iterVars
<1>16. CASE RemoveLocal
    <2>1. NoFiles \in [Files -> 0..MaxGen] BY DEF NoFiles, MaxGen
    <2>2. QED BY <1>16, <2>1, FailTyped DEF RemoveLocal, TypeOK, Phases, iterVars
<1>17. CASE AssignAddress BY <1>17 DEF AssignAddress, TypeOK, iterVars
<1>18. CASE UserDelete BY <1>18 DEF UserDelete, TypeOK, iterVars
<1>19. CASE Restart
    <2>1. NoFiles \in [Files -> 0..MaxGen] BY DEF NoFiles, MaxGen
    <2>2. restarts' \in 0..MaxRestarts BY <1>19 DEF Restart, TypeOK
    <2>3. phase' \in Phases /\ paths' \in Seq(Files) /\ handle' \in Files \cup {None}
        BY <1>19 DEF Restart, Phases
    <2>4. QED BY <1>19, <2>1, <2>2, <2>3, Zenon DEF Restart, TypeOK
<1>20. CASE UNCHANGED vars BY <1>20 DEF vars, TypeOK
<1>21. QED BY <1>1, <1>2, <1>3, <1>4, <1>5, <1>6, <1>7, <1>8, <1>9, <1>10,
              <1>11, <1>12, <1>13, <1>14, <1>15, <1>16, <1>17, <1>18, <1>19,
              <1>20 DEF Next

(* Every state of a behaviour of SubstrateConfig is well typed: the walk  *)
(* and the iterator only list staged files, and every content is a CA     *)
(* generation that has been minted.                                        *)
THEOREM TypeCorrect == Spec => []TypeOK
<1>1. Init => TypeOK
    <2>1. NoFiles \in [Files -> 0..MaxGen] BY DEF NoFiles, MaxGen
    <2>2. 0 \in 0..MaxGen /\ 0 \in 0..MaxFaults /\ 0 \in 0..MaxRestarts BY DEF MaxGen
    <2>3. "idle" \in Phases /\ <<>> \in Seq(Files) /\ None \in Files \cup {None} BY DEF Phases
    <2>4. QED BY <2>1, <2>2, <2>3, Zenon DEF Init, TypeOK
<1>2. QED BY <1>1, TypeStep, PTL DEF Spec

(* DeleteLeavesNothing is not inductive alone: a step into "gone" must     *)
(* know that the bucket and its objects are already gone.  Delete's calls  *)
(* run in order, each phase entered only when the previous call succeeded, *)
(* and nothing but Delete's own calls touches the bucket, its objects or   *)
(* /tmp while Delete is past its first call.                              *)
TeardownProgress ==
    /\ phase \in {"deleteBucket", "removeLocal", "gone"} => objects = NoFiles
    /\ phase \in {"removeLocal", "gone"} => ~bucket
    /\ phase = "gone" => local = NoFiles

(* The worker's calls that are not part of Delete leave phase outside the  *)
(* teardown: they start from and go to phases of Create or idle.           *)
LEMMA WriteStep ==
    ASSUME NEW f, NEW c, NEW next, next \notin {"deleteBucket", "removeLocal", "gone"},
           Write(f, c, next)
    PROVE  TeardownProgress'
BY DEF Write, TeardownProgress

LEMMA FailStep == ASSUME Fail PROVE TeardownProgress'
BY DEF Fail, TeardownProgress

LEMMA TeardownStep == TeardownProgress /\ [Next]_vars => TeardownProgress'
<1> SUFFICES ASSUME TeardownProgress, [Next]_vars PROVE TeardownProgress'
    OBVIOUS
<1>1. CASE Dequeue BY <1>1 DEF Dequeue, TeardownProgress
<1>2. CASE EnsureBucket BY <1>2 DEF EnsureBucket, TeardownProgress
<1>3. CASE GenerateCerts BY <1>3, WriteStep DEF GenerateCerts
<1>4. CASE KubeConfigs BY <1>4, WriteStep DEF KubeConfigs
<1>5. CASE GenerateStaticPodManifests BY <1>5, WriteStep DEF GenerateStaticPodManifests
<1>6. CASE KubeletSystemService BY <1>6, WriteStep DEF KubeletSystemService
<1>7. CASE EnsureAuthenticatorConfig BY <1>7, WriteStep DEF EnsureAuthenticatorConfig
<1>8. CASE StaticPodSpecForAuthenticator BY <1>8, WriteStep DEF StaticPodSpecForAuthenticator
<1>9. CASE CreateFailed BY <1>9, FailStep DEF CreateFailed
<1>10. CASE NewDirectoryIterator BY <1>10 DEF NewDirectoryIterator, TeardownProgress
<1>11. CASE IteratorNext BY <1>11 DEF IteratorNext, TeardownProgress
<1>12. CASE UploadObject BY <1>12 DEF UploadObject, TeardownProgress
<1>13. CASE FinishCreate BY <1>13 DEF FinishCreate, TeardownProgress
(* The batch delete empties the bucket before Delete moves on; a failed    *)
(* batch goes back to idle.                                                *)
<1>14. CASE DeleteObjects BY <1>14, FailStep DEF DeleteObjects, TeardownProgress
(* The bucket is deleted only once it is empty.                            *)
<1>15. CASE DeleteBucket BY <1>15, FailStep DEF DeleteBucket, TeardownProgress
<1>16. CASE RemoveLocal BY <1>16, FailStep DEF RemoveLocal, TeardownProgress
<1>17. CASE AssignAddress BY <1>17 DEF AssignAddress, TeardownProgress
<1>18. CASE UserDelete BY <1>18 DEF UserDelete, TeardownProgress
<1>19. CASE Restart BY <1>19 DEF Restart, TeardownProgress
<1>20. CASE UNCHANGED vars BY <1>20 DEF vars, TeardownProgress
<1>21. QED BY <1>1, <1>2, <1>3, <1>4, <1>5, <1>6, <1>7, <1>8, <1>9, <1>10,
              <1>11, <1>12, <1>13, <1>14, <1>15, <1>16, <1>17, <1>18, <1>19,
              <1>20 DEF Next

(* Once the Substrate is gone, Delete has removed the bucket, every object *)
(* in it and the staging directory, whatever failures and restarts         *)
(* interrupted Create and Delete (Config.Delete, lines 139-154).           *)
THEOREM DeleteClean == Spec => []DeleteLeavesNothing
<1>1. Init => TeardownProgress BY DEF Init, TeardownProgress
<1>2. TeardownProgress => DeleteLeavesNothing BY DEF TeardownProgress, DeleteLeavesNothing
<1>3. QED BY <1>1, <1>2, TeardownStep, PTL DEF Spec
=============================================================================
