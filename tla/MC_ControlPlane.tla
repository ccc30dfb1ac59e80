--------------------------- MODULE MC_ControlPlane ---------------------------
(***************************************************************************)
(* Model-checking instance of ControlPlane.  The bounds are given in the   *)
(* .cfg files: MaxIncarnation 2 lets a ControlPlane be deleted and created *)
(* again under the same name while the garbage collector still holds the  *)
(* first one's objects; MaxCrashes 1 puts one operator restart anywhere in *)
(* a behaviour, mid-pass included.                                         *)
(***************************************************************************)
EXTENDS ControlPlane

=============================================================================
