---------------------------- MODULE MC_SecurityGroup ----------------------------
(***************************************************************************)
(* Model-checking instance of SecurityGroup.  Three components give a     *)
(* first, a middle and a last turn of the loop; two failures and two      *)
(* deletions let a failed call leave a created object behind a stale      *)
(* cache, and let an object be deleted before and during a call.          *)
(***************************************************************************)
EXTENDS SecurityGroup
=============================================================================
