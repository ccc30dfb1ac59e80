------------------------- MODULE MC_SubstrateConfig -------------------------
(***************************************************************************)
(* Model-checking instance of SubstrateConfig.  Two injected failures and *)
(* one container restart are enough for a failure to land in each call of *)
(* Create and Delete and for a restart to fall between any two of them.   *)
(***************************************************************************)
EXTENDS SubstrateConfig
=============================================================================
