----------------------------- MODULE MCNifWatch -----------------------------
(***************************************************************************)
(* Small instances of NifWatch: every constant is given in the .cfg.       *)
(***************************************************************************)
EXTENDS NifWatch
=============================================================================
