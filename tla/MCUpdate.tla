----------------------------- MODULE MCUpdate ------------------------------
(***************************************************************************)
(* Three releases, the second and third of which may be ones that die.     *)
(***************************************************************************)
EXTENDS Update

MCBuilds == 1..3
MCNames  == {"exe", "browser"}
MCStores == {"book", "cache"}
=============================================================================
