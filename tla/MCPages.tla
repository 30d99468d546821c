------------------------------ MODULE MCPages ------------------------------
(***************************************************************************)
(* One page, one writer, two filters; which faults a run has.              *)
(***************************************************************************)
EXTENDS Pages

AllFaults == {"lost", "ended", "refused"}
EndsOnly  == {"ended"}
NoFaults  == {}
NoQuiet   == {}
=============================================================================
