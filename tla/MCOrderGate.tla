----------------------------- MODULE MCOrderGate -----------------------------
(* Bounds for TLC: the orders of a gate share nothing but the threads, so one *)
(* order with several threads on it is the interesting instance.              *)
EXTENDS OrderGate, TLC

Symmetry == Permutations(Readers) \cup Permutations(Callers)
==============================================================================
