----------------------------- MODULE MCSignIn ------------------------------
(***************************************************************************)
(* The sign-in with the token loop, one read of the broker's and the       *)
(* person's capture at once: every pair of renewals that may race.         *)
(***************************************************************************)
EXTENDS SignIn, TLC

\* Tokens are told apart by nothing but what became of them.
TokenSymmetry == Permutations(Tokens)
=============================================================================
