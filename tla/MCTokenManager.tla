-------------------------- MODULE MCTokenManager ---------------------------
(* TokenManager for TLC: requests are interchangeable. *)
EXTENDS TokenManager, TLC

TaskSymmetry == Permutations(Tasks)
=============================================================================
