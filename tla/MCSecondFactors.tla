-------------------------- MODULE MCSecondFactors --------------------------
(***************************************************************************)
(* How a person gets a second factor and uses it, for TLC: what the tasks, *)
(* states, handles and codes are called does not matter.                   *)
(***************************************************************************)
EXTENDS FirstAccount, TLC

Symmetry == Permutations(Tasks) \cup Permutations(States) \cup Permutations(Handles)
              \cup Permutations(Codes)
=============================================================================
