---------------------------- MODULE MCRequests -----------------------------
(***************************************************************************)
(* SignedIn for two requests, two sessions, two calls of a page and two    *)
(* tasks of the session manager, which may be exchanged.                   *)
(***************************************************************************)
EXTENDS SignedIn, TLC

Symmetry == Permutations(Tasks)
=============================================================================
