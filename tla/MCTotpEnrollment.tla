-------------------------- MODULE MCTotpEnrollment --------------------------
(***************************************************************************)
(* Instances of TotpEnrollment for TLC.                                    *)
(***************************************************************************)
EXTENDS TotpEnrollment

CONSTANTS u1, s1, p1, p2

\* every session belongs to the one user
MCOwner == [s \in Sessions |-> u1]

\* proofs made with the initial credential, one of them issued later
MCAuthorization ==
  [p \in Proofs |-> [sess |-> s1, issued |-> IF p = p1 THEN 0 ELSE 1,
                     expires |-> 3, cred |-> 0]]
=============================================================================
