--------------------------- MODULE MCActionStepUp ---------------------------
(***************************************************************************)
(* Instances of ActionStepUp for TLC: two actions of one principal and one *)
(* of another.                                                             *)
(***************************************************************************)
EXTENDS ActionStepUp

CONSTANTS b1, b2, b3, i1, i2

MCIdentityOf == [b \in Bindings |-> IF b = b3 THEN i2 ELSE i1]
=============================================================================
