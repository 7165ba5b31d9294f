----------------------------- MODULE MCAccounts -----------------------------
(***************************************************************************)
(* AccountStores with two tasks, four applications of two tenants, two     *)
(* spellings of one handle and another handle, two invitations and two     *)
(* administrators.                                                         *)
(***************************************************************************)
EXTENDS AccountStores, TLC

CONSTANTS a1, a2, a3, a4, t1, t2, k1, k2, h1, h2, i1, i2

\* two applications of one tenant that spell its id differently, one of another
\* tenant, and one whose first setting is not an id
Empty     == [kind |-> "empty"]
Junk      == [kind |-> "junk"]
Id(u, up) == [kind |-> "uuid", id |-> [uuid |-> u, upper |-> up]]

Configured ==
  (a1 :> <<Id(t1, TRUE), Id(t2, FALSE)>>) @@ (a2 :> <<Empty, Id(t1, FALSE)>>) @@
  (a3 :> <<Id(t2, FALSE)>>) @@ (a4 :> <<Junk, Id(t1, FALSE)>>)

\* one handle in two spellings, and another
Spelt == {[name |-> "ada", upper |-> FALSE], [name |-> "ada", upper |-> TRUE],
          [name |-> "bob", upper |-> FALSE]}

Symmetry == Permutations({k1, k2}) \cup Permutations({i1, i2})
=============================================================================
