-------------------------- MODULE SessionContract --------------------------
(***************************************************************************)
(* What the session store promises whoever holds a session id: a session is*)
(* created once, creating one costs nobody but its owner a session, and a  *)
(* session that has left the store, whichever way, never comes back.       *)
(***************************************************************************)
CONSTANTS Ids, Users

VARIABLES
  live,   \* sessions in the store: [id, userId]
  ever    \* sessions that have been in it

Init == live = {} /\ ever = {}

Create ==
  \E i \in Ids, u \in Users :
    /\ \A s \in ever : s.id # i
    /\ [id |-> i, userId |-> u] \in live'
    /\ live' \subseteq live \cup {[id |-> i, userId |-> u]}
    /\ \A s \in live \ live' : s.userId = u
    /\ ever' = ever \cup {[id |-> i, userId |-> u]}

End == live' \subseteq live /\ ever' = ever

Next == Create \/ End

Spec == Init /\ [][Next]_<<live, ever>>

=============================================================================
