--------------------------- MODULE StepUpContract ---------------------------
(***************************************************************************)
(* What an action step-up store promises its caller: a challenge is issued *)
(* for one action by one principal, yields at most one permit, and a permit*)
(* buys at most one receipt, for the action the challenge was issued for.  *)
(* Only what the store has answered is visible; files, crashes and clocks  *)
(* are not.                                                                *)
(***************************************************************************)
CONSTANT Bindings   \* principal, action, resource and intent of a challenge

VARIABLES
  known,     \* challenges issued: [ch, binding]
  held,      \* permits granted: [ch, permit]
  receipts   \* receipts returned: [ch, permit, receipt, binding]

contract == <<known, held, receipts>>

Init == known = {} /\ held = {} /\ receipts = {}

Issue ==
  /\ \E k \in known' :
       /\ k.binding \in Bindings
       /\ \A j \in known : j.ch # k.ch
       /\ known' = known \cup {k}
  /\ UNCHANGED <<held, receipts>>

Permit ==
  /\ \E h \in held' :
       /\ \E k \in known : k.ch = h.ch
       /\ \A g \in held : g.ch # h.ch /\ g.permit # h.permit
       /\ held' = held \cup {h}
  /\ UNCHANGED <<known, receipts>>

Spend ==
  /\ \E r \in receipts' :
       /\ [ch |-> r.ch, binding |-> r.binding] \in known
       /\ [ch |-> r.ch, permit |-> r.permit] \in held
       /\ \A q \in receipts : q.ch # r.ch
       /\ receipts' = receipts \cup {r}
  /\ UNCHANGED <<known, held>>

Next == Issue \/ Permit \/ Spend

Spec == Init /\ [][Next]_contract

=============================================================================
