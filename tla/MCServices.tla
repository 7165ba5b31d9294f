---------------------------- MODULE MCServices -----------------------------
(***************************************************************************)
(* Services under the fairness of its modules, for four calls of the gate, *)
(* two logging tasks, and the small logs, users and contents of the        *)
(* configuration.                                                          *)
(***************************************************************************)
EXTENDS Services

\* the fairness of the modules, each of its own instance
MCFairness ==
  /\ \A c \in Calls : /\ WF_vars(running = "gate" /\ Step(c))
                      /\ WF_vars(running = "queue" /\ Queue!Step(c))
  /\ \A t \in Loggers : WF_auditVars(running = "timely" /\ Audit(FALSE, TRUE, 0)!TaskStep(t))
  /\ WF_auditVars(running = "timely" /\ \E t \in Loggers : Audit(FALSE, TRUE, 0)!TimerFires(t))

MCSpec == ServicesSpec /\ MCFairness

-----------------------------------------------------------------------------
\* Without an external logger and storage failures every event is stored in the end,
\* also when nobody logs again (the timer armed by log).
EventuallyStored ==
  \A e \in 1 .. MaxEvents :
    (running = "timely" /\ e <= logged)
      ~> (running = "timely" /\ e \in Audit(FALSE, TRUE, 0)!Elems(log) \cup trimmed)

\* Nothing waits for ever: a call at the gate, nested or not, settles, and a buffered
\* event is stored (withReadyAuth, runContext, log).
NothingWaitsForEver == CallsSettle /\ EventuallyStored
=============================================================================
