------------------------ MODULE MCEnrollmentFaults -------------------------
(***************************************************************************)
(* Four instances of TotpEnrollment: two accounts that share the gate; two *)
(* sessions of one account that enroll and disable under failures; one     *)
(* proof over attempts that expire; and, the instance this module extends, *)
(* credentials that change.  The initial state chooses which of them a     *)
(* behaviour is about; the extended module's properties are evaluated over *)
(* all of them, for the account they have in common.                       *)
(***************************************************************************)
EXTENDS TotpEnrollment

CONSTANTS u1, u2, s1, s2, p1, p2, h1

VARIABLE running

Shown(p, issued) == [sess |-> s1, issued |-> issued, expires |-> 3, cred |-> 0]

MCOwner == [s \in Sessions |-> u1]
MCAuthorization == [p \in Proofs |-> Shown(p, IF p = p1 THEN 0 ELSE 1)]

Pair ==
  INSTANCE TotpEnrollment
    WITH Users <- {u1, u2}, Sessions <- {s1, s2},
         Owner <- [s \in {s1, s2} |-> IF s = s1 THEN u1 ELSE u2],
         Proofs <- {}, Authorization <- [p \in {} |-> Shown(p, 0)], ProofTTL <- 2,
         MaxUses <- 2, MaxAttempts <- 2, MaxNow <- 0, MaxCred <- 0, MaxFaults <- 0, MaxCrashes <- 1

Failing ==
  INSTANCE TotpEnrollment
    WITH Sessions <- {s1, s2}, Owner <- [s \in {s1, s2} |-> u1],
         Proofs <- {}, Authorization <- [p \in {} |-> Shown(p, 0)], ProofTTL <- 2,
         MaxUses <- 2, MaxAttempts <- 2, MaxNow <- 1, MaxCred <- 0, MaxFaults <- 2, MaxCrashes <- 1

Expiring ==
  INSTANCE TotpEnrollment
    WITH Proofs <- {p1}, Authorization <- [p \in {p1} |-> Shown(p, 0)],
         MaxAttempts <- 3, MaxNow <- 2, MaxCred <- 0, MaxFaults <- 1, MaxCrashes <- 1

FaultsInit ==
  \/ running = "pair" /\ Pair!Init
  \/ running = "failing" /\ Failing!Init
  \/ running = "expiring" /\ Expiring!Init
  \/ running = "credential" /\ Init

FaultsNext ==
  /\ running' = running
  /\ \/ running = "pair" /\ Pair!Next
     \/ running = "failing" /\ Failing!Next
     \/ running = "expiring" /\ Expiring!Next
     \/ running = "credential" /\ Next

FaultsSpec == FaultsInit /\ [][FaultsNext]_<<running, vars>>

-----------------------------------------------------------------------------
\* The gate opens for either account only when neither is half enrolled, and neither
\* gets a factor before its commit is durable (withReadyAuth, recoverUnsafe, apply).
AccountsReady == running = "pair" => Pair!ReadyAuth /\ Pair!NoProjectionBeforeCommit
=============================================================================
