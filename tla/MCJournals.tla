----------------------------- MODULE MCJournals -----------------------------
(***************************************************************************)
(* TotpRetirement with a journal that fills up and a clock that is set back*)
(* (the constants of the configuration) and two more instances of it: an   *)
(* account that retires, enrolls and retires again; two accounts.  The     *)
(* initial state chooses which of them a behaviour is about; the extended  *)
(* module's properties are evaluated over all of them, for the account and *)
(* the receipts they have in common.                                       *)
(***************************************************************************)
EXTENDS TotpRetirement, TLC

CONSTANTS alice, bob, s1, s2, r1, r2, r3

VARIABLE running

MCOwner == [s \in Sessions |-> alice]
MCActor == [r \in Receipts |-> alice]

Repeating ==
  INSTANCE TotpRetirement
    WITH MaxGens <- 2, MaxStep <- 1, MaxCred <- 0, MaxNow <- 0, MaxFaults <- 2, MaxCrashes <- 2

Apart ==
  INSTANCE TotpRetirement
    WITH Users <- {alice, bob}, Sessions <- {s1, s2}, Owner <- (s1 :> alice @@ s2 :> bob),
         Actor <- (r1 :> alice @@ r2 :> bob @@ r3 :> bob), MaxGens <- 2, MaxStep <- 0,
         MaxCred <- 0, MaxNow <- 0, MaxFaults <- 0, MaxCrashes <- 1

JournalsInit ==
  \/ running = "full" /\ Init
  \/ running = "repeating" /\ Repeating!Init
  \/ running = "apart" /\ Apart!Init

JournalsNext ==
  /\ running' = running
  /\ \/ running = "full" /\ Next
     \/ running = "repeating" /\ Repeating!Next
     \/ running = "apart" /\ Apart!Next

JournalsSpec == JournalsInit /\ [][JournalsNext]_<<running, vars>>
=============================================================================
