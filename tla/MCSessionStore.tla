-------------------------- MODULE MCSessionStore ---------------------------
(***************************************************************************)
(* SessionStore in bounded mode, for two users (the constants of the       *)
(* configuration), and two instances of it for one user in single mode:    *)
(* logins, logouts and renewals that race, and requests whose session      *)
(* expires under them.  The initial state chooses which of them a          *)
(* behaviour is about; the bounded instance has the largest bounds, so its *)
(* properties are stated of all three.                                     *)
(***************************************************************************)
EXTENDS SessionStore

CONSTANTS u1

VARIABLE running

Racing ==
  INSTANCE SessionStore
    WITH Users <- {u1}, Strategy <- "single", MaxNow <- 1, MaxFaults <- 0,
         Calls <- {"createSession", "refreshSession", "removeSession", "trackActivityAndRenew"}

Expiring ==
  INSTANCE SessionStore
    WITH Users <- {u1}, Strategy <- "single", SessionMaxAge <- 0, MaxFaults <- 0,
         Calls <- {"createSession", "getSession", "updateSessionUser"}

MCInit == running \in {"bounded", "racing", "expiring"} /\ Init

MCNext ==
  /\ running' = running
  /\ \/ running = "bounded" /\ Next
     \/ running = "racing" /\ Racing!Next
     \/ running = "expiring" /\ Expiring!Next

MCSpec == MCInit /\ [][MCNext]_<<running, vars>>
=============================================================================
