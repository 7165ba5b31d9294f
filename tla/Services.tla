------------------------------ MODULE Services ------------------------------
(***************************************************************************)
(* The services around the stores: AuthGate with nested calls under its    *)
(* own names and as the queue of the step-up store; AuditLogger with       *)
(* storage that fails, over the file adapter and with a timer that must    *)
(* suffice; AuditQuery; PermissionMatrix.  The initial state chooses which *)
(* of them a behaviour is about.                                           *)
(***************************************************************************)
EXTENDS AuthGate

CONSTANTS
  None,
  Loggers, MaxBufferSize, MaxStored, MaxEvents,   \* AuditLogger
  MaxFaults, MaxFileFaults,
  QueryEvents, DefaultLimit, MaxTime, MaxLogged,  \* AuditQuery
  People, Places, Grants                          \* PermissionMatrix

VARIABLES running,
          buffer, timer, at, critical, batch, done, copy, log, trimmed, logged, failed, overlap,
          faults, history, user, content

Queue == INSTANCE AuthGate WITH Reentrant <- FALSE

Audit(external, atomic, max) ==
  INSTANCE AuditLogger
    WITH Tasks <- Loggers, HasExternal <- external, AtomicStore <- atomic, MaxFaults <- max

Query == INSTANCE AuditQuery WITH MaxEvents <- QueryEvents, logged <- history

Matrix == INSTANCE PermissionMatrix

ASSUME AuditAssumption ==
  /\ Audit(FALSE, TRUE, MaxFaults)!AuditAssumption
  /\ Audit(TRUE, FALSE, MaxFileFaults)!AuditAssumption
  /\ Audit(FALSE, TRUE, 0)!AuditAssumption

ASSUME QueryAssumption == Query!AuditQueryAssumption

ASSUME MatrixAssumption == Matrix!MatrixAssumption

auditVars  == <<buffer, timer, at, critical, batch, done, copy, log, trimmed, logged, failed,
                overlap, faults>>
matrixVars == <<user, content>>
all        == <<running, vars, auditVars, history, matrixVars>>

\* the variables of the modules that do not run keep one value
NoMatrix == user = None /\ content = None

\* the logger starts alike in its three instances
ServicesInit ==
  /\ Audit(FALSE, TRUE, MaxFaults)!Init /\ history = <<>>
  /\ \/ running = "queue" /\ Queue!Init /\ NoMatrix
     \/ running \in {"gate", "failing", "filing", "timely", "query"} /\ Init /\ NoMatrix
     \/ running = "matrix" /\ Init /\ Matrix!Init

ServicesNext ==
  /\ running' = running
  /\ \/ running = "gate" /\ Next /\ UNCHANGED <<auditVars, history, matrixVars>>
     \/ running = "queue" /\ Queue!Next /\ UNCHANGED <<auditVars, history, matrixVars>>
     \/ /\ \/ running = "failing" /\ Audit(FALSE, TRUE, MaxFaults)!Next
           \/ running = "filing" /\ Audit(TRUE, FALSE, MaxFileFaults)!Next
           \/ running = "timely" /\ Audit(FALSE, TRUE, 0)!Next
        /\ UNCHANGED <<vars, history, matrixVars>>
     \/ /\ running = "query" /\ Query!Next
        /\ UNCHANGED <<vars, buffer, timer, at, critical, batch, done, copy, trimmed, logged, failed,
                       overlap, faults, matrixVars>>
     \/ running = "matrix" /\ Matrix!Next /\ UNCHANGED <<vars, auditVars, history>>

ServicesSpec == ServicesInit /\ [][ServicesNext]_all

-----------------------------------------------------------------------------
\* A logged event is buffered with a timer that will flush it, in the hands of a flush,
\* stored or trimmed as one of the oldest, and stored once; a failing storage call may
\* repeat it and the file adapter loses it only when two flushes overlap (log, flush).
EventsKept ==
  /\ running = "failing" => /\ Audit(FALSE, TRUE, MaxFaults)!NoEventLost
                            /\ Audit(FALSE, TRUE, MaxFaults)!WaitingIsTriggered
  /\ running = "filing" => Audit(TRUE, FALSE, MaxFileFaults)!NoEventLost
  /\ running = "timely" => Audit(FALSE, TRUE, 0)!StoredOnce

\* On both adapters the log keeps the newest events, reading it page by page gives every
\* stored match once and in order, and the count of failed logins is that of the stored
\* ones, on the file adapter while they fit the default page (logAuditEvent,
\* getAuditEvents, getRecentAuditEvents, getFailedLoginAttempts).
QueriesExact == running = "query" => Query!KeepsNewest /\ Query!PagesCover /\ Query!FailuresCounted

\* Decisions that are programmed apart agree on every user and content: permissions that
\* are listed are granted, an author can read what he wrote, no role above member lacks
\* what a member may do, and who may delete may edit (core/permissions/*.ts).
DecisionsAgree ==
  running = "matrix" =>
    /\ Matrix!ListedIsGranted /\ Matrix!AuthorCanRead
    /\ Matrix!PromotionCostsNothing /\ Matrix!DeleteImpliesEdit
=============================================================================
