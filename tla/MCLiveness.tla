---------------------------- MODULE MCLiveness -----------------------------
(***************************************************************************)
(* What must happen in the end: an instance each of TotpEnrollment,        *)
(* TotpRetirement, FileBootstrap and SessionStore, small enough for        *)
(* temporal formulas, each under its module's own fairness.  The initial   *)
(* state chooses which of them a behaviour is about.                       *)
(***************************************************************************)
EXTENDS Naturals

CONSTANTS u1, s1, r1, h1, h2, c1, c2, Nobody, NoProof

VARIABLES running, journal, disk, now, faults, pc, req, rec, crashes,
          acct, caller, snap, factor, codes, receipts, minted,
          used, live, ret, strict, recov, known, retired,
          store, jdisk, stale, gens, stage, acks, deleted,
          users, begun, ready, shown, acked, created,
          sessions, tail, ahead, at, call, next, found, threw, proc, lastRenewal, ever

Enrollment ==
  INSTANCE TotpEnrollment
    WITH Users <- {u1}, Sessions <- {s1}, Owner <- [s \in {s1} |-> u1], Handles <- {h1, h2},
         Proofs <- {}, Authorization <- [p \in {} |-> NoProof], TTL <- 1, ProofTTL <- 2,
         MaxUses <- 2, MaxAttempts <- 1, MaxNow <- 1, MaxCred <- 0, MaxFaults <- 1, MaxCrashes <- 1,
         Nested <- TRUE

Retirement ==
  INSTANCE TotpRetirement
    WITH Users <- {u1}, Sessions <- {s1}, Owner <- [s \in {s1} |-> u1], Receipts <- {r1},
         Actor <- [r \in {r1} |-> u1], MaxRecords <- 1, Uncertain <- FALSE, MaxGens <- 1,
         MaxStep <- 0, MaxCred <- 0, MaxNow <- 1, MaxFaults <- 1, MaxCrashes <- 1

Bootstrap ==
  INSTANCE FileBootstrap
    WITH TTL <- 1, MaxAttempts <- 1, MaxNow <- 1, MaxFaults <- 2, MaxCrashes <- 1

Store ==
  INSTANCE SessionStore
    WITH Users <- {u1}, Clients <- {c1, c2}, Roles <- {0}, Strategy <- "single",
         MaxConcurrent <- 2, SessionMaxAge <- 1, MaxAge <- 1, ActivityThreshold <- 1,
         ActivityExtension <- 1, MinRenewalInterval <- 1, Ids <- {1, 2}, MaxNow <- 1, MaxFaults <- 1,
         Calls <- {"createSession", "getSession", "updateSessionUser", "refreshSession",
                   "removeSession"}

ASSUME /\ Retirement!PeopleAssumption /\ Retirement!LimitAssumption
       /\ Bootstrap!BootstrapAssumption

\* variables that several modules have, and those of one
gateVars    == <<journal, disk, pc, req, rec, crashes>>
frameVars   == <<acct, caller, snap>>
factorVars  == <<factor, codes, receipts>>
enrollOnly  == <<used, live, ret, strict, recov, known, retired>>
retireOnly  == <<store, jdisk, stale, gens, stage, acks, deleted>>
firstOnly   == <<users, begun, ready, shown, acked, created>>
sessionOnly == <<sessions, tail, ahead, at, call, next, found, threw, proc, lastRenewal, ever>>

enrollVars  == <<gateVars, frameVars, factorVars, enrollOnly, minted, now, faults>>
retireVars  == <<gateVars, frameVars, retireOnly, now, faults>>
firstVars   == <<gateVars, factorVars, firstOnly, now, faults>>
sessionVars == <<sessionOnly, minted, now, faults>>

\* the variables of the modules that do not run keep one value
NoGate    == /\ journal = Nobody /\ disk = Nobody /\ pc = Nobody /\ req = Nobody /\ rec = Nobody
             /\ crashes = Nobody
NoFrame   == acct = Nobody /\ caller = Nobody /\ snap = Nobody
NoFactor  == factor = Nobody /\ codes = Nobody /\ receipts = Nobody
NoEnroll  == /\ used = Nobody /\ live = Nobody /\ ret = Nobody /\ strict = Nobody
             /\ recov = Nobody /\ known = Nobody /\ retired = Nobody
NoRetire  == /\ store = Nobody /\ jdisk = Nobody /\ stale = Nobody /\ gens = Nobody
             /\ stage = Nobody /\ acks = Nobody /\ deleted = Nobody
NoFirst   == /\ users = Nobody /\ begun = Nobody /\ ready = Nobody /\ shown = Nobody
             /\ acked = Nobody /\ created = Nobody
NoSession == /\ sessions = Nobody /\ tail = Nobody /\ ahead = Nobody /\ at = Nobody
             /\ call = Nobody /\ next = Nobody /\ found = Nobody /\ threw = Nobody
             /\ proc = Nobody /\ lastRenewal = Nobody /\ ever = Nobody

Init ==
  \/ running = "enrollment" /\ Enrollment!Init /\ NoRetire /\ NoFirst /\ NoSession
  \/ /\ running = "retirement" /\ Retirement!Init /\ NoFactor /\ NoEnroll /\ NoFirst /\ NoSession
     /\ minted = Nobody
  \/ /\ running = "bootstrap" /\ Bootstrap!Init /\ NoFrame /\ NoEnroll /\ NoRetire /\ NoSession
     /\ minted = Nobody
  \/ /\ running = "sessions" /\ Store!Init /\ NoGate /\ NoFrame /\ NoFactor /\ NoEnroll
     /\ NoRetire /\ NoFirst

Next ==
  /\ running' = running
  /\ \/ /\ running = "enrollment" /\ Enrollment!Next
        /\ UNCHANGED <<retireOnly, firstOnly, sessionOnly>>
     \/ /\ running = "retirement" /\ Retirement!Next
        /\ UNCHANGED <<factorVars, enrollOnly, firstOnly, sessionOnly, minted>>
     \/ /\ running = "bootstrap" /\ Bootstrap!Next
        /\ UNCHANGED <<frameVars, enrollOnly, retireOnly, sessionOnly, minted>>
     \/ /\ running = "sessions" /\ Store!Next
        /\ UNCHANGED <<gateVars, frameVars, factorVars, enrollOnly, retireOnly, firstOnly>>

Fairness ==
  /\ WF_enrollVars(running = "enrollment" /\ Enrollment!Progress)
  /\ WF_retireVars(running = "retirement"
                     /\ (Retirement!Coordinator \/ Retirement!Application \/ Retirement!Refuse))
  /\ WF_retireVars(running = "retirement" /\ Retirement!Tick)
  /\ WF_firstVars(running = "bootstrap" /\ Bootstrap!Step)
  /\ WF_firstVars(running = "bootstrap" /\ Bootstrap!recover)
  /\ \A c \in {c1, c2} : /\ WF_sessionVars(running = "sessions" /\ Store!StorageStep(c))
                         /\ WF_sessionVars(running = "sessions" /\ Store!Resume(c))

Spec ==
  Init /\ [][Next]_<<running, enrollVars, retireOnly, firstOnly, sessionOnly>> /\ Fairness

-----------------------------------------------------------------------------
\* A commit is applied in the end, though any step after it may fail or the machine may
\* die in the middle: a durable enrollment, a durable bootstrap, for which recovery does
\* not need the browser, and a retirement, unless a power loss takes its record back
\* before it was acknowledged (recoverUnsafe and apply of the three coordinators).
CommitsSettle ==
  /\ (running = "enrollment" /\ Enrollment!CommitDurable(u1))
       ~> (running = "enrollment" /\ Enrollment!CommitApplied(u1))
  /\ (running = "retirement" /\ journal[r1].st = "committed")
       ~> (running = "retirement" /\ journal[r1].st # "committed")
  /\ (running = "bootstrap" /\ Bootstrap!CommitDurable)
       ~> (running = "bootstrap" /\ Bootstrap!CommitApplied)

\* Every session request is answered: an operation that fails does not stop the chain
\* behind it (withSessionFileQueue).
RequestsFinish ==
  \A c \in {c1, c2} :
    (running = "sessions" /\ proc[c] # "idle") ~> (running = "sessions" /\ proc[c] = "idle")
=============================================================================
