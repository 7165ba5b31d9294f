---------------------------- MODULE SessionStore ----------------------------
(***************************************************************************)
(* Server-side sessions: sessions.json behind FileStorageAdapter's queue   *)
(* (src/src/storage/file.ts), the eviction policy (session-policy.ts), the *)
(* SessionManager (core/session/index.ts) and the activity tracker         *)
(* (core/session/activity-tracking.ts).  A client is one request being     *)
(* served; every await ends a step, and a storage call is one link of the  *)
(* promise chain that withSessionFileQueue keeps per file.                 *)
(***************************************************************************)
EXTENDS Integers, FiniteSets

CONSTANTS
  Users, Clients,
  Nobody,              \* no promise in sessionFileTails
  Roles,               \* what session.user carries
  Strategy,            \* config.sessionStrategy
  MaxConcurrent,       \* config.maxConcurrentSessions
  SessionMaxAge,       \* the adapter's sessionMaxAge
  MaxAge,              \* the manager's config.maxAge
  ActivityThreshold,   \* the tracker's renewThresholdMs
  ActivityExtension,   \* the tracker's renewExtensionMs
  MinRenewalInterval,  \* the tracker's minRenewalIntervalMs
  Calls,               \* the entry points clients use
  Ids,                 \* bound: session ids randomBytes may draw
  MaxNow,              \* bound: clock
  MaxFaults            \* bound: I/O calls that fail

ASSUME SessionAssumption ==
  /\ Strategy \in {"single", "bounded"} /\ MaxConcurrent \in Nat \ {0}
  /\ SessionMaxAge \in Nat /\ MaxAge \in Nat /\ ActivityThreshold \in Nat
  /\ ActivityExtension \in Nat /\ MinRenewalInterval \in Nat
  /\ Ids \subseteq Nat \ {0} /\ Ids # {} /\ Roles \subseteq Nat
  /\ MaxNow \in Nat \ {0} /\ MaxFaults \in Nat /\ Nobody \notin Clients

VARIABLES
  sessions,     \* sessions.json, always a whole document (temp file, rename)
  now,          \* the wall clock
  minted,       \* session ids drawn
  tail,         \* sessionFileTails: whose operation is last in the chain
  ahead,        \* operations that must settle before each client's may run
  at,           \* each client's storage call: idle, queued, writing, settled, done
  call,         \* that call
  next,         \* the document it is about to write
  found,        \* what it resolves to: at most one session
  threw,        \* it rejected
  proc,         \* the manager operation that awaits it
  lastRenewal,  \* lastRenewalMap; 0 where there is no entry
  ever,         \* sessions that have been in the file: [id, userId]
  faults        \* I/O failures so far

queue == <<tail, ahead, at>>
frame == <<call, next, found, threw, proc>>
vars  == <<sessions, now, minted, queue, frame, lastRenewal, ever, faults>>

Times    == 1 .. MaxNow + SessionMaxAge + MaxAge + ActivityExtension
Sessions == [id : Ids, userId : Users, createdAt : 1 .. MaxNow, expires : Times,
             role : Roles]
Ops      == {"get", "insert", "expires", "user", "delete", "deleteUser", "cleanup"}
Asks     == [op : Ops, key : Ids \cup Users, value : Nat, id : Ids]
Procs    == {"idle", "last", "login", "validate", "setUser", "refresh", "activity",
             "renewed"}

TypeOK ==
  /\ sessions \in SUBSET Sessions
  /\ now \in 1 .. MaxNow
  /\ minted \in SUBSET Ids
  /\ tail \in Clients \cup {Nobody}
  /\ ahead \in [Clients -> SUBSET Clients]
  /\ at \in [Clients -> {"idle", "queued", "writing", "settled", "done"}]
  /\ call \in [Clients -> Asks]
  /\ next \in [Clients -> SUBSET Sessions]
  /\ found \in [Clients -> SUBSET Sessions]
  /\ threw \in [Clients -> BOOLEAN]
  /\ proc \in [Clients -> Procs]
  /\ lastRenewal \in [Ids -> 0 .. MaxNow]
  /\ ever \in SUBSET [id : Ids, userId : Users]
  /\ faults \in 0 .. MaxFaults

Ask(op, key, value, id) == [op |-> op, key |-> key, value |-> value, id |-> id]
AnyId == CHOOSE i \in Ids : TRUE
NoAsk == Ask("get", AnyId, 0, AnyId)

Init ==
  /\ sessions = {} /\ now = 1 /\ minted = {} /\ tail = Nobody /\ ever = {}
  /\ ahead = [c \in Clients |-> {}]
  /\ at = [c \in Clients |-> "idle"]
  /\ call = [c \in Clients |-> NoAsk]
  /\ next = [c \in Clients |-> {}]
  /\ found = [c \in Clients |-> {}]
  /\ threw = [c \in Clients |-> FALSE]
  /\ proc = [c \in Clients |-> "idle"]
  /\ lastRenewal = [i \in Ids |-> 0]
  /\ faults = 0

-----------------------------------------------------------------------------
(* session-policy.ts                                                       *)

Older(a, b) == a.createdAt < b.createdAt \/ (a.createdAt = b.createdAt /\ a.id < b.id)

\* fault: retains maxConcurrentSessions old sessions besides the new one
RetainsOneTooMany(S, s, t) ==
  LET own == {x \in S : x.userId = s.userId /\ x.expires > t}
  IN  {x \in S : x.userId # s.userId} \cup {s}
        \cup {x \in own : Cardinality({y \in own : Older(x, y)}) < MaxConcurrent}

\* fault: sorts newest first before taking the tail of the list
RetainsOldest(S, s, t) ==
  LET own == {x \in S : x.userId = s.userId /\ x.expires > t}
  IN  {x \in S : x.userId # s.userId} \cup {s}
        \cup {x \in own : Cardinality({y \in own : Older(y, x)}) < MaxConcurrent - 1}

\* the new session, the owner's newest unexpired ones up to the cap, and
\* everybody else's untouched
boundedSessions(S, s, t) ==
  LET own == {x \in S : x.userId = s.userId /\ x.expires > t}
  IN  {x \in S : x.userId # s.userId} \cup {s}
        \cup {x \in own : Cardinality({y \in own : Older(x, y)}) < MaxConcurrent - 1}

\* every stored id is a session of its own
assertStoredSessions(S) == \A a, b \in S : a.id = b.id => a = b

-----------------------------------------------------------------------------
(* file.ts: the queue and the operations it runs                           *)

Unsettled == {c \in Clients : at[c] \in {"queued", "writing"}}

\* withSessionFileQueue: chain behind the last operation, become the last one
Enqueue(c, a, p) ==
  /\ call' = [call EXCEPT ![c] = a]
  /\ proc' = [proc EXCEPT ![c] = p]
  /\ at' = [at EXCEPT ![c] = "queued"]
  /\ ahead' = [ahead EXCEPT ![c] =
                 IF tail \in Unsettled THEN ahead[tail] \cup {tail} ELSE {}]
  /\ tail' = c
  /\ found' = [found EXCEPT ![c] = {}]
  /\ threw' = [threw EXCEPT ![c] = FALSE]
  /\ UNCHANGED <<sessions, now, next, ever, faults>>

\* fault: previous.then(operation): a rejected operation never starts the next
SettleOnSuccessOnly(c, rejects) ==
  /\ at' = [at EXCEPT ![c] = "settled"]
  /\ threw' = [threw EXCEPT ![c] = rejects]
  /\ ahead' = IF rejects THEN ahead ELSE [d \in Clients |-> ahead[d] \ {c}]

\* previous.then(operation, operation): either way the next one starts
Settle(c, rejects) ==
  /\ at' = [at EXCEPT ![c] = "settled"]
  /\ threw' = [threw EXCEPT ![c] = rejects]
  /\ ahead' = [d \in Clients |-> ahead[d] \ {c}]

Named(i) == {s \in sessions : s.id = i}

Fresh(a) == [id |-> a.id, userId |-> a.key, createdAt |-> now,
             expires |-> now + SessionMaxAge, role |-> a.value]

\* what each mutator makes of the document it has just read
After(a) ==
  CASE a.op = "insert" ->
         IF Strategy = "bounded" THEN boundedSessions(sessions, Fresh(a), now)
         ELSE sessions \cup {Fresh(a)}
    [] a.op = "expires" ->
         {IF s.id = a.key THEN [s EXCEPT !.expires = a.value] ELSE s : s \in sessions}
    [] a.op = "user" ->
         {IF s.id = a.key THEN [s EXCEPT !.role = a.value] ELSE s : s \in sessions}
    [] a.op = "delete" -> {s \in sessions : s.id # a.key}
    [] a.op = "deleteUser" -> {s \in sessions : s.userId # a.key}
    [] a.op = "cleanup" -> {s \in sessions : s.expires > now}
    [] OTHER -> sessions

Running(c) == at[c] = "queued" /\ ahead[c] = {}

\* getAllSessions and getSession: nothing to write
ReadOnly(c) ==
  /\ Running(c) /\ call[c].op = "get"
  /\ found' = [found EXCEPT ![c] = Named(call[c].key)]
  /\ Settle(c, FALSE)
  /\ UNCHANGED <<sessions, now, minted, tail, call, next, proc, lastRenewal, ever, faults>>

\* updateSession of an id that is not there rejects before anything is written
Rejects(c) ==
  /\ Running(c) /\ call[c].op \in {"expires", "user"} /\ Named(call[c].key) = {}
  /\ Settle(c, TRUE)
  /\ UNCHANGED <<sessions, now, minted, tail, call, next, found, proc, lastRenewal, ever, faults>>

\* mutateSessions: read, change, check; the write is awaited
Mutate(c) ==
  /\ Running(c) /\ call[c].op # "get"
  /\ call[c].op \in {"expires", "user"} => Named(call[c].key) # {}
  /\ assertStoredSessions(After(call[c]))
  /\ next' = [next EXCEPT ![c] = After(call[c])]
  /\ found' = [found EXCEPT ![c] =
                 {s \in After(call[c]) : s.id = (IF call[c].op = "insert" THEN call[c].id
                                                 ELSE call[c].key)}]
  /\ at' = [at EXCEPT ![c] = "writing"]
  /\ UNCHANGED <<sessions, now, minted, tail, ahead, call, threw, proc, lastRenewal, ever, faults>>

Store(c) ==
  /\ sessions' = next[c]
  /\ ever' = ever \cup {[id |-> s.id, userId |-> s.userId] : s \in next[c]}

\* writeJsonFileAtomic: the rename replaces the document, then the directory syncs
Write(c) ==
  /\ at[c] = "writing" /\ Store(c) /\ Settle(c, FALSE)
  /\ next' = [next EXCEPT ![c] = {}]
  /\ UNCHANGED <<now, minted, tail, call, found, proc, lastRenewal, faults>>

\* the read or the write fails; after the rename the document is the new one
IoFails(c) ==
  /\ faults < MaxFaults /\ faults' = faults + 1
  /\ \/ Running(c) /\ UNCHANGED <<sessions, ever>>
     \/ at[c] = "writing" /\ (Store(c) \/ UNCHANGED <<sessions, ever>>)
  /\ Settle(c, TRUE)
  /\ next' = [next EXCEPT ![c] = {}]
  /\ UNCHANGED <<now, minted, tail, call, found, proc, lastRenewal>>

\* fault: the map entry is deleted whoever is last in the chain
CleanupAlways(c) ==
  /\ at[c] = "settled"
  /\ at' = [at EXCEPT ![c] = "done"]
  /\ tail' = Nobody
  /\ UNCHANGED <<sessions, now, minted, ahead, frame, lastRenewal, ever, faults>>

\* cleanup runs before the caller goes on and spares a later operation's entry
Cleanup(c) ==
  /\ at[c] = "settled"
  /\ at' = [at EXCEPT ![c] = "done"]
  /\ tail' = IF tail = c THEN Nobody ELSE tail
  /\ UNCHANGED <<sessions, now, minted, ahead, frame, lastRenewal, ever, faults>>

-----------------------------------------------------------------------------
(* SessionManager                                                          *)

Start(c, entry, a, p) ==
  /\ entry \in Calls /\ proc[c] = "idle" /\ Enqueue(c, a, p) /\ UNCHANGED lastRenewal

Resumes(c, p)  == at[c] = "done" /\ proc[c] = p
Answers(c, p)  == Resumes(c, p) /\ ~threw[c]
Expired(s)     == s.expires < now
Session(c)     == CHOOSE s \in found[c] : TRUE
GotLive(c)     == found[c] # {} /\ ~Expired(Session(c))

\* the operation resolves or rejects to its caller; its frame is gone
Finish(c) ==
  /\ at' = [at EXCEPT ![c] = "idle"]
  /\ proc' = [proc EXCEPT ![c] = "idle"]
  /\ call' = [call EXCEPT ![c] = NoAsk]
  /\ found' = [found EXCEPT ![c] = {}]
  /\ threw' = [threw EXCEPT ![c] = FALSE]
  /\ UNCHANGED <<sessions, now, minted, tail, ahead, next, ever, faults>>

createSession(c, u, r) ==
  /\ \E i \in Ids \ minted :
       /\ Start(c, "createSession",
                Ask(IF Strategy = "bounded" THEN "insert" ELSE "deleteUser", u, r, i),
                IF Strategy = "bounded" THEN "last" ELSE "login")
       /\ minted' = minted \cup {i}

\* single: the old sessions are gone, now insert the new one
InsertAfterDelete(c) ==
  /\ Answers(c, "login")
  /\ Enqueue(c, [call[c] EXCEPT !.op = "insert"], "last")
  /\ UNCHANGED <<minted, lastRenewal>>

getSession(c, i) ==
  Start(c, "getSession", Ask("get", i, 0, AnyId), "validate") /\ UNCHANGED minted
updateSessionUser(c, i, r) ==
  Start(c, "updateSessionUser", Ask("get", i, r, AnyId), "setUser") /\ UNCHANGED minted
refreshSession(c, i) ==
  Start(c, "refreshSession", Ask("get", i, 0, AnyId), "refresh") /\ UNCHANGED minted
removeSession(c, i) ==
  Start(c, "removeSession", Ask("delete", i, 0, AnyId), "last") /\ UNCHANGED minted
removeUserSessions(c, u) ==
  Start(c, "removeUserSessions", Ask("deleteUser", u, 0, AnyId), "last") /\ UNCHANGED minted
cleanupExpiredSessions(c) ==
  Start(c, "cleanupExpiredSessions", Ask("cleanup", AnyId, 0, AnyId), "last")
    /\ UNCHANGED minted

\* every manager operation on an id goes through getSession, which removes the
\* session it finds expired and answers null
DropExpired(c, p, then) ==
  /\ Answers(c, p) /\ found[c] # {} /\ Expired(Session(c))
  /\ Enqueue(c, [call[c] EXCEPT !.op = "delete"], then)
  /\ UNCHANGED <<minted, lastRenewal>>

WriteUser(c) ==
  /\ Answers(c, "setUser") /\ GotLive(c)
  /\ Enqueue(c, [call[c] EXCEPT !.op = "user"], "last")
  /\ UNCHANGED <<minted, lastRenewal>>

ExtendExpiry(c, p, then) ==
  /\ Answers(c, p) /\ GotLive(c)
  /\ Enqueue(c, [call[c] EXCEPT !.op = "expires", !.value = now + MaxAge], then)
  /\ UNCHANGED <<minted, lastRenewal>>

-----------------------------------------------------------------------------
(* activity-tracking.ts                                                    *)

trackActivityAndRenew(c, i) ==
  Start(c, "trackActivityAndRenew", Ask("get", i, 0, AnyId), "activity") /\ UNCHANGED minted

\* the tracker's shouldRenewSession: an entry of 0 is falsy, like no entry
shouldRenewSession(s) ==
  /\ s.expires - now <= ActivityThreshold
  /\ ~(lastRenewal[s.id] # 0 /\ now - lastRenewal[s.id] < MinRenewalInterval)

renewSessionOnActivity(c) ==
  /\ Answers(c, "activity") /\ found[c] # {} /\ shouldRenewSession(Session(c))
  /\ Enqueue(c, [call[c] EXCEPT !.op = "expires", !.value = now + ActivityExtension],
             "renewed")
  /\ UNCHANGED <<minted, lastRenewal>>

RememberRenewal(c) ==
  /\ Answers(c, "renewed")
  /\ lastRenewal' = [lastRenewal EXCEPT ![call[c].key] = now]
  /\ Finish(c)

cleanupRenewalTracking ==
  /\ lastRenewal' = [i \in Ids |-> IF lastRenewal[i] < now - MinRenewalInterval THEN 0
                                   ELSE lastRenewal[i]]
  /\ UNCHANGED <<sessions, now, minted, queue, frame, ever, faults>>

-----------------------------------------------------------------------------
(* Requests                                                                *)

Return(c) ==
  /\ at[c] = "done"
  /\ \/ proc[c] = "last"
     \/ threw[c] /\ proc[c] \in Procs \ {"idle", "last"}
     \/ proc[c] = "validate" /\ (found[c] = {} \/ GotLive(c))
     \/ proc[c] \in {"setUser", "refresh"} /\ found[c] = {}
     \/ proc[c] = "activity" /\ (found[c] # {} => ~shouldRenewSession(Session(c)))
  /\ Finish(c) /\ UNCHANGED lastRenewal

\* the wall clock may be set to anything
ClockMoves ==
  /\ now' \in (1 .. MaxNow) \ {now}
  /\ UNCHANGED <<sessions, minted, queue, frame, lastRenewal, ever, faults>>

Request(c) ==
  \/ \E u \in Users : removeUserSessions(c, u) \/ \E r \in Roles : createSession(c, u, r)
  \/ \E i \in minted : \/ getSession(c, i) \/ refreshSession(c, i) \/ removeSession(c, i)
                       \/ trackActivityAndRenew(c, i)
                       \/ \E r \in Roles : updateSessionUser(c, i, r)
  \/ cleanupExpiredSessions(c)

StorageStep(c) == ReadOnly(c) \/ Rejects(c) \/ Mutate(c) \/ Write(c) \/ Cleanup(c)

Resume(c) ==
  \/ InsertAfterDelete(c) \/ WriteUser(c) \/ renewSessionOnActivity(c) \/ RememberRenewal(c)
  \/ \E p \in {"validate", "setUser", "refresh"} : DropExpired(c, p, "last")
  \/ ExtendExpiry(c, "refresh", "last") \/ Return(c)

Next ==
  \/ \E c \in Clients : Request(c) \/ StorageStep(c) \/ IoFails(c) \/ Resume(c)
  \/ cleanupRenewalTracking \/ ClockMoves

\* Node runs what is queued and every file operation completes or fails
Fairness == \A c \in Clients : WF_vars(StorageStep(c)) /\ WF_vars(Resume(c))

Spec     == Init /\ [][Next]_vars
FairSpec == Spec /\ Fairness

-----------------------------------------------------------------------------
Contract == INSTANCE SessionContract
              WITH live <- {[id |-> s.id, userId |-> s.userId] : s \in sessions},
                   ever <- ever

\* The sessions.json that requests see is the store of SessionContract: however
\* the read-modify-writes of different requests and adapter instances interleave,
\* no update is lost, so a revoked, replaced or evicted session stays gone and
\* nobody loses a session to another user's login (file.ts, withSessionFileQueue).
KeepsContract == Contract!Spec

\* In bounded mode the file never holds more than maxConcurrentSessions sessions
\* of one user, expired ones included, also when logins race (session-policy.ts).
BoundedPerUser ==
  Strategy = "bounded" =>
    \A u \in Users : Cardinality({s \in sessions : s.userId = u}) <= MaxConcurrent

\* A login that evicts somebody's unexpired session in bounded mode evicts the
\* oldest created: every session of that user it keeps is the new one or younger
\* (session-policy.ts, boundedSessions).
EvictsOldest ==
  \A c \in Clients :
    (at[c] = "writing" /\ at'[c] = "settled" /\ call[c].op = "insert"
       /\ Strategy = "bounded")
    => \A gone \in sessions \ sessions', kept \in sessions \cap sessions' :
         (gone.userId = kept.userId /\ kept.userId = call[c].key
            /\ \E s \in found[c] : gone.expires > s.createdAt)
         => Older(gone, kept)

\* The eviction policy of bounded mode: both of these.
EvictionPolicy == [][BoundedPerUser' /\ EvictsOldest]_vars

\* types/config.ts: "Existing consumers remain single-session until explicitly
\* opted in": a user never has two sessions in single mode.
SingleSession ==
  Strategy = "single" =>
    \A u \in Users : Cardinality({s \in sessions : s.userId = u}) <= 1
=============================================================================
