-------------------------- MODULE SignedIn_proofs --------------------------
(***************************************************************************)
(* What a request of a signed-in browser meets, for every set of users,    *)
(* sessions, requests, calls and tokens: the in-memory session store       *)
(* implements SessionContract in either strategy, a guard allows only what *)
(* was right while the request ran, and a page's token stays in step.      *)
(***************************************************************************)
EXTENDS SignedIn, TLAPS

-----------------------------------------------------------------------------
(* The in-memory session store.                                            *)

\* What the refinement needs of a state: its type, one session per id, and that the
\* history remembers every session of the map with its owner.
IInv ==
  /\ TypeOK
  /\ \A s, t \in sessions : s.id = t.id => s = t
  /\ \A s \in sessions : [id |-> s.id, userId |-> s.userId] \in ever

\* the pairs of SessionContract that a set of sessions stands for
Pairs(S) == {[id |-> s.id, userId |-> s.userId] : s \in S}

\* Nobody has called the adapter yet: its map and its history are empty.
LEMMA InitInv == Init => IInv
BY MemorySessionsAssumption DEF Init, IInv, TypeOK

\* Keeping some of the sessions keeps the invariant's facts about them.
LEMMA SubsetKeeps ==
  ASSUME IInv, sessions' \subseteq sessions, ever' = ever, now' \in 0 .. MaxNow,
         rest' \in [Tasks -> Rests \cup {None}]
  PROVE  IInv'
BY DEF IInv, TypeOK

\* A session replaced by one of its id and owner keeps them as well.
LEMMA UpdateKeeps ==
  ASSUME IInv, NEW new \in Session, updateSession(new),
         \A s \in sessions : s.id = new.id => s.userId = new.userId,
         ever' = ever, now' = now, rest' \in [Tasks -> Rests \cup {None}]
  PROVE  IInv' /\ Pairs(sessions') = Pairs(sessions)
<1>1. sessions' = {IF s.id = new.id THEN new ELSE s : s \in sessions}  BY DEF updateSession
<1>2. \A s \in sessions : s \in Session  BY DEF IInv, TypeOK
<1>3. sessions' \in SUBSET Session  BY <1>1, <1>2
<1>4. ASSUME NEW s \in sessions', NEW t \in sessions', s.id = t.id  PROVE s = t
  BY <1>1, <1>2, <1>4 DEF IInv
<1>5. ASSUME NEW s \in sessions'  PROVE \E x \in sessions : x.id = s.id /\ x.userId = s.userId
  BY <1>1, <1>2
<1>6. ASSUME NEW x \in sessions  PROVE \E s \in sessions' : x.id = s.id /\ x.userId = s.userId
  <2>1. (IF x.id = new.id THEN new ELSE x) \in sessions'  BY <1>1
  <2>. QED  BY <2>1
<1>7. \A s \in sessions' : [id |-> s.id, userId |-> s.userId] \in ever  BY <1>5 DEF IInv
<1>8. Pairs(sessions') \subseteq Pairs(sessions)  BY <1>5 DEF Pairs
<1>9. Pairs(sessions) \subseteq Pairs(sessions')  BY <1>6 DEF Pairs
<1>. QED  BY <1>3, <1>4, <1>7, <1>8, <1>9 DEF IInv, TypeOK

\* What createSession and createSessionWithPolicy leave of the map.
LEMMA InsertEffect ==
  ASSUME IInv, NEW u \in Users, NEW p \in Profiles, NEW bounded \in BOOLEAN,
         Insert(u, p, bounded), now' = now, rest' \in [Tasks -> Rests \cup {None}]
  PROVE  IInv' /\ Contract!Create
<1>1. PICK i \in Fresh :
        /\ sessions' = IF bounded THEN boundedSessions(newSession(i, u, p))
                       ELSE sessions \cup {newSession(i, u, p)}
        /\ ever' = ever \cup {[id |-> i, userId |-> u]}
  BY DEF Insert
<1>. DEFINE n == newSession(i, u, p)
<1>2. i \in Ids /\ \A e \in ever : e.id # i  BY DEF Fresh
<1>3. n \in Session /\ n.id = i /\ n.userId = u
  <2>1. now \in 0 .. MaxNow /\ now + SevenDays \in 0 .. MaxNow + SevenDays + MaxAge
    BY MemorySessionsAssumption DEF IInv, TypeOK
  <2>. QED  BY <1>2, <2>1 DEF newSession, Session
<1>. HIDE DEF n
<1>4. /\ n \in sessions' /\ sessions' \subseteq sessions \cup {n}
      /\ \A s \in sessions : s.userId # u => s \in sessions'
  BY <1>1, <1>3 DEF boundedSessions, n
<1>5. \A s \in sessions : s.id # i
  BY <1>2 DEF IInv
<1>6. IInv'
  <2>1. TypeOK'  BY <1>1, <1>2, <1>3, <1>4 DEF IInv, TypeOK
  <2>2. ASSUME NEW s \in sessions', NEW t \in sessions', s.id = t.id  PROVE s = t
    BY <1>3, <1>4, <1>5, <2>2 DEF IInv
  <2>3. ASSUME NEW s \in sessions'  PROVE [id |-> s.id, userId |-> s.userId] \in ever'
    BY <1>1, <1>3, <1>4 DEF IInv
  <2>. QED  BY <2>1, <2>2, <2>3 DEF IInv
<1>7. Contract!Create
  <2>1. [id |-> i, userId |-> u] \in Pairs(sessions')  BY <1>3, <1>4 DEF Pairs
  <2>2. Pairs(sessions') \subseteq Pairs(sessions) \cup {[id |-> i, userId |-> u]}
    BY <1>3, <1>4 DEF Pairs
  <2>3. ASSUME NEW e \in Pairs(sessions) \ Pairs(sessions')  PROVE e.userId = u
    <3>1. PICK s \in sessions : e = [id |-> s.id, userId |-> s.userId]  BY <2>3 DEF Pairs
    <3>2. s \notin sessions'  BY <2>3, <3>1 DEF Pairs
    <3>. QED  BY <1>4, <3>1, <3>2
  <2>. QED  BY <1>1, <1>2, <2>1, <2>2, <2>3 DEF Contract!Create, Pairs
<1>. QED  BY <1>6, <1>7

\* The session an update falls on: the stored one of the id, of the same owner.
LEMMA StoredIsOwn ==
  ASSUME IInv, NEW s \in Session
  PROVE  /\ Stored(s) \in Session
         /\ \A x \in sessions : x.id = Stored(s).id => x.userId = Stored(s).userId
<1>1. CASE \E x \in sessions : x.id = s.id
  <2>1. Stored(s) \in sessions  BY <1>1 DEF Stored
  <2>. QED  BY <2>1 DEF IInv, TypeOK
<1>2. CASE ~\E x \in sessions : x.id = s.id
  BY <1>2 DEF Stored
<1>. QED  BY <1>1, <1>2

\* Every step of the adapter, of the manager and of the clock keeps the invariant and
\* is a step of the contract.
LEMMA StepRefines ==
  ASSUME IInv, [Next]_vars
  PROVE  IInv' /\ (Contract!Next \/ (Pairs(sessions') = Pairs(sessions) /\ ever' = ever))
<1>1. ASSUME sessions' \subseteq sessions, ever' = ever  PROVE Contract!Next
  <2>1. Pairs(sessions') \subseteq Pairs(sessions)  BY <1>1 DEF Pairs
  <2>. QED  BY <1>1, <2>1 DEF Contract!Next, Contract!End, Pairs
<1>2. rest \in [Tasks -> Rests \cup {None}] /\ now \in 0 .. MaxNow /\ sessions \in SUBSET Session
  BY DEF IInv, TypeOK
<1>3. ASSUME NEW k \in Tasks, NEW u \in Users, NEW p \in Profiles, createSession(k, u, p)
      PROVE  IInv' /\ Contract!Next
  <2>1. CASE Strategy = "bounded" /\ rest[k] = None /\ Insert(u, p, TRUE) /\ UNCHANGED <<now, rest>>
    BY <1>2, <2>1, InsertEffect DEF Contract!Next
  <2>2. CASE /\ Strategy = "single" /\ Await(k, [op |-> "insert", userId |-> u, user |-> p])
             /\ deleteUserSessions(u) /\ UNCHANGED <<now, ever>>
    <3>1. [op |-> "insert", userId |-> u, user |-> p] \in Rests  BY DEF Rests
    <3>2. rest' \in [Tasks -> Rests \cup {None}]  BY <1>2, <2>2, <3>1 DEF Await
    <3>3. sessions' \subseteq sessions  BY <2>2 DEF deleteUserSessions
    <3>. QED  BY <1>1, <1>2, <2>2, <3>2, <3>3, SubsetKeeps
  <2>. QED  BY <1>3, <2>1, <2>2 DEF createSession
<1>4. ASSUME NEW k \in Tasks, InsertAfterDelete(k)  PROVE IInv' /\ Contract!Next
  <2>1. rest[k] \in Rests /\ rest[k].op = "insert"  BY <1>2, <1>4 DEF InsertAfterDelete
  <2>2. rest[k].userId \in Users /\ rest[k].user \in Profiles  BY <2>1 DEF Rests
  <2>3. rest' \in [Tasks -> Rests \cup {None}]  BY <1>2, <1>4 DEF InsertAfterDelete, Return
  <2>. QED  BY <1>4, <2>2, <2>3, InsertEffect DEF InsertAfterDelete, Contract!Next
<1>5. ASSUME NEW k \in Tasks,
             Forget(k) \/ removeSession(k) \/ removeUserSessions(k) \/ cleanupExpiredSessions(k)
      PROVE  IInv' /\ Contract!Next
  <2>1. sessions' \subseteq sessions /\ UNCHANGED <<now, rest, ever>>
    BY <1>5 DEF Forget, removeSession, removeUserSessions, cleanupExpiredSessions, deleteSession,
                deleteUserSessions
  <2>. QED  BY <1>1, <1>2, <2>1, SubsetKeeps
<1>6. ASSUME NEW k \in Tasks, Find(k)  PROVE IInv' /\ Contract!Next
  <2>1. UNCHANGED <<sessions, now, ever>>  BY <1>6 DEF Find
  <2>2. PICK w \in Rests : rest' = [rest EXCEPT ![k] = w]
    <3>1. PICK s \in sessions :
            \/ \E op \in {"get", "refresh"} : Await(k, [op |-> op, found |-> s])
            \/ \E f \in Fields, v \in Values :
                 Await(k, [op |-> "setUser", found |-> s, field |-> f, value |-> v])
      BY <1>6 DEF Find
    <3>2. s \in Session  BY <1>2
    <3>3. \A op \in {"get", "refresh"} : [op |-> op, found |-> s] \in Rests  BY <3>2 DEF Rests
    <3>4. \A f \in Fields, v \in Values :
            [op |-> "setUser", found |-> s, field |-> f, value |-> v] \in Rests
      BY <3>2 DEF Rests
    <3>. QED  BY <3>1, <3>3, <3>4 DEF Await
  <2>3. rest' \in [Tasks -> Rests \cup {None}]  BY <1>2, <2>2
  <2>. QED  BY <1>1, <1>2, <2>1, <2>3, SubsetKeeps
<1>7. ASSUME NEW k \in Tasks, getSession(k)  PROVE IInv' /\ Contract!Next
  <2>1. sessions' \subseteq sessions /\ UNCHANGED <<now, ever>>
    BY <1>7 DEF getSession, deleteSession
  <2>2. rest' \in [Tasks -> Rests \cup {None}]  BY <1>2, <1>7 DEF getSession, Return
  <2>. QED  BY <1>1, <1>2, <2>1, <2>2, SubsetKeeps
<1>8. ASSUME NEW k \in Tasks, refreshSession(k) \/ updateSessionUser(k)
      PROVE  IInv' /\ Pairs(sessions') = Pairs(sessions) /\ ever' = ever
  <2>1. rest' \in [Tasks -> Rests \cup {None}] /\ UNCHANGED <<now, ever>>
    BY <1>2, <1>8 DEF refreshSession, updateSessionUser, Return
  <2>2. rest[k] \in Rests /\ rest[k].op \in {"refresh", "setUser"}
    BY <1>2, <1>8 DEF refreshSession, updateSessionUser
  <2>3. rest[k].found \in Session  BY <2>2 DEF Rests
  <2>. DEFINE x == Stored(rest[k].found)
  <2>4. x \in Session /\ \A s \in sessions : s.id = x.id => s.userId = x.userId
    BY <2>3, StoredIsOwn
  <2>5. PICK new \in Session : updateSession(new) /\ new.id = x.id /\ new.userId = x.userId
    <3>1. CASE refreshSession(k)
      <4>1. now + MaxAge \in 0 .. MaxNow + SevenDays + MaxAge  BY <1>2, MemorySessionsAssumption
      <4>2. updateSession([x EXCEPT !.expires = now + MaxAge])  BY <3>1 DEF refreshSession
      <4>. HIDE DEF x
      <4>3. \A t \in 0 .. MaxNow + SevenDays + MaxAge :
              /\ [x EXCEPT !.expires = t] \in Session
              /\ [x EXCEPT !.expires = t].id = x.id /\ [x EXCEPT !.expires = t].userId = x.userId
        BY <2>4 DEF Session
      <4>. QED  BY <4>1, <4>2, <4>3
    <3>2. CASE updateSessionUser(k)
      <4>1. rest[k].op = "setUser"  BY <3>2 DEF updateSessionUser
      <4>2. rest[k].found.user \in Profiles /\ rest[k].field \in Fields /\ rest[k].value \in Values
        BY <2>2, <2>3, <4>1 DEF Rests, Session
      <4>3. PICK q \in Profiles : updateSession([x EXCEPT !.user = q])
        <5>1. [rest[k].found.user EXCEPT ![rest[k].field] = rest[k].value] \in Profiles
          BY <4>2 DEF Profiles
        <5>. QED  BY <3>2, <5>1 DEF updateSessionUser
      <4>. HIDE DEF x
      <4>4. /\ [x EXCEPT !.user = q] \in Session
            /\ [x EXCEPT !.user = q].id = x.id /\ [x EXCEPT !.user = q].userId = x.userId
        BY <2>4 DEF Session
      <4>. QED  BY <4>3, <4>4
    <3>. QED  BY <1>8, <3>1, <3>2
  <2>6. \A s \in sessions : s.id = new.id => s.userId = new.userId  BY <2>4, <2>5
  <2>. QED  BY <2>1, <2>5, <2>6, UpdateKeeps
<1>9. ASSUME ClockMoves \/ UNCHANGED vars  PROVE IInv' /\ Contract!Next
  <2>1. UNCHANGED <<sessions, rest, ever>> /\ now' \in 0 .. MaxNow
    BY <1>2, <1>9 DEF ClockMoves, vars
  <2>. QED  BY <1>1, <1>2, <2>1, SubsetKeeps
<1>. QED  BY <1>3, <1>4, <1>5, <1>6, <1>7, <1>8, <1>9 DEF Next

\* The adapter's map is always a set of well-formed sessions, one per id, each of them
\* remembered (memory.ts, the methods of the session section).
THEOREM TypeCorrect == Spec => []TypeOK
<1>1. IInv /\ [Next]_vars => IInv'  BY StepRefines
<1>2. IInv => TypeOK  BY DEF IInv
<1>. QED  BY <1>1, <1>2, InitInv, PTL DEF Spec

\* The in-memory adapter under the SessionManager implements the session store's
\* contract: no removed, replaced or evicted session comes back, and a login ends
\* nobody else's (memory.ts and core/session/index.ts).
THEOREM Refinement == Spec => KeepsContract
<1>1. Init => Contract!Init  BY DEF Init, Contract!Init
<1>2. IInv /\ [Next]_vars => IInv'  BY StepRefines
<1>3. IInv /\ [Next]_vars => [Contract!Next]_<<Pairs(sessions), ever>>  BY StepRefines
<1>4. IInv /\ [Next]_vars =>
        [Contract!Next]_<<{[id |-> s.id, userId |-> s.userId] : s \in sessions}, ever>>
  BY <1>3 DEF Pairs
<1>. QED  BY <1>1, <1>2, <1>4, InitInv, PTL DEF Spec, KeepsContract, Contract!Spec

-----------------------------------------------------------------------------
(* Requests.                                                               *)

\* What a request holds was right when it was read: its session was live, carries the owner and
\* a role of the session's history, its user's permissions are among those held since it began.
SessionRight(q) ==
  /\ sid[q] \in Cookies /\ owner[sid[q]] # None
  /\ locals[q].session.userId = owner[sid[q]] /\ locals[q].session.role \in had[sid[q]]
  /\ live[q] = TRUE

VerdictRight(q) ==
  /\ live[q] = TRUE /\ sid[q] \in Cookies /\ owner[sid[q]] # None
  /\ verdict[q].by = "permission" => verdict[q].ask \in held[q]
  /\ verdict[q].by = "role" =>
       \E s \in had[sid[q]] : Hook!hasEqualOrHigherRole(s, verdict[q].ask)
  /\ verdict[q].by = "manage" =>
       \E s \in had[sid[q]] : Hook!canManageRole(s, Hook!Exact(verdict[q].ask))

RequestRight(q) ==
  /\ pc[q] \in {"idle", "asked"} => locals[q] = Hook!NoLocals /\ verdict[q] = Hook!Undecided
  /\ pc[q] \notin {"idle", "guard", "done"} => sid[q] \in Cookies
  /\ pc[q] \in {"found", "loaded", "renew", "renewDrop"} => locals[q].session # None
  /\ locals[q].session # None => SessionRight(q)
  /\ locals[q].user # None => Hook!Grants(locals[q].user) \subseteq held[q]
  /\ verdict[q].outcome = "allowed" => VerdictRight(q)

\* A stored session, and a projection under way, carry a role of the session's history.
StoreRight ==
  /\ \A s \in Cookies : store[s] # None =>
       owner[s] # None /\ store[s].userId = owner[s] /\ store[s].role \in had[s]
  /\ project # None => owner[project.sid] # None /\ project.role \in had[project.sid]

HookTyped ==
  /\ Hook!TypeOK /\ verdict = [q \in Requests |-> verdict[q]]
  /\ held = [q \in Requests |-> held[q]] /\ live = [q \in Requests |-> live[q]]
  /\ had = [s \in Cookies |-> had[s]]

HookInv == HookTyped /\ StoreRight /\ \A q \in Requests : RequestRight(q)

\* What is recorded in a step: an account's permissions and role join the history of the
\* requests and sessions it is of, and nothing leaves it.
Recorded ==
  /\ held' = [q \in Requests |-> held'[q]] /\ live' = [q \in Requests |-> live'[q]]
  /\ had' = [s \in Cookies |-> had'[s]]
  /\ \A s \in Cookies : owner[s] # None => had[s] \subseteq had'[s]
  /\ \A s \in Cookies : owner'[s] # None /\ account'[owner'[s]] # None =>
       account'[owner'[s]].role \in had'[s]
  /\ \A q \in Requests : pc'[q] # "idle" => held[q] \subseteq held'[q]
  /\ \A q \in Requests : pc'[q] # "idle" /\ sid'[q] # None /\ owner'[sid'[q]] # None =>
       Hook!Grants(account'[owner'[sid'[q]]]) \subseteq held'[q]
  /\ \A q \in Requests : pc[q] # "asked" /\ pc'[q] # "idle" /\ live[q] = TRUE => live'[q] = TRUE
  /\ \A q \in Requests : pc[q] = "asked" /\ pc'[q] # "asked" /\ Hook!Live(sid[q]) => live'[q] = TRUE

\* A session keeps its owner.
LEMMA RecordKeeps ==
  ASSUME Hook!Record, \A s \in Cookies : owner[s] # None => owner'[s] = owner[s]
  PROVE  Recorded
<1>1. /\ held' = [q \in Requests |->
           IF pc'[q] = "idle" THEN {}
           ELSE held[q] \cup (IF sid'[q] = None \/ owner'[sid'[q]] = None THEN {}
                              ELSE Hook!Grants(account'[owner'[sid'[q]]]))]
      /\ live' = [q \in Requests |->
           IF pc[q] = "asked" /\ pc'[q] # "asked"
           THEN store[sid[q]] # None /\ store[sid[q]].expires >= clock
           ELSE live[q] /\ pc'[q] # "idle"]
      /\ had' = [s \in Cookies |->
           IF owner'[s] = None THEN {}
           ELSE had[s] \cup (IF account'[owner'[s]] = None THEN {}
                             ELSE {account'[owner'[s]].role})]
  BY DEF Hook!Record
<1>2. \A s \in Cookies : owner[s] # None => had[s] \subseteq had'[s]  BY <1>1
<1>3. \A s \in Cookies : owner'[s] # None /\ account'[owner'[s]] # None =>
        account'[owner'[s]].role \in had'[s]
  BY <1>1
<1>4. \A q \in Requests : pc'[q] # "idle" => held[q] \subseteq held'[q]  BY <1>1
<1>5. \A q \in Requests : pc'[q] # "idle" /\ sid'[q] # None /\ owner'[sid'[q]] # None =>
        Hook!Grants(account'[owner'[sid'[q]]]) \subseteq held'[q]
  BY <1>1
<1>6. \A q \in Requests : pc[q] # "asked" /\ pc'[q] # "idle" /\ live[q] = TRUE => live'[q] = TRUE
  BY <1>1
<1>7. \A q \in Requests : pc[q] = "asked" /\ pc'[q] # "asked" /\ Hook!Live(sid[q]) => live'[q] = TRUE
  BY <1>1 DEF Hook!Live
<1>8. /\ held' = [q \in Requests |-> held'[q]] /\ live' = [q \in Requests |-> live'[q]]
      /\ had' = [s \in Cookies |-> had'[s]]
  BY <1>1
<1>. QED  BY <1>2, <1>3, <1>4, <1>5, <1>6, <1>7, <1>8 DEF Recorded

\* A request that does not move keeps what it holds.
LEMMA RequestRests ==
  ASSUME HookInv, Recorded, \A s \in Cookies : owner[s] # None => owner'[s] = owner[s],
         NEW q \in Requests, pc'[q] = pc[q], sid'[q] = sid[q], locals'[q] = locals[q],
         verdict'[q] = verdict[q]
  PROVE  RequestRight(q)'
<1>. USE DEF HookInv
<1>1. pc[q] \in {"idle", "asked"} => locals[q].session = None /\ locals[q].user = None
                                       /\ verdict[q].outcome = "none"
  BY DEF RequestRight, Hook!NoLocals, Hook!Undecided
<1>2. locals[q].session # None => SessionRight(q)'
  <2>1. SUFFICES ASSUME locals[q].session # None  PROVE SessionRight(q)'  OBVIOUS
  <2>2. SessionRight(q) /\ pc[q] \notin {"idle", "asked"}  BY <1>1, <2>1 DEF RequestRight
  <2>. QED  BY <2>2 DEF SessionRight, Recorded
<1>3. locals[q].user # None => (Hook!Grants(locals[q].user) \subseteq held[q])'
  <2>1. SUFFICES ASSUME locals[q].user # None
                 PROVE  (Hook!Grants(locals[q].user) \subseteq held[q])'
    OBVIOUS
  <2>2. Hook!Grants(locals[q].user) \subseteq held[q] /\ pc'[q] # "idle"
    BY <1>1, <2>1 DEF RequestRight
  <2>. QED  BY <2>2 DEF Recorded, Hook!Grants
<1>4. verdict[q].outcome = "allowed" => VerdictRight(q)'
  <2>1. SUFFICES ASSUME verdict[q].outcome = "allowed"  PROVE VerdictRight(q)'  OBVIOUS
  <2>2. VerdictRight(q) /\ pc[q] \notin {"idle", "asked"}  BY <1>1, <2>1 DEF RequestRight
  <2>3. had[sid[q]] \subseteq had'[sid'[q]] /\ held[q] \subseteq held'[q] /\ live'[q] = TRUE
          /\ owner'[sid'[q]] # None
    BY <2>2 DEF VerdictRight, Recorded
  <2>4. verdict'[q].by = "permission" => verdict'[q].ask \in held'[q]
    BY <2>2, <2>3 DEF VerdictRight
  <2>5. verdict[q].by = "role" =>
          \E s \in had'[sid'[q]] : Hook!hasEqualOrHigherRole(s, verdict[q].ask)
    BY <2>2, <2>3 DEF VerdictRight
  <2>6. verdict[q].by = "manage" =>
          \E s \in had'[sid'[q]] : Hook!canManageRole(s, Hook!Exact(verdict[q].ask))
    BY <2>2, <2>3 DEF VerdictRight
  <2>. QED  BY <2>2, <2>3, <2>4, <2>5, <2>6 DEF VerdictRight, Hook!hasEqualOrHigherRole, Hook!Rank,
               Hook!canManageRole, Hook!Exact
<1>5. (pc[q] \in {"idle", "asked"} => locals[q] = Hook!NoLocals /\ verdict[q] = Hook!Undecided)'
  BY DEF RequestRight, Hook!NoLocals, Hook!Undecided
<1>. QED  BY <1>2, <1>3, <1>4, <1>5 DEF RequestRight

\* What is stored stays right when it is what was stored, or fits the history by now.
LEMMA StoreKeeps ==
  ASSUME HookInv, Recorded, \A s \in Cookies : owner[s] # None => owner'[s] = owner[s],
         \A s \in Cookies : store'[s] # None =>
           \/ /\ store[s] # None
              /\ store'[s].userId = store[s].userId /\ store'[s].role = store[s].role
           \/ owner'[s] # None /\ store'[s].userId = owner'[s] /\ store'[s].role \in had'[s],
         project' # None =>
           \/ project # None /\ project'.sid = project.sid /\ project'.role = project.role
           \/ owner'[project'.sid] # None /\ project'.role \in had'[project'.sid]
  PROVE  StoreRight'
<1>. USE DEF HookInv, StoreRight
<1>1. ASSUME NEW s \in Cookies, store'[s] # None
      PROVE  owner'[s] # None /\ store'[s].userId = owner'[s] /\ store'[s].role \in had'[s]
  BY <1>1 DEF Recorded
<1>2. ASSUME project' # None
      PROVE  owner'[project'.sid] # None /\ project'.role \in had'[project'.sid]
  <2>1. CASE project # None /\ project'.sid = project.sid /\ project'.role = project.role
    <3>1. project.sid \in Cookies  BY <2>1 DEF HookTyped, Hook!TypeOK
    <3>. QED  BY <2>1, <3>1 DEF Recorded
  <2>. QED  BY <1>2, <2>1
<1>. QED  BY <1>1, <1>2

\* The types of the stored sessions and accounts.
RoleStrings == {Hook!Exact(n) : n \in RolesUsed}
StoredUser  == [role : RoleStrings, permissions : SUBSET Asked]
StoredSession == [userId : People, role : RoleStrings, expires : Nat]
Projection  == [sid : Cookies, role : RoleStrings, checked : BOOLEAN]

LEMMA HookTypes ==
  HookTyped <=>
    /\ account \in [People -> StoredUser \cup {None}]
    /\ store \in [Cookies -> StoredSession \cup {None}] /\ owner \in [Cookies -> People \cup {None}]
    /\ pc \in [Requests -> Hook!Where] /\ sid \in [Requests -> Cookies \cup {None}]
    /\ locals \in [Requests -> [session : StoredSession \cup {None}, user : StoredUser \cup {None}]]
    /\ project \in Projection \cup {None}
    /\ clock \in 0 .. MaxClock /\ changes \in 0 .. MaxChanges
    /\ verdict = [q \in Requests |-> verdict[q]]
    /\ held = [q \in Requests |-> held[q]] /\ live = [q \in Requests |-> live[q]]
    /\ had = [s \in Cookies |-> had[s]]
BY DEF HookTyped, Hook!TypeOK, RoleStrings, StoredUser, StoredSession, Projection, Hook!Accounts,
   Hook!Sessions

\* Accounts and sessions change around the requests: a login, a removal, a projection, a change
\* of an account, and the clock.
LEMMA OthersMove ==
  ASSUME HookInv, Hook!Record,
         \/ \E u \in People : Hook!ChangeAccount(u) \/ \E s \in Cookies : Hook!Login(u, s)
         \/ \E s \in Cookies : Hook!removeSession(s) \/ Hook!ReadForProjection(s)
         \/ Hook!updateSessionUser \/ Hook!WriteProjection \/ Hook!Tick
  PROVE  HookInv'
<1>. USE DEF HookInv
<1>0. /\ account \in [People -> StoredUser \cup {None}]
      /\ store \in [Cookies -> StoredSession \cup {None}] /\ owner \in [Cookies -> People \cup {None}]
      /\ project \in Projection \cup {None} /\ clock \in 0 .. MaxClock /\ changes \in 0 .. MaxChanges
      /\ clock \in Nat /\ changes \in Nat /\ clock + MaxAge \in Nat
      /\ MaxClock \in Nat /\ MaxChanges \in Nat
  <2>1. MaxAge \in Nat /\ MaxClock \in Nat /\ MaxChanges \in Nat
    BY SignedInAssumption DEF Hook!RequestAssumption
  <2>. QED  BY <2>1, HookTypes
<1>1. UNCHANGED <<pc, sid, locals, verdict>>
  BY DEF Hook!ChangeAccount, Hook!Login, Hook!removeSession, Hook!ReadForProjection,
     Hook!updateSessionUser, Hook!WriteProjection, Hook!Tick, Hook!request
<1>2. ASSUME \A s \in Cookies : owner[s] # None => owner'[s] = owner[s],
             account' \in [People -> StoredUser \cup {None}],
             store' \in [Cookies -> StoredSession \cup {None}], owner' \in [Cookies -> People \cup {None}],
             project' \in Projection \cup {None}, clock' \in 0 .. MaxClock, changes' \in 0 .. MaxChanges,
             Recorded => StoreRight'
      PROVE  HookInv'
  <2>1. Recorded  BY <1>2, RecordKeeps
  <2>2. HookTyped'
    <3>1. /\ held' = [q \in Requests |-> held'[q]] /\ live' = [q \in Requests |-> live'[q]]
          /\ had' = [s \in Cookies |-> had'[s]]
      BY <2>1 DEF Recorded
    <3>. QED  BY <1>1, <1>2, <3>1, HookTypes DEF HookTyped, Hook!TypeOK, RoleStrings, StoredUser,
                 StoredSession, Projection, Hook!Accounts, Hook!Sessions
  <2>3. \A q \in Requests : RequestRight(q)'  BY <1>1, <1>2, <2>1, RequestRests
  <2>. QED  BY <1>2, <2>1, <2>2, <2>3
<1>3. ASSUME NEW u \in People, Hook!ChangeAccount(u)  PROVE HookInv'
  <2>1. /\ \E a \in StoredUser \cup {None} : account' = [account EXCEPT ![u] = a]
        /\ changes < MaxChanges /\ changes' = changes + 1 /\ UNCHANGED <<store, owner, project, clock>>
    BY <1>3 DEF Hook!ChangeAccount, Hook!Accounts, StoredUser, RoleStrings
  <2>2. account' \in [People -> StoredUser \cup {None}] /\ changes' \in 0 .. MaxChanges
    BY <1>0, <2>1
  <2>3. Recorded => StoreRight'  BY <2>1, StoreKeeps
  <2>. QED  BY <1>0, <1>2, <2>1, <2>2, <2>3
<1>4. ASSUME NEW u \in People, NEW s \in Cookies, Hook!Login(u, s)  PROVE HookInv'
  <2>1. PICK new \in StoredSession :
          /\ new.userId = u /\ new.role = account[u].role /\ store' = [store EXCEPT ![s] = new]
    <3>1. account[u].role \in RoleStrings  BY <1>0, <1>4 DEF Hook!Login, StoredUser
    <3>2. [userId |-> u, role |-> account[u].role, expires |-> clock + MaxAge] \in StoredSession
      BY <1>0, <3>1 DEF StoredSession
    <3>. QED  BY <1>4, <3>2 DEF Hook!Login
  <2>2. /\ account[u] # None /\ owner[s] = None /\ owner' = [owner EXCEPT ![s] = u]
        /\ UNCHANGED <<account, project, clock, changes>>
    BY <1>4 DEF Hook!Login
  <2>3. \A x \in Cookies : owner[x] # None => owner'[x] = owner[x]  BY <1>0, <2>2
  <2>4. store' \in [Cookies -> StoredSession \cup {None}] /\ owner' \in [Cookies -> People \cup {None}]
    BY <1>0, <2>1, <2>2
  <2>5. Recorded => StoreRight'
    <3>. SUFFICES ASSUME Recorded PROVE StoreRight'  OBVIOUS
    <3>1. u # None  BY SignedInAssumption DEF Hook!RequestAssumption
    <3>2. owner'[s] = u /\ store'[s] = new  BY <1>0, <2>1, <2>2
    <3>3. new.role \in had'[s]  BY <2>1, <2>2, <3>1, <3>2 DEF Recorded
    <3>4. \A x \in Cookies : x # s => store'[x] = store[x]  BY <1>0, <2>1
    <3>. QED  BY <2>1, <2>2, <2>3, <3>1, <3>2, <3>3, <3>4, StoreKeeps
  <2>. QED  BY <1>0, <1>2, <2>2, <2>3, <2>4, <2>5
<1>5. ASSUME NEW s \in Cookies, Hook!removeSession(s)  PROVE HookInv'
  <2>1. store' = [store EXCEPT ![s] = None] /\ UNCHANGED <<account, owner, project, clock, changes>>
    BY <1>5 DEF Hook!removeSession
  <2>2. Recorded => StoreRight'
    <3>1. \A x \in Cookies : store'[x] # None => store[x] # None /\ store'[x] = store[x]
      BY <1>0, <2>1
    <3>. QED  BY <2>1, <3>1, StoreKeeps
  <2>3. store' \in [Cookies -> StoredSession \cup {None}]  BY <1>0, <2>1
  <2>. QED  BY <1>0, <1>2, <2>1, <2>2, <2>3
<1>6. ASSUME NEW s \in Cookies, Hook!ReadForProjection(s)  PROVE HookInv'
  <2>1. PICK new \in Projection :
          project' = new /\ new.sid = s /\ new.role = account[owner[s]].role
    <3>1. owner[s] \in People  BY <1>0, <1>6 DEF Hook!ReadForProjection
    <3>2. account[owner[s]].role \in RoleStrings
      BY <1>0, <1>6, <3>1 DEF Hook!ReadForProjection, StoredUser
    <3>3. [sid |-> s, role |-> account[owner[s]].role, checked |-> FALSE] \in Projection
      BY <3>2 DEF Projection
    <3>. QED  BY <1>6, <3>3 DEF Hook!ReadForProjection
  <2>2. /\ owner[s] # None /\ account[owner[s]] # None
        /\ UNCHANGED <<account, store, owner, clock, changes>>
    BY <1>6 DEF Hook!ReadForProjection
  <2>3. Recorded => StoreRight'
    <3>. SUFFICES ASSUME Recorded PROVE StoreRight'  OBVIOUS
    <3>1. new.role \in had'[s]  BY <2>1, <2>2 DEF Recorded
    <3>. QED  BY <2>1, <2>2, <3>1, StoreKeeps
  <2>. QED  BY <1>0, <1>2, <2>1, <2>2, <2>3
<1>7. CASE Hook!updateSessionUser
  <2>1. /\ project # None /\ UNCHANGED <<account, owner, clock, changes>>
        /\ \/ project' = [project EXCEPT !.checked = TRUE] /\ store' = store
           \/ project' = None /\ store' = [store EXCEPT ![project.sid] = None]
    BY <1>7 DEF Hook!updateSessionUser
  <2>2. project \in Projection  BY <1>0, <2>1
  <2>3. /\ project' \in Projection \cup {None}
        /\ project' # None => project'.sid = project.sid /\ project'.role = project.role
    BY <2>1, <2>2 DEF Projection
  <2>4. /\ store' \in [Cookies -> StoredSession \cup {None}]
        /\ \A x \in Cookies : store'[x] # None => store[x] # None /\ store'[x] = store[x]
    BY <1>0, <2>1, <2>2 DEF Projection
  <2>5. Recorded => StoreRight'  BY <2>1, <2>3, <2>4, StoreKeeps
  <2>. QED  BY <1>0, <1>2, <2>1, <2>3, <2>4, <2>5
<1>8. CASE Hook!WriteProjection
  <2>1. /\ project # None /\ project' = None /\ UNCHANGED <<account, owner, clock, changes>>
        /\ \/ store' = store
           \/ /\ store[project.sid] # None
              /\ store' = [store EXCEPT ![project.sid].role = project.role]
    BY <1>8 DEF Hook!WriteProjection
  <2>2. PICK x \in Cookies, r \in RoleStrings : x = project.sid /\ r = project.role
    BY <1>0, <2>1 DEF Projection
  <2>3. owner[x] # None /\ r \in had[x]  BY <2>1, <2>2 DEF StoreRight
  <2>4. CASE store' = store
    <3>1. Recorded => StoreRight'  BY <2>1, <2>4, StoreKeeps
    <3>. QED  BY <1>0, <1>2, <2>1, <2>4, <3>1
  <2>5. CASE store[x] # None /\ store' = [store EXCEPT ![x].role = r]
    <3>1. PICK old \in StoredSession : old = store[x]  BY <1>0, <2>5
    <3>9. /\ [old EXCEPT !.role = r] \in StoredSession /\ [old EXCEPT !.role = r].role = r
          /\ [old EXCEPT !.role = r].userId = old.userId
      BY DEF StoredSession
    <3>2. PICK new \in StoredSession : /\ new = [old EXCEPT !.role = r] /\ new.role = r
                                       /\ new.userId = old.userId
      BY <3>9
    <3>3. store' = [store EXCEPT ![x] = new]  BY <1>0, <2>5, <3>1, <3>2
    <3>4. store' \in [Cookies -> StoredSession \cup {None}] /\ store'[x] = new
            /\ \A y \in Cookies : y # x => store'[y] = store[y]
      BY <1>0, <3>3
    <3>5. Recorded => StoreRight'
      <4>. SUFFICES ASSUME Recorded PROVE StoreRight'  OBVIOUS
      <4>1. owner'[x] # None /\ new.userId = owner'[x] /\ new.role \in had'[x]
        BY <2>1, <2>3, <2>5, <3>1, <3>2 DEF StoreRight, Recorded
      <4>2. \A y \in Cookies : store'[y] # None =>
              \/ /\ store[y] # None
                 /\ store'[y].userId = store[y].userId /\ store'[y].role = store[y].role
              \/ owner'[y] # None /\ store'[y].userId = owner'[y] /\ store'[y].role \in had'[y]
        BY <3>4, <4>1
      <4>. QED  BY <2>1, <4>2, StoreKeeps
    <3>. QED  BY <1>0, <1>2, <2>1, <3>4, <3>5
  <2>. QED  BY <2>1, <2>2, <2>4, <2>5
<1>9. CASE Hook!Tick
  <2>1. clock < MaxClock /\ clock' = clock + 1 /\ UNCHANGED <<account, store, owner, project, changes>>
    BY <1>9 DEF Hook!Tick
  <2>2. Recorded => StoreRight'  BY <2>1, StoreKeeps
  <2>. QED  BY <1>0, <1>2, <2>1, <2>2
<1>. QED  BY <1>3, <1>4, <1>5, <1>6, <1>7, <1>8, <1>9

\* A request moves, and of what is stored it changes at most its own session.
LEMMA RequestMoves ==
  ASSUME HookInv, Hook!Record, NEW q \in Requests, UNCHANGED <<account, owner, project, clock, changes>>,
         pc' \in [Requests -> Hook!Where], sid' \in [Requests -> Cookies \cup {None}],
         locals' \in [Requests -> [session : StoredSession \cup {None}, user : StoredUser \cup {None}]],
         verdict' = [x \in Requests |-> verdict'[x]],
         \A x \in Requests : x # q => /\ pc'[x] = pc[x] /\ sid'[x] = sid[x]
                                      /\ locals'[x] = locals[x] /\ verdict'[x] = verdict[x],
         store' \in [Cookies -> StoredSession \cup {None}],
         \A s \in Cookies : store'[s] # None =>
           store[s] # None /\ store'[s].userId = store[s].userId /\ store'[s].role = store[s].role,
         Recorded => RequestRight(q)'
  PROVE  HookInv'
<1>. USE DEF HookInv
<1>1. Recorded  BY RecordKeeps
<1>2. StoreRight'  BY <1>1, StoreKeeps
<1>3. \A x \in Requests : RequestRight(x)'
  <2>1. \A x \in Requests : x # q => RequestRight(x)'  BY <1>1, RequestRests
  <2>. QED  BY <1>1, <2>1
<1>4. HookTyped'
  <2>1. /\ held' = [x \in Requests |-> held'[x]] /\ live' = [x \in Requests |-> live'[x]]
        /\ had' = [s \in Cookies |-> had'[s]]
    BY <1>1 DEF Recorded
  <2>. QED  BY <2>1, HookTypes DEF HookTyped, Hook!TypeOK, RoleStrings, StoredUser,
               StoredSession, Projection, Hook!Accounts, Hook!Sessions
<1>. QED  BY <1>2, <1>3, <1>4

\* The types of a request, for the steps below.
LEMMA RequestTypes ==
  ASSUME HookInv, NEW q \in Requests
  PROVE  /\ pc \in [Requests -> Hook!Where] /\ sid \in [Requests -> Cookies \cup {None}]
         /\ locals \in [Requests -> [session : StoredSession \cup {None}, user : StoredUser \cup {None}]]
         /\ verdict = [x \in Requests |-> verdict[x]]
         /\ store \in [Cookies -> StoredSession \cup {None}]
         /\ account \in [People -> StoredUser \cup {None}] /\ owner \in [Cookies -> People \cup {None}]
         /\ locals[q].session \in StoredSession \cup {None} /\ locals[q].user \in StoredUser \cup {None}
         /\ pc[q] \in Hook!Where /\ RequestRight(q) /\ StoreRight
BY HookTypes DEF HookInv

\* The session and the user a request is given next.
LEMMA GivesNext ==
  ASSUME HookInv, NEW q \in Requests, NEW where \in Hook!Where,
         NEW x \in StoredSession \cup {None}, NEW u \in StoredUser \cup {None},
         Hook!Give(q, x, u), Hook!Go(q, where)
  PROVE  /\ pc' \in [Requests -> Hook!Where] /\ pc'[q] = where
         /\ locals' \in [Requests -> [session : StoredSession \cup {None}, user : StoredUser \cup {None}]]
         /\ locals'[q].session = x /\ locals'[q].user = u
         /\ \A y \in Requests : y # q => pc'[y] = pc[y] /\ locals'[y] = locals[y]
<1>1. pc' = [pc EXCEPT ![q] = where] /\ locals' = [locals EXCEPT ![q] = [session |-> x, user |-> u]]
  BY DEF Hook!Give, Hook!Go
<1>2. [session |-> x, user |-> u] \in [session : StoredSession \cup {None}, user : StoredUser \cup {None}]
  OBVIOUS
<1>. QED  BY <1>1, <1>2, RequestTypes

\* A request begins with a cookie or without one.
LEMMA Begins ==
  ASSUME HookInv, Hook!Record, NEW q \in Requests, Hook!Begin(q)
  PROVE  HookInv'
<1>1. PICK s \in Cookies \cup {None} :
        sid' = [sid EXCEPT ![q] = s] /\ Hook!Go(q, IF s = None THEN "guard" ELSE "asked")
  BY DEF Hook!Begin
<1>2. /\ pc[q] = "idle" /\ UNCHANGED <<account, store, owner, locals, verdict, project, clock, changes>>
  BY DEF Hook!Begin
<1>3. /\ pc'[q] = (IF s = None THEN "guard" ELSE "asked") /\ sid'[q] = s
      /\ pc' \in [Requests -> Hook!Where] /\ sid' \in [Requests -> Cookies \cup {None}]
      /\ \A x \in Requests : x # q => pc'[x] = pc[x] /\ sid'[x] = sid[x]
  BY <1>1, RequestTypes DEF Hook!Go, Hook!Where
<1>4. /\ locals[q] = Hook!NoLocals /\ verdict[q] = Hook!Undecided
  BY <1>2, RequestTypes DEF RequestRight
<1>5. locals'[q].session = None /\ locals'[q].user = None /\ verdict'[q].outcome = "none"
        /\ (locals[q] = Hook!NoLocals)' /\ (verdict[q] = Hook!Undecided)'
  BY <1>2, <1>4 DEF Hook!NoLocals, Hook!Undecided
<1>6. RequestRight(q)'  BY <1>3, <1>5 DEF RequestRight
<1>. QED  BY <1>2, <1>3, <1>6, RequestTypes, RequestMoves

\* The session is read: it is given only when it is live.
LEMMA Asks ==
  ASSUME HookInv, Hook!Record, NEW q \in Requests, Hook!getSession(q)
  PROVE  HookInv'
<1>1. /\ pc[q] = "asked" /\ Hook!Give(q, IF Hook!Live(sid[q]) THEN store[sid[q]] ELSE None, None)
      /\ Hook!Go(q, IF store[sid[q]] = None THEN "guard"
                    ELSE IF Hook!Live(sid[q]) THEN "found" ELSE "expired")
      /\ UNCHANGED <<account, store, owner, sid, verdict, project, clock, changes>>
  BY DEF Hook!getSession
<1>2. sid[q] \in Cookies /\ verdict[q] = Hook!Undecided  BY <1>1, RequestTypes DEF RequestRight
<1>3. PICK x \in StoredSession \cup {None} : x = IF Hook!Live(sid[q]) THEN store[sid[q]] ELSE None
  BY <1>2, RequestTypes
<1>4. PICK where \in {"guard", "found", "expired"} :
        where = IF store[sid[q]] = None THEN "guard"
                ELSE IF Hook!Live(sid[q]) THEN "found" ELSE "expired"
  OBVIOUS
<1>5. where = "found" <=> Hook!Live(sid[q])  BY <1>4 DEF Hook!Live
<1>6. Hook!Live(sid[q]) => x = store[sid[q]] /\ x # None  BY <1>3 DEF Hook!Live
<1>7. /\ pc'[q] = where /\ locals'[q].session = x /\ locals'[q].user = None
      /\ pc' \in [Requests -> Hook!Where]
      /\ locals' \in [Requests -> [session : StoredSession \cup {None}, user : StoredUser \cup {None}]]
      /\ \A y \in Requests : y # q => pc'[y] = pc[y] /\ locals'[y] = locals[y]
  <2>1. Hook!Give(q, x, None) /\ Hook!Go(q, where) /\ where \in Hook!Where
    BY <1>1, <1>3, <1>4 DEF Hook!Where
  <2>. QED  BY <2>1, GivesNext
<1>8. Recorded => RequestRight(q)'
  <2>. SUFFICES ASSUME Recorded PROVE RequestRight(q)'  OBVIOUS
  <2>1. verdict'[q].outcome # "allowed"  BY <1>1, <1>2 DEF Hook!Undecided
  <2>2. (sid[q] \in Cookies)' /\ pc'[q] \notin {"idle", "asked", "loaded", "renew", "renewDrop"}
    BY <1>1, <1>2, <1>7
  <2>3. x # None => SessionRight(q)'
    <3>1. SUFFICES ASSUME Hook!Live(sid[q])  PROVE SessionRight(q)'  BY <1>3
    <3>2. x = store[sid[q]] /\ store[sid[q]] # None  BY <1>6, <3>1
    <3>3. owner[sid[q]] # None /\ x.userId = owner[sid[q]] /\ x.role \in had[sid[q]]
      BY <1>2, <3>2, RequestTypes DEF StoreRight
    <3>4. live'[q] = TRUE  BY <1>1, <1>7, <3>1 DEF Recorded
    <3>. QED  BY <1>1, <1>2, <1>7, <3>3, <3>4 DEF SessionRight, Recorded
  <2>. QED  BY <1>5, <1>6, <1>7, <2>1, <2>2, <2>3 DEF RequestRight
<1>9. sid' = sid /\ verdict' = verdict /\ store' = store  BY <1>1
<1>. QED  BY <1>1, <1>7, <1>8, <1>9, RequestTypes, RequestMoves

\* A request that keeps its session, or is given the renewed one, keeps it rightly.
LEMMA SessionStays ==
  ASSUME NEW q \in Requests, SessionRight(q), Recorded, sid'[q] = sid[q], owner' = owner,
         pc[q] # "asked", pc'[q] # "idle", locals'[q].session.userId = locals[q].session.userId,
         locals'[q].session.role = locals[q].session.role
  PROVE  SessionRight(q)'
BY DEF SessionRight, Recorded

\* What a user's permissions are does not change once he is read.
LEMMA UserStays ==
  ASSUME NEW q \in Requests, RequestRight(q), Recorded, pc'[q] # "idle",
         locals'[q].user = locals[q].user
  PROVE  locals'[q].user # None => (Hook!Grants(locals[q].user) \subseteq held[q])'
BY DEF RequestRight, Recorded, Hook!Grants

\* A verdict is nothing yet unless the guard has given one.
LEMMA VerdictStays ==
  ASSUME HookInv, NEW q \in Requests, Recorded, verdict' = verdict, pc[q] # "asked", pc'[q] # "idle",
         sid'[q] = sid[q], owner' = owner
  PROVE  verdict'[q].outcome = "allowed" => VerdictRight(q)'
<1>. SUFFICES ASSUME verdict[q].outcome = "allowed"  PROVE VerdictRight(q)'  OBVIOUS
<1>1. VerdictRight(q)  BY RequestTypes DEF RequestRight
<1>2. had[sid[q]] \subseteq had'[sid'[q]] /\ held[q] \subseteq held'[q] /\ live'[q] = TRUE
        /\ owner'[sid'[q]] # None
  BY <1>1 DEF VerdictRight, Recorded
<1>3. verdict[q].by = "permission" => verdict[q].ask \in held'[q]  BY <1>1, <1>2 DEF VerdictRight
<1>4. verdict[q].by = "role" =>
        \E s \in had'[sid'[q]] : Hook!hasEqualOrHigherRole(s, verdict[q].ask)
  BY <1>1, <1>2 DEF VerdictRight
<1>5. verdict[q].by = "manage" =>
        \E s \in had'[sid'[q]] : Hook!canManageRole(s, Hook!Exact(verdict[q].ask))
  BY <1>1, <1>2 DEF VerdictRight
<1>. QED  BY <1>1, <1>2, <1>3, <1>4, <1>5 DEF VerdictRight, Hook!hasEqualOrHigherRole, Hook!Rank,
             Hook!canManageRole, Hook!Exact

\* An expired session is dropped, from the store and from the request.
LEMMA Drops ==
  ASSUME HookInv, Hook!Record, NEW q \in Requests, Hook!DropExpired(q)
  PROVE  HookInv'
<1>1. /\ pc[q] \in {"expired", "renewDrop"} /\ store' = [store EXCEPT ![sid[q]] = None]
      /\ Hook!Give(q, None, locals[q].user) /\ Hook!Go(q, "guard")
      /\ UNCHANGED <<account, owner, sid, verdict, project, clock, changes>>
  BY DEF Hook!DropExpired
<1>2. /\ store' \in [Cookies -> StoredSession \cup {None}]
      /\ \A s \in Cookies : store'[s] # None => store[s] # None /\ store'[s] = store[s]
  BY <1>1, RequestTypes
<1>3. /\ pc'[q] = "guard" /\ locals'[q].session = None /\ locals'[q].user = locals[q].user
      /\ pc' \in [Requests -> Hook!Where]
      /\ locals' \in [Requests -> [session : StoredSession \cup {None}, user : StoredUser \cup {None}]]
      /\ \A y \in Requests : y # q => pc'[y] = pc[y] /\ locals'[y] = locals[y]
  <2>1. locals[q].user \in StoredUser \cup {None} /\ "guard" \in Hook!Where
    BY RequestTypes DEF Hook!Where
  <2>. QED  BY <1>1, <2>1, GivesNext
<1>4. Recorded => RequestRight(q)'
  <2>. SUFFICES ASSUME Recorded PROVE RequestRight(q)'  OBVIOUS
  <2>1. pc[q] # "asked" /\ pc'[q] # "idle" /\ sid'[q] = sid[q] /\ owner' = owner /\ verdict' = verdict
    BY <1>1, <1>3
  <2>2. locals'[q].user # None => (Hook!Grants(locals[q].user) \subseteq held[q])'
    BY <1>3, <2>1, UserStays, RequestTypes
  <2>3. verdict'[q].outcome = "allowed" => VerdictRight(q)'  BY <2>1, VerdictStays
  <2>. QED  BY <1>3, <2>2, <2>3 DEF RequestRight
<1>. QED  BY <1>1, <1>2, <1>3, <1>4, RequestTypes, RequestMoves

\* The account of the session is loaded: it holds now what it grants.
LEMMA Loads ==
  ASSUME HookInv, Hook!Record, NEW q \in Requests, Hook!loadUser(q)
  PROVE  HookInv'
<1>1. /\ pc[q] = "found"
      /\ Hook!Give(q, locals[q].session, account[locals[q].session.userId]) /\ Hook!Go(q, "loaded")
      /\ UNCHANGED <<account, store, owner, sid, verdict, project, clock, changes>>
  BY DEF Hook!loadUser
<1>2. locals[q].session # None /\ SessionRight(q) /\ locals[q].session \in StoredSession
  BY <1>1, RequestTypes DEF RequestRight
<1>3. PICK p \in People : p = locals[q].session.userId /\ p = owner[sid[q]]
  BY <1>2 DEF SessionRight, StoredSession
<1>4. PICK a \in StoredUser \cup {None} : a = account[p]  BY RequestTypes
<1>5. /\ pc'[q] = "loaded" /\ locals'[q].session = locals[q].session /\ locals'[q].user = a
      /\ pc' \in [Requests -> Hook!Where]
      /\ locals' \in [Requests -> [session : StoredSession \cup {None}, user : StoredUser \cup {None}]]
      /\ \A y \in Requests : y # q => pc'[y] = pc[y] /\ locals'[y] = locals[y]
  <2>1. "loaded" \in Hook!Where  BY DEF Hook!Where
  <2>2. Hook!Give(q, locals[q].session, a) /\ Hook!Go(q, "loaded")  BY <1>1, <1>3, <1>4
  <2>. QED  BY <1>2, <2>1, <2>2, GivesNext
<1>6. Recorded => RequestRight(q)'
  <2>. SUFFICES ASSUME Recorded PROVE RequestRight(q)'  OBVIOUS
  <2>1. pc[q] # "asked" /\ pc'[q] # "idle" /\ sid'[q] = sid[q] /\ owner' = owner /\ verdict' = verdict
    BY <1>1, <1>5
  <2>2. a # None => (Hook!Grants(locals[q].user) \subseteq held[q])'
    <3>1. sid'[q] # None /\ owner'[sid'[q]] # None /\ owner'[sid'[q]] = p /\ account'[p] = a
      <4>1. None \notin Cookies  BY SignedInAssumption DEF Hook!RequestAssumption
      <4>. QED  BY <1>1, <1>2, <1>3, <1>4, <4>1 DEF SessionRight
    <3>2. Hook!Grants(account'[owner'[sid'[q]]]) \subseteq held'[q]  BY <2>1, <3>1 DEF Recorded
    <3>. QED  BY <1>5, <3>1, <3>2 DEF Hook!Grants
  <2>3. SessionRight(q)'  BY <1>2, <1>5, <2>1, SessionStays
  <2>4. verdict'[q].outcome = "allowed" => VerdictRight(q)'  BY <2>1, VerdictStays
  <2>5. (sid[q] \in Cookies)'  BY <1>2, <2>1 DEF SessionRight
  <2>. QED  BY <1>2, <1>5, <2>2, <2>3, <2>4, <2>5 DEF RequestRight
<1>7. sid' = sid /\ verdict' = verdict /\ store' = store  BY <1>1
<1>. QED  BY <1>1, <1>5, <1>6, <1>7, RequestTypes, RequestMoves

\* The session is looked at again before it is renewed.
LEMMA Refreshes ==
  ASSUME HookInv, Hook!Record, NEW q \in Requests, Hook!refreshSession(q)
  PROVE  HookInv'
<1>1. /\ pc[q] = "loaded"
      /\ UNCHANGED <<account, store, owner, sid, verdict, project, clock, changes>>
  BY DEF Hook!refreshSession
<1>2. \/ Hook!Give(q, None, locals[q].user) /\ Hook!Go(q, "guard")
      \/ locals' = locals /\ \E w \in {"guard", "renew", "renewDrop"} : Hook!Go(q, w)
  BY DEF Hook!refreshSession
<1>3. locals[q].session # None /\ SessionRight(q)  BY <1>1, RequestTypes DEF RequestRight
<1>4. /\ pc' \in [Requests -> Hook!Where] /\ pc'[q] \in {"guard", "renew", "renewDrop"}
      /\ locals' \in [Requests -> [session : StoredSession \cup {None}, user : StoredUser \cup {None}]]
      /\ \A y \in Requests : y # q => pc'[y] = pc[y] /\ locals'[y] = locals[y]
      /\ locals'[q].user = locals[q].user
      /\ \/ locals'[q].session = None /\ pc'[q] = "guard"
         \/ locals'[q].session = locals[q].session
  <2>1. CASE Hook!Give(q, None, locals[q].user) /\ Hook!Go(q, "guard")
    <3>1. locals[q].user \in StoredUser \cup {None} /\ "guard" \in Hook!Where
      BY RequestTypes DEF Hook!Where
    <3>. QED  BY <2>1, <3>1, GivesNext
  <2>2. ASSUME locals' = locals, NEW w \in {"guard", "renew", "renewDrop"}, Hook!Go(q, w)
        PROVE  /\ pc' \in [Requests -> Hook!Where] /\ pc'[q] = w
               /\ \A y \in Requests : y # q => pc'[y] = pc[y]
    BY <2>2, RequestTypes DEF Hook!Go, Hook!Where
  <2>. QED  BY <1>2, <2>1, <2>2, RequestTypes
<1>5. Recorded => RequestRight(q)'
  <2>. SUFFICES ASSUME Recorded PROVE RequestRight(q)'  OBVIOUS
  <2>1. pc[q] # "asked" /\ pc'[q] # "idle" /\ sid'[q] = sid[q] /\ owner' = owner /\ verdict' = verdict
    BY <1>1, <1>4
  <2>2. locals'[q].session # None => SessionRight(q)'  BY <1>3, <1>4, <2>1, SessionStays
  <2>3. locals'[q].user # None => (Hook!Grants(locals[q].user) \subseteq held[q])'
    BY <1>4, <2>1, UserStays, RequestTypes
  <2>4. verdict'[q].outcome = "allowed" => VerdictRight(q)'  BY <2>1, VerdictStays
  <2>5. (sid[q] \in Cookies)'  BY <1>3, <2>1 DEF SessionRight
  <2>. QED  BY <1>3, <1>4, <2>2, <2>3, <2>4, <2>5 DEF RequestRight
<1>6. sid' = sid /\ verdict' = verdict /\ store' = store  BY <1>1
<1>. QED  BY <1>1, <1>4, <1>5, <1>6, RequestTypes, RequestMoves

\* The stored session is renewed and given, or is gone and the request fails.
LEMMA Renews ==
  ASSUME HookInv, Hook!Record, NEW q \in Requests, Hook!Renew(q)
  PROVE  HookInv'
<1>1. pc[q] = "renew" /\ UNCHANGED <<account, owner, sid, project, clock, changes>>
  BY DEF Hook!Renew
<1>2. locals[q].session # None /\ SessionRight(q) /\ sid[q] \in Cookies
  BY <1>1, RequestTypes DEF RequestRight
<1>3. pc[q] # "asked" /\ sid'[q] = sid[q] /\ owner' = owner  BY <1>1
<1>4. CASE store[sid[q]] = None
  <2>1. /\ Hook!Give(q, None, None) /\ Hook!Go(q, "done") /\ UNCHANGED store
        /\ verdict' = [verdict EXCEPT ![q] = [by |-> "hook", ask |-> None, outcome |-> "error"]]
    BY <1>4 DEF Hook!Renew
  <2>2. /\ pc'[q] = "done" /\ locals'[q].session = None /\ locals'[q].user = None
        /\ pc' \in [Requests -> Hook!Where]
        /\ locals' \in [Requests -> [session : StoredSession \cup {None}, user : StoredUser \cup {None}]]
        /\ \A y \in Requests : y # q => pc'[y] = pc[y] /\ locals'[y] = locals[y]
    <3>1. "done" \in Hook!Where  BY DEF Hook!Where
    <3>. QED  BY <2>1, <3>1, GivesNext
  <2>3. /\ verdict' = [x \in Requests |-> verdict'[x]] /\ verdict'[q].outcome = "error"
        /\ \A y \in Requests : y # q => verdict'[y] = verdict[y]
    BY <2>1, RequestTypes
  <2>4. RequestRight(q)'  BY <2>2, <2>3 DEF RequestRight
  <2>5. sid' = sid /\ store' = store  BY <1>1, <2>1
  <2>. QED  BY <1>1, <2>2, <2>3, <2>4, <2>5, RequestTypes, RequestMoves
<1>5. CASE store[sid[q]] # None
  <2>1. /\ store' = [store EXCEPT ![sid[q]].expires = clock + MaxAge]
        /\ Hook!Give(q, store'[sid[q]], locals[q].user) /\ Hook!Go(q, "guard") /\ UNCHANGED verdict
    BY <1>5 DEF Hook!Renew
  <2>2. PICK new \in StoredSession :
          /\ new.userId = store[sid[q]].userId /\ new.role = store[sid[q]].role
          /\ new = [store[sid[q]] EXCEPT !.expires = clock + MaxAge]
    <3>1. store[sid[q]] \in StoredSession  BY <1>2, <1>5, RequestTypes
    <3>2. clock + MaxAge \in Nat
      <4>1. MaxAge \in Nat /\ MaxClock \in Nat  BY SignedInAssumption DEF Hook!RequestAssumption
      <4>. QED  BY <4>1, HookTypes DEF HookInv
    <3>3. [store[sid[q]] EXCEPT !.expires = clock + MaxAge] \in StoredSession
      BY <3>1, <3>2 DEF StoredSession
    <3>. QED  BY <3>1, <3>3 DEF StoredSession
  <2>3. store' = [store EXCEPT ![sid[q]] = new]  BY <2>1, <2>2
  <2>4. store'[sid[q]] = new  BY <1>2, <2>3, RequestTypes
  <2>5. /\ store' \in [Cookies -> StoredSession \cup {None}]
        /\ \A s \in Cookies : store'[s] # None =>
             store[s] # None /\ store'[s].userId = store[s].userId /\ store'[s].role = store[s].role
    <3>1. store' \in [Cookies -> StoredSession \cup {None}]  BY <1>2, <2>3, RequestTypes
    <3>2. \A s \in Cookies : s # sid[q] => store'[s] = store[s]  BY <2>3, RequestTypes
    <3>. QED  BY <1>5, <2>2, <2>4, <3>1, <3>2
  <2>6. /\ pc'[q] = "guard" /\ locals'[q].session = new /\ locals'[q].user = locals[q].user
        /\ pc' \in [Requests -> Hook!Where]
        /\ locals' \in [Requests -> [session : StoredSession \cup {None}, user : StoredUser \cup {None}]]
        /\ \A y \in Requests : y # q => pc'[y] = pc[y] /\ locals'[y] = locals[y]
    <3>1. "guard" \in Hook!Where /\ locals[q].user \in StoredUser \cup {None}
      BY RequestTypes DEF Hook!Where
    <3>2. Hook!Give(q, new, locals[q].user) /\ Hook!Go(q, "guard")  BY <2>1, <2>4
    <3>. QED  BY <3>1, <3>2, GivesNext
  <2>7. Recorded => RequestRight(q)'
    <3>. SUFFICES ASSUME Recorded PROVE RequestRight(q)'  OBVIOUS
    <3>1. pc'[q] # "idle" /\ verdict' = verdict  BY <2>1, <2>6
    <3>2. owner[sid[q]] # None /\ new.userId = owner[sid[q]] /\ new.role \in had[sid[q]]
      BY <1>2, <1>5, <2>2, RequestTypes DEF StoreRight
    <3>3. SessionRight(q)'
      BY <1>2, <1>3, <2>6, <3>1, <3>2 DEF SessionRight, Recorded
    <3>4. locals'[q].user # None => (Hook!Grants(locals[q].user) \subseteq held[q])'
      BY <2>6, <3>1, UserStays, RequestTypes
    <3>5. verdict'[q].outcome = "allowed" => VerdictRight(q)'  BY <1>3, <3>1, VerdictStays
    <3>. QED  BY <2>6, <3>3, <3>4, <3>5 DEF RequestRight
  <2>8. sid' = sid /\ verdict' = verdict  BY <1>1, <2>1
  <2>. QED  BY <1>1, <2>5, <2>6, <2>7, <2>8, RequestTypes, RequestMoves
<1>. QED  BY <1>4, <1>5

\* What a guard decides: each of the three allows only what the request holds.
Outcome(q, by, ask, outcome) ==
  /\ by \in {"permission", "role", "manage"}
  /\ outcome = "allowed" =>
       /\ locals[q].session # None
       /\ by = "permission" => locals[q].user # None /\ ask \in Hook!Grants(locals[q].user)
       /\ by = "role" => Hook!hasEqualOrHigherRole(locals[q].session.role, ask)
       /\ by = "manage" => Hook!canManageRole(locals[q].session.role, Hook!Exact(ask))

LEMMA Outcomes ==
  ASSUME NEW q \in Requests, Hook!Guard(q)
  PROVE  \E by, ask, outcome :
           /\ Outcome(q, by, ask, outcome)
           /\ verdict' = [verdict EXCEPT ![q] = [by |-> by, ask |-> ask, outcome |-> outcome]]
<1>1. ASSUME NEW p \in Asked, Hook!Decide(q, "permission", p, Hook!requirePermission(locals[q], p))
      PROVE  Outcome(q, "permission", p, Hook!requirePermission(locals[q], p))
  BY DEF Outcome, Hook!requirePermission, Hook!requireAuth, Hook!Grants
<1>2. ASSUME NEW r \in RolesUsed, Hook!Decide(q, "role", r, Hook!requireRole(locals[q], r))
      PROVE  Outcome(q, "role", r, Hook!requireRole(locals[q], r))
  BY DEF Outcome, Hook!requireRole, Hook!requireAuth
<1>3. ASSUME NEW r \in RolesUsed, Hook!Decide(q, "manage", r, Hook!canManageTargetRole(locals[q], r))
      PROVE  Outcome(q, "manage", r, Hook!canManageTargetRole(locals[q], r))
  BY DEF Outcome, Hook!canManageTargetRole
<1>. QED  BY <1>1, <1>2, <1>3 DEF Hook!Guard, Hook!Decide

\* A guard decides.
LEMMA Guards ==
  ASSUME HookInv, Hook!Record, NEW q \in Requests, Hook!Guard(q)
  PROVE  HookInv'
<1>1. /\ pc[q] = "guard" /\ Hook!Go(q, "done")
      /\ UNCHANGED <<account, store, owner, sid, locals, project, clock, changes>>
  BY DEF Hook!Guard
<1>2. PICK by, ask, outcome :
        /\ Outcome(q, by, ask, outcome)
        /\ verdict' = [verdict EXCEPT ![q] = [by |-> by, ask |-> ask, outcome |-> outcome]]
  BY Outcomes
<1>3. /\ pc' \in [Requests -> Hook!Where] /\ pc'[q] = "done"
      /\ \A y \in Requests : y # q => pc'[y] = pc[y]
  BY <1>1, RequestTypes DEF Hook!Go, Hook!Where
<1>4. /\ verdict' = [x \in Requests |-> verdict'[x]]
      /\ verdict'[q].by = by /\ verdict'[q].ask = ask /\ verdict'[q].outcome = outcome
      /\ \A y \in Requests : y # q => verdict'[y] = verdict[y]
  BY <1>2, RequestTypes
<1>5. Recorded => RequestRight(q)'
  <2>. SUFFICES ASSUME Recorded PROVE RequestRight(q)'  OBVIOUS
  <2>1. pc[q] # "asked" /\ pc'[q] # "idle" /\ sid'[q] = sid[q] /\ owner' = owner /\ locals' = locals
    BY <1>1, <1>3
  <2>2. locals'[q].session # None => SessionRight(q)'
    <3>1. SUFFICES ASSUME locals[q].session # None  PROVE SessionRight(q)'  BY <2>1
    <3>2. SessionRight(q)  BY <3>1, RequestTypes DEF RequestRight
    <3>. QED  BY <2>1, <3>2, SessionStays
  <2>3. locals'[q].user # None => (Hook!Grants(locals[q].user) \subseteq held[q])'
    BY <2>1, UserStays, RequestTypes
  <2>4. verdict'[q].outcome = "allowed" => VerdictRight(q)'
    <3>1. SUFFICES ASSUME outcome = "allowed"  PROVE VerdictRight(q)'  BY <1>4
    <3>2. SessionRight(q)' /\ locals[q].session # None  BY <1>2, <2>1, <2>2, <3>1 DEF Outcome
    <3>3. (live[q] = TRUE /\ sid[q] \in Cookies /\ owner[sid[q]] # None)'  BY <3>2 DEF SessionRight
    <3>4. locals[q].session.role \in had'[sid'[q]]  BY <2>1, <3>2 DEF SessionRight
    <3>5. by = "permission" => ask \in held'[q]
      BY <1>2, <2>1, <2>3, <3>1 DEF Outcome, Hook!Grants
    <3>6. by = "role" => \E s \in had'[sid'[q]] : Hook!hasEqualOrHigherRole(s, ask)
      BY <1>2, <3>1, <3>4 DEF Outcome
    <3>7. by = "manage" => \E s \in had'[sid'[q]] : Hook!canManageRole(s, Hook!Exact(ask))
      BY <1>2, <3>1, <3>4 DEF Outcome
    <3>. QED  BY <1>4, <3>3, <3>5, <3>6, <3>7 DEF VerdictRight, Hook!hasEqualOrHigherRole, Hook!Rank,
                 Hook!canManageRole, Hook!Exact
  <2>. QED  BY <1>3, <2>2, <2>3, <2>4 DEF RequestRight
<1>6. sid' = sid /\ locals' = locals /\ store' = store  BY <1>1
<1>. QED  BY <1>1, <1>3, <1>4, <1>5, <1>6, RequestTypes, RequestMoves

\* The request is answered, and nothing of it is kept.
LEMMA Answers ==
  ASSUME HookInv, Hook!Record, NEW q \in Requests, Hook!Answer(q)
  PROVE  HookInv'
<1>1. /\ Hook!Go(q, "idle") /\ sid' = [sid EXCEPT ![q] = None]
      /\ locals' = [locals EXCEPT ![q] = Hook!NoLocals]
      /\ verdict' = [verdict EXCEPT ![q] = Hook!Undecided]
      /\ UNCHANGED <<account, store, owner, project, clock, changes>>
  BY DEF Hook!Answer
<1>2. Hook!NoLocals \in [session : StoredSession \cup {None}, user : StoredUser \cup {None}]
  BY DEF Hook!NoLocals
<1>3. /\ pc' \in [Requests -> Hook!Where] /\ pc'[q] = "idle"
      /\ sid' \in [Requests -> Cookies \cup {None}]
      /\ \A y \in Requests : y # q => pc'[y] = pc[y] /\ sid'[y] = sid[y]
  BY <1>1, RequestTypes DEF Hook!Go, Hook!Where
<1>4. /\ locals' \in [Requests -> [session : StoredSession \cup {None}, user : StoredUser \cup {None}]]
      /\ locals'[q] = Hook!NoLocals
      /\ \A y \in Requests : y # q => locals'[y] = locals[y]
  BY <1>1, <1>2, RequestTypes
<1>5. /\ verdict' = [x \in Requests |-> verdict'[x]] /\ verdict'[q] = Hook!Undecided
      /\ \A y \in Requests : y # q => verdict'[y] = verdict[y]
  BY <1>1, RequestTypes
<1>6. RequestRight(q)'
  <2>1. locals'[q].session = None /\ locals'[q].user = None /\ verdict'[q].outcome = "none"
          /\ (locals[q] = Hook!NoLocals)' /\ (verdict[q] = Hook!Undecided)'
    BY <1>4, <1>5 DEF Hook!NoLocals, Hook!Undecided
  <2>. QED  BY <1>3, <2>1 DEF RequestRight
<1>7. store' = store  BY <1>1
<1>. QED  BY <1>1, <1>3, <1>4, <1>5, <1>6, <1>7, RequestTypes, RequestMoves

\* Before any request nothing is held.
LEMMA HookBegins ==
  ASSUME Hook!Init
  PROVE  HookInv
<1>1. /\ account \in [People -> StoredUser] /\ store = [s \in Cookies |-> None]
      /\ owner = [s \in Cookies |-> None] /\ pc = [q \in Requests |-> "idle"]
      /\ sid = [q \in Requests |-> None] /\ locals = [q \in Requests |-> Hook!NoLocals]
      /\ verdict = [q \in Requests |-> Hook!Undecided] /\ project = None
      /\ clock = 0 /\ changes = 0 /\ held = [q \in Requests |-> {}]
      /\ live = [q \in Requests |-> FALSE] /\ had = [s \in Cookies |-> {}]
  BY DEF Hook!Init, Hook!Accounts, StoredUser, RoleStrings
<1>2. HookTyped
  <2>1. MaxClock \in Nat /\ MaxChanges \in Nat  BY SignedInAssumption DEF Hook!RequestAssumption
  <2>2. clock \in 0 .. MaxClock /\ changes \in 0 .. MaxChanges  BY <1>1, <2>1
  <2>3. pc \in [Requests -> Hook!Where] /\ sid \in [Requests -> Cookies \cup {None}]
    BY <1>1 DEF Hook!Where
  <2>4. locals \in [Requests -> [session : StoredSession \cup {None}, user : StoredUser \cup {None}]]
    BY <1>1 DEF Hook!NoLocals
  <2>5. account \in [People -> StoredUser \cup {None}]  BY <1>1
  <2>6. verdict = [q \in Requests |-> verdict[q]] /\ held = [q \in Requests |-> held[q]]
          /\ live = [q \in Requests |-> live[q]] /\ had = [s \in Cookies |-> had[s]]
    BY <1>1
  <2>. QED  BY <1>1, <2>2, <2>3, <2>4, <2>5, <2>6, HookTypes
<1>3. StoreRight  BY <1>1 DEF StoreRight
<1>4. ASSUME NEW q \in Requests  PROVE RequestRight(q)
  <2>1. pc[q] = "idle" /\ locals[q] = Hook!NoLocals /\ verdict[q] = Hook!Undecided  BY <1>1
  <2>2. locals[q].session = None /\ locals[q].user = None /\ verdict[q].outcome = "none"
    BY <2>1 DEF Hook!NoLocals, Hook!Undecided
  <2>. QED  BY <2>1, <2>2 DEF RequestRight
<1>. QED  BY <1>2, <1>3, <1>4 DEF HookInv

\* Every step of a request and of what goes on around it.
LEMMA HookMoves ==
  ASSUME HookInv, Hook!Next
  PROVE  HookInv'
<1>1. Hook!Record  BY DEF Hook!Next
<1>2. ASSUME NEW q \in Requests, Hook!Begin(q) \/ Hook!RequestStep(q)  PROVE HookInv'
  BY <1>1, <1>2, Begins, Asks, Drops, Loads, Refreshes, Renews, Guards, Answers DEF Hook!RequestStep
<1>. QED  BY <1>1, <1>2, OthersMove DEF Hook!Next

\* Nothing moves while another module runs.
LEMMA HookStands ==
  ASSUME HookInv, UNCHANGED <<clock, hookOnly>>
  PROVE  HookInv'
<1>1. UNCHANGED <<account, store, owner, pc, sid, locals, verdict, project, clock, changes>>
        /\ UNCHANGED <<held, live, had>>
  BY DEF hookOnly
<1>2. HookTyped'  BY <1>1 DEF HookInv, HookTyped, Hook!TypeOK, Hook!Accounts, Hook!Sessions
<1>3. StoreRight'  BY <1>1 DEF HookInv, StoreRight
<1>4. ASSUME NEW q \in Requests  PROVE RequestRight(q)'
  BY <1>1 DEF HookInv, RequestRight, SessionRight, VerdictRight, Hook!NoLocals, Hook!Undecided,
     Hook!Grants, Hook!hasEqualOrHigherRole, Hook!Rank, Hook!canManageRole, Hook!Exact
<1>. QED  BY <1>2, <1>3, <1>4 DEF HookInv

\* The three ways to guard a route are the same conditions in three forms.
LEMMA SameGuards == Hook!GuardsAgree
<1>1. ASSUME NEW q \in Requests, NEW r \in RolesUsed \cup {None}, NEW p \in Asked \cup {None}
      PROVE  /\ Hook!checkAuth(locals[q], r, p) = Hook!protectEndpoint(locals[q], r, p)
             /\ (Hook!checkAuth(locals[q], r, p) = "allowed") <=>
                  /\ Hook!requireAuth(locals[q]) = "allowed"
                  /\ r # None => Hook!requireRole(locals[q], r) = "allowed"
                  /\ p # None => Hook!requirePermission(locals[q], p) = "allowed"
  BY DEF Hook!checkAuth, Hook!protectEndpoint, Hook!requireAuth, Hook!requireRole,
     Hook!requirePermission
<1>. QED  BY <1>1 DEF Hook!GuardsAgree

\* Requests are right while they run.
HookHolds == running = "hook" => HookInv

\* What a guard allows a request was right while that request ran, whatever accounts, sessions
\* and other requests do meanwhile (createAuthHandle in hook.ts, guards.ts).
THEOREM AllowedRightlyAlways == SignedInSpec => []AllowedRightly
<1>1. SignedInInit => HookHolds  BY HookBegins DEF SignedInInit, HookHolds, NoHook
<1>2. HookHolds /\ [SignedInNext]_signedInVars => HookHolds'
  <2>. SUFFICES ASSUME HookHolds, [SignedInNext]_signedInVars, running' = "hook"  PROVE HookInv'
    BY DEF HookHolds
  <2>1. CASE SignedInNext
    <3>1. running = "hook" /\ Hook!Next  BY <2>1 DEF SignedInNext
    <3>. QED  BY <3>1, HookMoves DEF HookHolds
  <2>2. CASE UNCHANGED signedInVars
    <3>1. running' = running /\ UNCHANGED <<clock, hookOnly>>  BY <2>2 DEF signedInVars
    <3>. QED  BY <3>1, HookStands DEF HookHolds
  <2>. QED  BY <2>1, <2>2
<1>3. HookHolds => AllowedRightly
  <2>. SUFFICES ASSUME HookInv
                PROVE  Hook!AllowedWasLive /\ Hook!PermissionIsCurrent /\ Hook!RoleWasHeld
    BY SameGuards DEF HookHolds, AllowedRightly
  <2>1. \A q \in Requests : verdict[q].outcome = "allowed" => VerdictRight(q)
    BY DEF HookInv, RequestRight
  <2>2. Hook!AllowedWasLive  BY <2>1 DEF Hook!AllowedWasLive, VerdictRight
  <2>3. Hook!PermissionIsCurrent  BY <2>1 DEF Hook!PermissionIsCurrent, Hook!Allowed, VerdictRight
  <2>4. Hook!RoleWasHeld  BY <2>1 DEF Hook!RoleWasHeld, Hook!Allowed, VerdictRight
  <2>. QED  BY <2>2, <2>3, <2>4
<1>. QED  BY <1>1, <1>2, <1>3, PTL DEF SignedInSpec

-----------------------------------------------------------------------------
(* The page.                                                               *)

\* On a page that runs one call at a time the cookie is the token of the answer that waits to be
\* read, or the store's token when none waits.
OneCall == \A j, k \in Calls : flight[j] # None /\ flight[k] # None => j = k

Waiting(k) == flight[k] # None /\ flight[k].token # None

PageInv ==
  /\ Page(FALSE)!TypeOK /\ OneCall
  /\ \A k \in Calls : Waiting(k) => cookie = flight[k].token
  /\ ~torn /\ state.token # None /\ (\A k \in Calls : ~Waiting(k)) => cookie = state.token

PageState  == [token : Tokens \cup {None}, expiresAt : 0 .. MaxPage + Lifetime, role : Roles \cup {None}]
PageFlight == [why : {"fetch", "rotate", "refresh"}, role : Roles \cup {None}, token : Tokens \cup {None}]

\* The constants of the page and the types of what it keeps.
LEMMA PageTypes ==
  ASSUME Page(FALSE)!TypeOK
  PROVE  /\ state \in PageState /\ cookie \in Tokens \cup {None} /\ issued \in SUBSET Tokens
         /\ flight \in [Calls -> PageFlight \cup {None}] /\ torn \in BOOLEAN
         /\ clock \in 0 .. MaxPage /\ clock + Lifetime \in 0 .. MaxPage + Lifetime
         /\ None \notin Tokens /\ None \notin PageFlight
<1>1. Lifetime \in Nat /\ MaxPage \in Nat /\ None \notin Tokens /\ None \notin PageFlight
  BY SignedInAssumption DEF Page!CsrfAssumption, Page!Flights, Page!Whys, PageFlight
<1>. QED  BY <1>1 DEF Page!TypeOK, Page!Flights, Page!Whys, PageState, PageFlight

\* The same as one fact of the next state.
LEMMA PageTyped ==
  ASSUME state' \in PageState, cookie' \in Tokens \cup {None}, issued' \in SUBSET Tokens,
         flight' \in [Calls -> PageFlight \cup {None}], torn' \in BOOLEAN, clock' \in 0 .. MaxPage
  PROVE  Page(FALSE)!TypeOK'
BY DEF Page!TypeOK, Page!Flights, Page!Whys, PageState, PageFlight

\* The store takes a token.
LEMMA Initializes ==
  ASSUME Page(FALSE)!TypeOK, NEW t \in Tokens, NEW r \in Roles \cup {None}, Page(FALSE)!initialize(t, r)
  PROVE  state' \in PageState /\ state'.token = t
<1>1. state' = [token |-> t, expiresAt |-> clock + Lifetime, role |-> r]  BY DEF Page!initialize
<1>. QED  BY <1>1, PageTypes DEF PageState

\* A request is sent: nothing waits, and nothing does yet.
LEMMA Sends ==
  ASSUME PageInv, NEW k \in Calls, NEW why \in {"fetch", "rotate", "refresh"},
         NEW r \in Roles \cup {None}, Page(FALSE)!Send(k, why, r),
         UNCHANGED <<state, cookie, issued, torn, clock>>
  PROVE  PageInv'
<1>1. /\ \A j \in Calls : flight[j] = None
      /\ flight' = [flight EXCEPT ![k] = [why |-> why, role |-> r, token |-> None]]
  BY DEF Page!Send, Page!Idle
<1>2. [why |-> why, role |-> r, token |-> None] \in PageFlight  BY DEF PageFlight
<1>3. flight' \in [Calls -> PageFlight \cup {None}]  BY <1>1, <1>2, PageTypes DEF PageInv
<1>4. flight'[k].token = None /\ \A j \in Calls : j # k => flight'[j] = None
  BY <1>1, PageTypes DEF PageInv
<1>5. \A j \in Calls : ~Waiting(j) /\ ~Waiting(j)'  BY <1>1, <1>4 DEF Waiting
<1>6. OneCall'  BY <1>4 DEF OneCall
<1>7. Page(FALSE)!TypeOK'  BY <1>3, PageTypes, PageTyped DEF PageInv
<1>. QED  BY <1>5, <1>6, <1>7 DEF PageInv

\* One call at a time, the cookie and the token stay in step.
LEMMA PageMoves ==
  ASSUME PageInv, Page(FALSE)!Next
  PROVE  PageInv'
<1>. USE DEF PageInv
<1>0. /\ state \in PageState /\ cookie \in Tokens \cup {None} /\ issued \in SUBSET Tokens
      /\ flight \in [Calls -> PageFlight \cup {None}] /\ torn \in BOOLEAN
      /\ clock \in 0 .. MaxPage /\ None \notin Tokens /\ None \notin PageFlight
  BY PageTypes
<1>1. ASSUME NEW k \in Calls, Page(FALSE)!fetchToken(k)  PROVE PageInv'
  <2>1. /\ \A j \in Calls : flight[j] = None
        /\ UNCHANGED <<cookie, issued, clock>> /\ torn' = (torn /\ cookie = None)
    BY <1>1 DEF Page!fetchToken, Page!Idle
  <2>2. CASE cookie # None
    <3>1. Page(FALSE)!initialize(cookie, None) /\ flight' = flight
      BY <1>1, <2>2 DEF Page!fetchToken
    <3>2. state' \in PageState /\ state'.token = cookie  BY <1>0, <2>2, <3>1, Initializes
    <3>3. torn' = FALSE  BY <2>1, <2>2
    <3>4. Page(FALSE)!TypeOK'  BY <1>0, <2>1, <3>1, <3>2, <3>3, PageTyped
    <3>. QED  BY <2>1, <3>1, <3>2, <3>4 DEF OneCall, Waiting
  <2>3. CASE cookie = None
    <3>1. Page(FALSE)!Send(k, "fetch", None) /\ state' = state  BY <1>1, <2>3 DEF Page!fetchToken
    <3>2. torn' = torn  BY <1>0, <2>1, <2>3
    <3>. QED  BY <2>1, <3>1, <3>2, Sends
  <2>. QED  BY <2>2, <2>3
<1>2. ASSUME NEW k \in Calls, Page(FALSE)!refreshIfNeeded(k)  PROVE PageInv'
  <2>1. Page(FALSE)!Send(k, "refresh", state.role) /\ UNCHANGED <<state, cookie, issued, torn, clock>>
    BY <1>2 DEF Page!refreshIfNeeded
  <2>2. state.role \in Roles \cup {None}  BY <1>0 DEF PageState
  <2>. QED  BY <1>0, <2>1, <2>2, Sends
<1>3. ASSUME NEW k \in Calls, NEW r \in Roles, Page(FALSE)!rotateOnRoleChange(k, r)  PROVE PageInv'
  <2>1. Page(FALSE)!Send(k, "rotate", r) /\ UNCHANGED <<state, cookie, issued, torn, clock>>
    BY <1>3 DEF Page!rotateOnRoleChange
  <2>. QED  BY <1>0, <2>1, Sends
<1>4. ASSUME NEW k \in Calls, Page(FALSE)!Answered(k)  PROVE PageInv'
  <2>1. PICK t \in Tokens :
          flight' = [flight EXCEPT ![k].token = t] /\ cookie' = t /\ issued' = issued \cup {t}
    BY <1>4 DEF Page!Answered
  <2>2. flight[k] \in PageFlight /\ UNCHANGED <<state, torn, clock>>
    BY <1>0, <1>4 DEF Page!Answered
  <2>3. PICK f \in PageFlight : f.token = t /\ flight' = [flight EXCEPT ![k] = f]
    <3>1. [flight[k] EXCEPT !.token = t] \in PageFlight /\ [flight[k] EXCEPT !.token = t].token = t
      BY <2>2 DEF PageFlight
    <3>. QED  BY <2>1, <3>1
  <2>4. flight' \in [Calls -> PageFlight \cup {None}] /\ flight'[k] = f
          /\ \A j \in Calls : j # k => flight'[j] = None
    <3>1. \A j \in Calls : j # k => flight[j] = None  BY <1>0, <2>2 DEF OneCall
    <3>. QED  BY <1>0, <2>3, <3>1
  <2>5. Waiting(k)' /\ \A j \in Calls : j # k => ~Waiting(j)'
    BY <1>0, <2>3, <2>4 DEF Waiting
  <2>6. OneCall'  BY <2>4 DEF OneCall
  <2>7. Page(FALSE)!TypeOK'  BY <1>0, <2>1, <2>2, <2>4, PageTyped
  <2>. QED  BY <2>1, <2>3, <2>4, <2>5, <2>6, <2>7
<1>5. ASSUME NEW k \in Calls, flight[k] # None, flight' = [flight EXCEPT ![k] = None],
             state' \in PageState, torn' \in BOOLEAN, UNCHANGED <<cookie, issued, clock>>,
             torn' = FALSE /\ state'.token # None => cookie = state'.token
      PROVE  PageInv'
  <2>1. \A j \in Calls : flight'[j] = None  BY <1>0, <1>5 DEF OneCall
  <2>2. flight' \in [Calls -> PageFlight \cup {None}]  BY <1>0, <1>5
  <2>3. Page(FALSE)!TypeOK'  BY <1>0, <1>5, <2>2, PageTyped
  <2>. QED  BY <1>5, <2>1, <2>3 DEF OneCall, Waiting
<1>6. ASSUME NEW k \in Calls, Page(FALSE)!Lost(k)  PROVE PageInv'
  <2>1. /\ flight[k] # None /\ flight' = [flight EXCEPT ![k] = None]
        /\ torn' = (torn \/ flight[k].token # None) /\ UNCHANGED <<state, cookie, issued, clock>>
    BY <1>6 DEF Page!Lost
  <2>2. ASSUME torn' = FALSE, state.token # None  PROVE cookie = state.token
    <3>1. ~torn /\ ~Waiting(k)  BY <2>1, <2>2 DEF Waiting
    <3>2. \A j \in Calls : ~Waiting(j)  BY <2>1, <3>1 DEF OneCall, Waiting
    <3>. QED  BY <2>2, <3>1, <3>2
  <2>3. torn' \in BOOLEAN  BY <2>1
  <2>. QED  BY <1>0, <1>5, <2>1, <2>2, <2>3
<1>7. ASSUME NEW k \in Calls, Page(FALSE)!Resolve(k)  PROVE PageInv'
  <2>1. /\ flight[k] # None /\ flight[k].token # None /\ torn' = FALSE
        /\ Page(FALSE)!initialize(flight[k].token, Page(FALSE)!answerRole(k))
        /\ flight' = [flight EXCEPT ![k] = None] /\ UNCHANGED <<cookie, issued, clock>>
    BY <1>7 DEF Page!Resolve
  <2>2. flight[k] \in PageFlight /\ flight[k].token \in Tokens  BY <1>0, <2>1 DEF PageFlight
  <2>3. Page(FALSE)!answerRole(k) \in Roles \cup {None}
    BY <1>0, <2>2 DEF Page!answerRole, PageFlight, PageState
  <2>4. state' \in PageState /\ state'.token = flight[k].token  BY <2>1, <2>2, <2>3, Initializes
  <2>5. cookie = flight[k].token  BY <2>1 DEF Waiting
  <2>. QED  BY <1>5, <2>1, <2>4, <2>5
<1>8. ASSUME NEW r \in Roles \cup {None}, Page(FALSE)!Provided(r)  PROVE PageInv'
  <2>1. /\ cookie # None /\ Page(FALSE)!initialize(cookie, r) /\ torn' = FALSE
        /\ UNCHANGED <<cookie, flight, issued, clock>>
    BY <1>8 DEF Page!Provided
  <2>2. state' \in PageState /\ state'.token = cookie  BY <1>0, <2>1, Initializes
  <2>3. Page(FALSE)!TypeOK'  BY <1>0, <2>1, <2>2, PageTyped
  <2>. QED  BY <2>1, <2>2, <2>3 DEF OneCall, Waiting
<1>9. ASSUME NEW r \in Roles \cup {None}, Page(FALSE)!setRole(r)  PROVE PageInv'
  <2>1. state' = [state EXCEPT !.role = r] /\ UNCHANGED <<cookie, flight, issued, torn, clock>>
    BY <1>9 DEF Page!setRole
  <2>2. state' \in PageState /\ state'.token = state.token  BY <1>0, <2>1 DEF PageState
  <2>3. Page(FALSE)!TypeOK'  BY <1>0, <2>1, <2>2, PageTyped
  <2>. QED  BY <2>1, <2>2, <2>3 DEF OneCall, Waiting
<1>10. CASE Page(FALSE)!clear
  <2>1. /\ state' = [token |-> None, expiresAt |-> 0, role |-> None]
        /\ UNCHANGED <<cookie, flight, issued, torn, clock>>
    BY <1>10 DEF Page!clear, Page!Cleared
  <2>2. state' \in PageState /\ state'.token = None
    <3>1. 0 \in 0 .. MaxPage + Lifetime  BY SignedInAssumption DEF Page!CsrfAssumption
    <3>. QED  BY <2>1, <3>1 DEF PageState
  <2>3. Page(FALSE)!TypeOK'  BY <1>0, <2>1, <2>2, PageTyped
  <2>. QED  BY <2>1, <2>2, <2>3 DEF OneCall, Waiting
<1>11. CASE Page(FALSE)!Tick
  <2>1. clock < MaxPage /\ clock' = clock + 1 /\ UNCHANGED <<state, cookie, flight, issued, torn>>
    BY <1>11 DEF Page!Tick
  <2>2. clock' \in 0 .. MaxPage
    <3>1. MaxPage \in Nat  BY SignedInAssumption DEF Page!CsrfAssumption
    <3>. QED  BY <1>0, <2>1, <3>1
  <2>3. Page(FALSE)!TypeOK'  BY <1>0, <2>1, <2>2, PageTyped
  <2>. QED  BY <2>1, <2>3 DEF OneCall, Waiting
<1>. QED  BY <1>1, <1>2, <1>3, <1>4, <1>6, <1>7, <1>8, <1>9, <1>10, <1>11 DEF Page!Next

\* A page arrives with a cookie or without one, and no call waits.
LEMMA PageBegins ==
  ASSUME Page(FALSE)!Init
  PROVE  PageInv
<1>1. /\ cookie \in Tokens \cup {None} /\ issued = {cookie} \ {None} /\ torn = FALSE /\ clock = 0
      /\ state = [token |-> None, expiresAt |-> 0, role |-> None]
      /\ flight = [k \in Calls |-> None]
  BY DEF Page!Init, Page!Cleared
<1>2. Lifetime \in Nat /\ MaxPage \in Nat  BY SignedInAssumption DEF Page!CsrfAssumption
<1>3. Page(FALSE)!TypeOK
  <2>1. clock \in 0 .. MaxPage /\ 0 \in 0 .. MaxPage + Lifetime  BY <1>1, <1>2
  <2>2. state \in PageState  BY <1>1, <2>1 DEF PageState
  <2>3. flight \in [Calls -> PageFlight \cup {None}]  BY <1>1
  <2>. QED  BY <1>1, <2>1, <2>2, <2>3 DEF Page!TypeOK, Page!Flights, Page!Whys, PageState, PageFlight
<1>. QED  BY <1>1, <1>3 DEF PageInv, OneCall, Waiting

\* Nothing moves while another module runs.
LEMMA PageStands ==
  ASSUME PageInv, UNCHANGED <<clock, pageOnly>>
  PROVE  PageInv'
<1>1. UNCHANGED <<state, cookie, flight, issued, torn, clock>>  BY DEF pageOnly
<1>. QED  BY <1>1 DEF PageInv, Page!TypeOK, OneCall, Waiting

\* The headers of a settled store are its token, which the cookie is.
LEMMA HeadersPass ==
  ASSUME PageInv
  PROVE  Page(FALSE)!DoubleSubmitPasses
<1>. SUFFICES ASSUME ~torn, state.token # None, clock < state.expiresAt,
                     \A k \in Calls : flight[k] = None,
                     NEW h \in Page(FALSE)!getHeaders
              PROVE  Page(FALSE)!createCSRFHandle(h)
  BY DEF Page!DoubleSubmitPasses
<1>1. cookie = state.token  BY DEF PageInv, Waiting
<1>2. h = state.token  BY DEF Page!getHeaders
<1>. QED  BY <1>1, <1>2 DEF Page!createCSRFHandle

\* When calls overlap, the answer of a refresh leaves the role that the store has when it comes.
FlightsInv == flight = [k \in Calls |-> flight[k]]

LEMMA FlightsMove ==
  ASSUME FlightsInv, Page(TRUE)!Next
  PROVE  FlightsInv' /\ Page(TRUE)!RefreshKept
<1>1. ASSUME flight' = flight  PROVE FlightsInv' /\ Page(TRUE)!RefreshKept
  BY <1>1 DEF FlightsInv, Page!RefreshKept
<1>2. ASSUME NEW k \in Calls, NEW f, flight' = [flight EXCEPT ![k] = f],
             \/ flight[k] = None
             \/ state'.role = state.role
             \/ flight[k].why = "refresh" => state'.role = state.role
      PROVE  FlightsInv' /\ Page(TRUE)!RefreshKept
  <2>1. FlightsInv'  BY <1>2 DEF FlightsInv
  <2>2. \A j \in Calls : j # k => flight'[j] = flight[j]  BY <1>2 DEF FlightsInv
  <2>. QED  BY <1>2, <2>1, <2>2 DEF Page!RefreshKept
<1>3. ASSUME NEW k \in Calls, Page(TRUE)!fetchToken(k) PROVE FlightsInv' /\ Page(TRUE)!RefreshKept
  BY <1>1, <1>2, <1>3 DEF Page!fetchToken, Page!Send, Page!Idle
<1>4. ASSUME NEW k \in Calls, Page(TRUE)!refreshIfNeeded(k)
      PROVE  FlightsInv' /\ Page(TRUE)!RefreshKept
  BY <1>2, <1>4 DEF Page!refreshIfNeeded, Page!Send, Page!Idle
<1>5. ASSUME NEW k \in Calls, NEW r \in Roles, Page(TRUE)!rotateOnRoleChange(k, r)
      PROVE  FlightsInv' /\ Page(TRUE)!RefreshKept
  BY <1>2, <1>5 DEF Page!rotateOnRoleChange, Page!Send, Page!Idle
<1>6. ASSUME NEW k \in Calls, Page(TRUE)!Answered(k)  PROVE FlightsInv' /\ Page(TRUE)!RefreshKept
  <2>1. PICK t : flight' = [flight EXCEPT ![k].token = t]  BY <1>6 DEF Page!Answered
  <2>2. flight' = [flight EXCEPT ![k] = [flight[k] EXCEPT !.token = t]] /\ state' = state
    BY <1>6, <2>1 DEF FlightsInv, Page!Answered
  <2>. QED  BY <1>2, <2>2
<1>7. ASSUME NEW k \in Calls, Page(TRUE)!Lost(k)  PROVE FlightsInv' /\ Page(TRUE)!RefreshKept
  BY <1>2, <1>7 DEF Page!Lost
<1>8. ASSUME NEW k \in Calls, Page(TRUE)!Resolve(k)  PROVE FlightsInv' /\ Page(TRUE)!RefreshKept
  <2>1. flight' = [flight EXCEPT ![k] = None]
          /\ state'.role = Page(TRUE)!answerRole(k)
    BY <1>8 DEF Page!Resolve, Page!initialize
  <2>2. flight[k].why = "refresh" => state'.role = state.role  BY <2>1 DEF Page!answerRole
  <2>. QED  BY <1>2, <2>1, <2>2
<1>9. ASSUME NEW r \in Roles \cup {None}, Page(TRUE)!setRole(r) \/ Page(TRUE)!Provided(r)
      PROVE  FlightsInv' /\ Page(TRUE)!RefreshKept
  BY <1>1, <1>9 DEF Page!setRole, Page!Provided
<1>10. CASE Page(TRUE)!clear \/ Page(TRUE)!Tick
  BY <1>1, <1>10 DEF Page!clear, Page!Tick
<1>. QED  BY <1>3, <1>4, <1>5, <1>6, <1>7, <1>8, <1>9, <1>10 DEF Page!Next

\* The page that runs is in step.
PageHolds == (running = "serial" => PageInv) /\ (running = "overlapping" => FlightsInv)

\* A settled store's headers pass the double-submit check on a page that runs one call at a time,
\* and a refresh leaves the role on every page (csrf.svelte.ts, createCSRFHandle).
THEOREM PageStaysInStep == SignedInSpec => PageInStep
<1>. DEFINE Step == /\ (running = "serial" => Page(FALSE)!DoubleSubmitPasses)'
                    /\ running = "overlapping" => Page(TRUE)!RefreshKept
<1>1. SignedInInit => PageHolds
  <2>1. Page(TRUE)!Init => FlightsInv  BY DEF Page!Init, FlightsInv
  <2>. QED  BY <2>1, PageBegins DEF SignedInInit, PageHolds
<1>2. PageHolds /\ [SignedInNext]_signedInVars => PageHolds'
  <2>. SUFFICES ASSUME PageHolds, [SignedInNext]_signedInVars PROVE PageHolds'  OBVIOUS
  <2>1. CASE SignedInNext
    <3>1. running' = running
          /\ (running = "serial" => Page(FALSE)!Next) /\ (running = "overlapping" => Page(TRUE)!Next)
      BY <2>1 DEF SignedInNext
    <3>. QED  BY <3>1, PageMoves, FlightsMove DEF PageHolds
  <2>2. CASE UNCHANGED signedInVars
    <3>1. running' = running /\ UNCHANGED <<clock, pageOnly>>  BY <2>2 DEF signedInVars
    <3>. QED  BY <3>1, PageStands DEF PageHolds, FlightsInv, pageOnly
  <2>. QED  BY <2>1, <2>2
<1>3. PageHolds /\ PageHolds' /\ [SignedInNext]_signedInVars => [Step]_<<running, clock, pageOnly>>
  <2>. SUFFICES ASSUME PageHolds, PageHolds', SignedInNext  PROVE Step
    BY DEF signedInVars
  <2>1. PageInv' => (Page(FALSE)!DoubleSubmitPasses)'  BY HeadersPass, PTL
  <2>2. running = "overlapping" => Page(TRUE)!RefreshKept
    <3>1. running = "overlapping" => Page(TRUE)!Next  BY DEF SignedInNext
    <3>. QED  BY <3>1, FlightsMove DEF PageHolds
  <2>. QED  BY <2>1, <2>2 DEF PageHolds
<1>. QED  BY <1>1, <1>2, <1>3, PTL DEF SignedInSpec, PageInStep
=============================================================================
