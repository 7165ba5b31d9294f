------------------------ MODULE SessionStore_proofs ------------------------
(***************************************************************************)
(* sessions.json behind its queue implements SessionContract, for any      *)
(* number of clients, users and ids, either strategy, any I/O failures, and*)
(* keeps the eviction policy of bounded mode.                              *)
(***************************************************************************)
EXTENDS SessionStore, FiniteSetTheorems, TLAPS

Pairs(S) == {[id |-> s.id, userId |-> s.userId] : s \in S}

\* Operations that have not settled are in one line: of any two, one waits for the
\* other, the last waits for all, and only the first has begun.
InLine ==
  /\ \A c \in Clients : ahead[c] \subseteq Unsettled /\ c \notin ahead[c]
  /\ \A c, d \in Unsettled : c = d \/ c \in ahead[d] \/ d \in ahead[c]
  /\ IF tail \in Unsettled THEN Unsettled \subseteq ahead[tail] \cup {tail} ELSE Unsettled = {}
  /\ \A c \in Clients : at[c] = "writing" => ahead[c] = {}

\* the call a client has made carries an id that no session has had
Carries(c) == proc[c] = "login" \/ (call[c].op = "insert" /\ at[c] \in {"queued", "writing"})

\* A drawn id is used by one login at most, and every session is remembered.
Drawn ==
  /\ \A c \in Clients : Carries(c) => call[c].id \in minted /\ \A e \in ever : e.id # call[c].id
  /\ \A c, d \in Clients : Carries(c) /\ Carries(d) /\ call[c].id = call[d].id => c = d
  /\ \A e \in ever : e.id \in minted
  /\ Pairs(sessions) \subseteq ever

\* what an operation takes with it fits what it will write
Fits(o, p, k, v) ==
  /\ o = "insert" => p = "last"
  /\ (o = "insert" \/ p = "login") => k \in Users /\ v \in Roles
  /\ (o = "user" \/ p = "setUser") => v \in Roles
  /\ o = "expires" => v \in Times

\* The document about to be written is a contract step from the one in place.
Follows(a, S, T) ==
  IF a.op = "insert"
  THEN /\ [id |-> a.id, userId |-> a.key] \in Pairs(T)
       /\ Pairs(T) \subseteq Pairs(S) \cup {[id |-> a.id, userId |-> a.key]}
       /\ \A e \in Pairs(S) \ Pairs(T) : e.userId = a.key
  ELSE Pairs(T) \subseteq Pairs(S)

IInv ==
  /\ TypeOK /\ InLine /\ Drawn
  /\ \A c \in Clients : Fits(call[c].op, proc[c], call[c].key, call[c].value)
  /\ \A c \in Clients : at[c] = "writing" => Follows(call[c], sessions, next[c])
  /\ \A c \in Clients : proc[c] = "idle" => at[c] = "idle"

\* Nobody has a session and nobody is served.
LEMMA InitInv == Init => IInv
<1>. SUFFICES ASSUME Init  PROVE IInv  OBVIOUS
<1>. USE SessionAssumption DEF Init
<1>1. AnyId \in Ids  BY DEF AnyId
<1>2. NoAsk \in Asks /\ NoAsk.op = "get"  BY <1>1 DEF NoAsk, Ask, Asks, Ops
<1>3. TypeOK
  <2>1. 1 \in 1 .. MaxNow /\ 0 \in 0 .. MaxNow /\ 0 \in 0 .. MaxFaults  OBVIOUS
  <2>. QED  BY <1>2, <2>1 DEF TypeOK, Procs
<1>4. Unsettled = {}  BY DEF Unsettled
<1>5. InLine  BY <1>4 DEF InLine
<1>6. Pairs(sessions) = {}  BY DEF Pairs
<1>7. \A c \in Clients : call[c] = NoAsk /\ proc[c] = "idle" /\ at[c] = "idle"  OBVIOUS
<1>8. Drawn  BY <1>2, <1>6, <1>7 DEF Drawn, Carries
<1>9. \A c \in Clients : Fits(call[c].op, proc[c], call[c].key, call[c].value)
  BY <1>2, <1>7 DEF Fits
<1>. QED  BY <1>3, <1>5, <1>7, <1>8, <1>9 DEF IInv

\* One operation at a time has begun.
LEMMA OneBegun ==
  ASSUME InLine, NEW c \in Clients, NEW d \in Clients, c \in Unsettled, ahead[c] = {},
         d \in Unsettled, ahead[d] = {}
  PROVE  c = d
BY DEF InLine

\* Joining the line behind the last operation.
LEMMA EnqueueLine ==
  ASSUME TypeOK, InLine, NEW c \in Clients, c \notin Unsettled,
         at' = [at EXCEPT ![c] = "queued"], tail' = c,
         ahead' = [ahead EXCEPT ![c] =
                     IF tail \in Unsettled THEN ahead[tail] \cup {tail} ELSE {}]
  PROVE  InLine'
<1>1. Unsettled' = Unsettled \cup {c}  BY DEF Unsettled, TypeOK
<1>2. ahead'[c] = Unsettled
  <2>1. ahead'[c] = IF tail \in Unsettled THEN ahead[tail] \cup {tail} ELSE {}  BY DEF TypeOK
  <2>2. tail \in Unsettled => tail \in Clients  BY DEF Unsettled
  <2>3. CASE tail \in Unsettled
    <3>1. ahead[tail] \subseteq Unsettled  BY <2>2, <2>3 DEF InLine
    <3>2. Unsettled \subseteq ahead[tail] \cup {tail}  BY <2>3 DEF InLine
    <3>. QED  BY <2>1, <2>3, <3>1, <3>2
  <2>4. CASE tail \notin Unsettled
    <3>1. Unsettled = {}  BY <2>4 DEF InLine
    <3>. QED  BY <2>1, <2>4, <3>1
  <2>. QED  BY <2>3, <2>4
<1>3. \A d \in Clients : d # c => ahead'[d] = ahead[d] /\ at'[d] = at[d]  BY DEF TypeOK
<1>4. at'[c] = "queued"  BY DEF TypeOK
<1>5. \A d \in Clients : ahead'[d] \subseteq Unsettled' /\ d \notin ahead'[d]
  BY <1>1, <1>2, <1>3 DEF InLine
<1>6. \A d, e \in Unsettled' : d = e \/ d \in ahead'[e] \/ e \in ahead'[d]
  <2>1. Unsettled \subseteq Clients  BY DEF Unsettled
  <2>. QED  BY <1>1, <1>2, <1>3, <2>1 DEF InLine
<1>7. tail' \in Unsettled' /\ Unsettled' \subseteq ahead'[tail'] \cup {tail'}  BY <1>1, <1>2
<1>8. \A d \in Clients : at'[d] = "writing" => ahead'[d] = {}  BY <1>3, <1>4 DEF InLine
<1>. QED  BY <1>5, <1>6, <1>7, <1>8 DEF InLine

\* The first operation of the line settles and the others move up.
LEMMA SettleLine ==
  ASSUME TypeOK, InLine, NEW c \in Clients, c \in Unsettled, ahead[c] = {}, NEW r \in BOOLEAN,
         Settle(c, r), tail' = tail
  PROVE  InLine'
<1>1. Unsettled' = Unsettled \ {c}  BY DEF Unsettled, TypeOK, Settle
<1>2. \A d \in Clients : ahead'[d] = ahead[d] \ {c}  BY DEF Settle
<1>3. \A d \in Clients : d # c => at'[d] = at[d]  BY DEF TypeOK, Settle
<1>4. at'[c] = "settled"  BY DEF TypeOK, Settle
<1>5. \A d \in Clients : ahead'[d] \subseteq Unsettled' /\ d \notin ahead'[d]
  BY <1>1, <1>2 DEF InLine
<1>6. \A d, e \in Unsettled' : d = e \/ d \in ahead'[e] \/ e \in ahead'[d]
  <2>1. Unsettled \subseteq Clients  BY DEF Unsettled
  <2>. QED  BY <1>1, <1>2, <2>1 DEF InLine
<1>7. IF tail' \in Unsettled' THEN Unsettled' \subseteq ahead'[tail'] \cup {tail'}
      ELSE Unsettled' = {}
  <2>1. tail \in Unsettled /\ tail \in Clients  BY DEF InLine, Unsettled
  <2>2. CASE tail = c  BY <1>1, <2>2 DEF InLine
  <2>3. CASE tail # c  BY <1>1, <1>2, <2>1, <2>3 DEF InLine
  <2>. QED  BY <2>2, <2>3
<1>8. \A d \in Clients : at'[d] = "writing" => ahead'[d] = {}
  BY <1>2, <1>3, <1>4 DEF InLine
<1>. QED  BY <1>5, <1>6, <1>7, <1>8 DEF InLine

\* Asking the store for something keeps the invariant when what is asked for fits, and
\* a login brings an id that nobody has.
LEMMA EnqueueKeeps ==
  ASSUME IInv, NEW c \in Clients, NEW a \in Asks, NEW p \in Procs, Enqueue(c, a, p),
         at[c] \in {"idle", "done"}, p # "idle", Fits(a.op, p, a.key, a.value),
         minted \subseteq minted', minted' \in SUBSET Ids, lastRenewal' = lastRenewal,
         (p = "login" \/ a.op = "insert") =>
           /\ a.id \in minted' /\ \A e \in ever : e.id # a.id
           /\ \A d \in Clients : d # c /\ Carries(d) => call[d].id # a.id
  PROVE  IInv' /\ UNCHANGED <<sessions, ever>>
<1>. USE DEF Enqueue
<1>1. TypeOK /\ InLine /\ Drawn  BY DEF IInv
<1>2. c \notin Unsettled  BY DEF Unsettled
<1>3. TypeOK'
  <2>1. ahead' \in [Clients -> SUBSET Clients]
    <3>1. (IF tail \in Unsettled THEN ahead[tail] \cup {tail} ELSE {}) \in SUBSET Clients
      BY <1>1 DEF TypeOK, Unsettled
    <3>. QED  BY <1>1, <3>1 DEF TypeOK
  <2>2. at' \in [Clients -> {"idle", "queued", "writing", "settled", "done"}]  BY <1>1 DEF TypeOK
  <2>3. /\ call' \in [Clients -> Asks] /\ proc' \in [Clients -> Procs]
        /\ found' \in [Clients -> SUBSET Sessions] /\ threw' \in [Clients -> BOOLEAN]
    BY <1>1 DEF TypeOK
  <2>. QED  BY <1>1, <2>1, <2>2, <2>3 DEF TypeOK
<1>4. InLine'  BY <1>1, <1>2, EnqueueLine
<1>5. /\ call'[c] = a /\ proc'[c] = p /\ at'[c] = "queued"
      /\ \A d \in Clients : d # c => call'[d] = call[d] /\ proc'[d] = proc[d] /\ at'[d] = at[d]
  BY <1>1 DEF TypeOK
<1>6. Drawn'
  <2>1. \A d \in Clients : Carries(d)' => (d = c /\ (p = "login" \/ a.op = "insert")) \/ (d # c /\ Carries(d))
    BY <1>5 DEF Carries
  <2>2. ASSUME NEW d \in Clients, Carries(d)'
        PROVE  call'[d].id \in minted' /\ \A e \in ever : e.id # call'[d].id
    BY <1>1, <1>5, <2>1, <2>2 DEF Drawn
  <2>3. ASSUME NEW d \in Clients, NEW e \in Clients, Carries(d)', Carries(e)', call'[d].id = call'[e].id
        PROVE  d = e
    BY <1>1, <1>5, <2>1, <2>3 DEF Drawn
  <2>. QED  BY <1>1, <2>2, <2>3 DEF Drawn
<1>7. \A d \in Clients : Fits(call'[d].op, proc'[d], call'[d].key, call'[d].value)
  BY <1>5 DEF IInv
<1>8. \A d \in Clients : at'[d] = "writing" => Follows(call'[d], sessions', next'[d])
  BY <1>5 DEF IInv
<1>9. \A d \in Clients : proc'[d] = "idle" => at'[d] = "idle"  BY <1>5 DEF IInv
<1>. QED  BY <1>3, <1>4, <1>6, <1>7, <1>8, <1>9 DEF IInv

\* The first operation settles, leaving the document it found or the one it made.
LEMMA SettleKeeps ==
  ASSUME IInv, NEW c \in Clients, c \in Unsettled, ahead[c] = {}, NEW r \in BOOLEAN, Settle(c, r),
         UNCHANGED <<now, minted, tail, call, proc, lastRenewal>>,
         UNCHANGED <<sessions, ever>> \/ (at[c] = "writing" /\ Store(c)),
         next' \in [Clients -> SUBSET Sessions], \A d \in Clients : d # c => next'[d] = next[d],
         found' \in [Clients -> SUBSET Sessions], faults' \in 0 .. MaxFaults
  PROVE  IInv' /\ (Contract!Next \/ UNCHANGED <<sessions, ever>>)
<1>1. TypeOK /\ InLine /\ Drawn  BY DEF IInv
<1>2. InLine'  BY <1>1, SettleLine
<1>3. /\ at' \in [Clients -> {"idle", "queued", "writing", "settled", "done"}]
      /\ threw' \in [Clients -> BOOLEAN] /\ ahead' \in [Clients -> SUBSET Clients]
  BY <1>1 DEF Settle, TypeOK
<1>4. /\ at'[c] = "settled" /\ \A d \in Clients : d # c => at'[d] = at[d]
      /\ \A d \in Clients : d # c => at[d] # "writing"
  <2>1. at'[c] = "settled" /\ \A d \in Clients : d # c => at'[d] = at[d]  BY <1>1 DEF Settle, TypeOK
  <2>2. ASSUME NEW d \in Clients, at[d] = "writing"  PROVE d = c
    <3>1. d \in Unsettled /\ ahead[d] = {}  BY <1>1, <2>2 DEF Unsettled, InLine
    <3>. QED  BY <1>1, <3>1, OneBegun
  <2>. QED  BY <2>1, <2>2
<1>5. \A d \in Clients : Carries(d)' => Carries(d)  BY <1>4 DEF Carries
<1>6. \A d \in Clients : Fits(call'[d].op, proc'[d], call'[d].key, call'[d].value)  BY DEF IInv
<1>7. \A d \in Clients : at'[d] = "writing" => Follows(call'[d], sessions', next'[d])
  BY <1>4
<1>. \A d \in Clients : proc'[d] = "idle" => at'[d] = "idle"
  BY <1>4 DEF IInv, Unsettled
<1>8. CASE UNCHANGED <<sessions, ever>>
  <2>1. TypeOK'  BY <1>1, <1>3, <1>8 DEF TypeOK
  <2>2. Drawn'  BY <1>1, <1>5, <1>8 DEF Drawn
  <2>. QED  BY <1>2, <1>6, <1>7, <1>8, <2>1, <2>2 DEF IInv
<1>9. CASE at[c] = "writing" /\ Store(c)
  <2>1. sessions' = next[c] /\ ever' = ever \cup Pairs(next[c])  BY <1>9 DEF Store, Pairs
  <2>2. Follows(call[c], sessions, next[c])  BY <1>9 DEF IInv
  <2>3. next[c] \in SUBSET Sessions /\ call[c] \in Asks  BY <1>1 DEF TypeOK
  <2>4. ever' \in SUBSET [id : Ids, userId : Users]
    <3>1. \A s \in next[c] : [id |-> s.id, userId |-> s.userId] \in [id : Ids, userId : Users]
      BY <2>3 DEF Sessions
    <3>. QED  BY <1>1, <2>1, <3>1 DEF TypeOK, Pairs
  <2>5. TypeOK'  BY <1>1, <1>3, <2>1, <2>3, <2>4 DEF TypeOK
  <2>6. CASE call[c].op = "insert"
    <3>. DEFINE n == [id |-> call[c].id, userId |-> call[c].key]
    <3>1. /\ n \in Pairs(next[c]) /\ Pairs(next[c]) \subseteq Pairs(sessions) \cup {n}
          /\ \A e \in Pairs(sessions) \ Pairs(next[c]) : e.userId = call[c].key
      BY <2>2, <2>6 DEF Follows
    <3>2. ever' = ever \cup {n}  BY <1>1, <2>1, <3>1 DEF Drawn
    <3>3. Carries(c) /\ ~Carries(c)'
      <4>1. proc[c] = "last"  BY <2>6 DEF IInv, Fits
      <4>. QED  BY <1>4, <1>9, <2>6, <4>1 DEF Carries
    <3>4. n.id = call[c].id /\ n.userId = call[c].key /\ n.id \in minted /\ \A e \in ever : e.id # n.id
      BY <1>1, <3>3 DEF Drawn
    <3>5. Drawn'
      <4>1. ASSUME NEW d \in Clients, Carries(d)'
            PROVE  call[d].id \in minted /\ \A e \in ever' : e.id # call[d].id
        <5>1. d # c /\ Carries(d)  BY <1>5, <3>3, <4>1
        <5>2. call[d].id # n.id  BY <1>1, <3>3, <3>4, <5>1 DEF Drawn
        <5>. QED  BY <1>1, <3>2, <5>1, <5>2 DEF Drawn
      <4>2. \A e \in ever' : e.id \in minted  BY <1>1, <3>2, <3>4 DEF Drawn
      <4>3. Pairs(sessions') \subseteq ever'  BY <2>1
      <4>. QED  BY <1>1, <1>5, <4>1, <4>2, <4>3 DEF Drawn
    <3>6. call[c].id \in Ids /\ call[c].key \in Users
      BY <2>3, <2>6 DEF IInv, Fits, Asks
    <3>7. Contract!Create
      BY <2>1, <3>1, <3>2, <3>4, <3>6 DEF Contract!Create, Pairs
    <3>. QED  BY <1>2, <1>6, <1>7, <2>5, <3>5, <3>7 DEF IInv, Contract!Next
  <2>7. CASE call[c].op # "insert"
    <3>1. Pairs(next[c]) \subseteq Pairs(sessions)  BY <2>2, <2>7 DEF Follows
    <3>2. ever' = ever  BY <1>1, <2>1, <3>1 DEF Drawn
    <3>3. Drawn'  BY <1>1, <1>5, <2>1, <3>1, <3>2 DEF Drawn
    <3>4. Contract!End  BY <2>1, <3>1, <3>2 DEF Contract!End, Pairs
    <3>. QED  BY <1>2, <1>6, <1>7, <2>5, <3>3, <3>4 DEF IInv, Contract!Next
  <2>. QED  BY <2>6, <2>7
<1>. QED  BY <1>8, <1>9

\* What a mutator makes of the document is well formed and a step of the contract.
LEMMA AfterFollows ==
  ASSUME IInv, NEW c \in Clients
  PROVE  After(call[c]) \in SUBSET Sessions /\ Follows(call[c], sessions, After(call[c]))
<1>. DEFINE a == call[c]
<1>1. /\ sessions \in SUBSET Sessions /\ a \in Asks /\ now \in 1 .. MaxNow
      /\ Fits(a.op, proc[c], a.key, a.value)
  BY DEF IInv, TypeOK
<1>. HIDE DEF a
<1>2. CASE a.op = "insert"
  <2>1. Fresh(a) \in Sessions /\ Fresh(a).id = a.id /\ Fresh(a).userId = a.key
    <3>1. a.key \in Users /\ a.value \in Roles /\ a.id \in Ids  BY <1>1, <1>2 DEF Fits, Asks
    <3>2. now + SessionMaxAge \in Times  BY <1>1, SessionAssumption DEF Times
    <3>. QED  BY <1>1, <3>1, <3>2 DEF Fresh, Sessions
  <2>2. /\ Fresh(a) \in After(a) /\ After(a) \subseteq sessions \cup {Fresh(a)}
        /\ \A s \in sessions : s.userId # a.key => s \in After(a)
    <3>1. CASE Strategy = "bounded"
      BY <1>2, <2>1, <3>1 DEF After, boundedSessions
    <3>2. CASE Strategy # "bounded"  BY <1>2, <3>2 DEF After
    <3>. QED  BY <3>1, <3>2
  <2>3. [id |-> a.id, userId |-> a.key] \in Pairs(After(a))  BY <2>1, <2>2 DEF Pairs
  <2>4. Pairs(After(a)) \subseteq Pairs(sessions) \cup {[id |-> a.id, userId |-> a.key]}
    BY <2>1, <2>2 DEF Pairs
  <2>5. ASSUME NEW e \in Pairs(sessions) \ Pairs(After(a))  PROVE e.userId = a.key
    <3>1. PICK s \in sessions : e = [id |-> s.id, userId |-> s.userId]  BY <2>5 DEF Pairs
    <3>2. s \notin After(a)  BY <2>5, <3>1 DEF Pairs
    <3>. QED  BY <2>2, <3>1, <3>2
  <2>. QED  BY <1>1, <1>2, <2>1, <2>2, <2>3, <2>4, <2>5 DEF Follows, a
<1>3. CASE a.op \in {"expires", "user"}
  <2>1. ASSUME NEW s \in Sessions
        PROVE  /\ a.op = "expires" => [s EXCEPT !.expires = a.value] \in Sessions
               /\ a.op = "user" => [s EXCEPT !.role = a.value] \in Sessions
               /\ [s EXCEPT !.expires = a.value].id = s.id /\ [s EXCEPT !.expires = a.value].userId = s.userId
               /\ [s EXCEPT !.role = a.value].id = s.id /\ [s EXCEPT !.role = a.value].userId = s.userId
    BY <1>1 DEF Fits, Sessions
  <2>2. CASE a.op = "expires"
    <3>1. After(a) = {IF s.id = a.key THEN [s EXCEPT !.expires = a.value] ELSE s : s \in sessions}
      BY <2>2 DEF After
    <3>2. After(a) \in SUBSET Sessions
      <4>1. ASSUME NEW t \in After(a)  PROVE t \in Sessions
        <5>1. PICK s \in sessions : t = IF s.id = a.key THEN [s EXCEPT !.expires = a.value] ELSE s
          BY <3>1
        <5>2. s \in Sessions  BY <1>1
        <5>3. [s EXCEPT !.expires = a.value] \in Sessions  BY <2>1, <2>2, <5>2
        <5>. QED  BY <5>1, <5>2, <5>3
      <4>. QED  BY <4>1
    <3>3. Pairs(After(a)) \subseteq Pairs(sessions)
      <4>1. ASSUME NEW t \in After(a)
            PROVE  \E s \in sessions : t.id = s.id /\ t.userId = s.userId
        <5>1. PICK s \in sessions : t = IF s.id = a.key THEN [s EXCEPT !.expires = a.value] ELSE s
          BY <3>1
        <5>2. s \in Sessions  BY <1>1
        <5>3. [s EXCEPT !.expires = a.value].id = s.id /\ [s EXCEPT !.expires = a.value].userId = s.userId
          BY <2>1, <5>2
        <5>. QED  BY <5>1, <5>3
      <4>. QED  BY <4>1 DEF Pairs
    <3>. QED  BY <2>2, <3>2, <3>3 DEF Follows, a
  <2>3. CASE a.op = "user"
    <3>1. After(a) = {IF s.id = a.key THEN [s EXCEPT !.role = a.value] ELSE s : s \in sessions}
      BY <2>3 DEF After
    <3>2. After(a) \in SUBSET Sessions
      <4>1. ASSUME NEW t \in After(a)  PROVE t \in Sessions
        <5>1. PICK s \in sessions : t = IF s.id = a.key THEN [s EXCEPT !.role = a.value] ELSE s
          BY <3>1
        <5>2. s \in Sessions  BY <1>1
        <5>3. [s EXCEPT !.role = a.value] \in Sessions  BY <2>1, <2>3, <5>2
        <5>. QED  BY <5>1, <5>2, <5>3
      <4>. QED  BY <4>1
    <3>3. Pairs(After(a)) \subseteq Pairs(sessions)
      <4>1. ASSUME NEW t \in After(a)
            PROVE  \E s \in sessions : t.id = s.id /\ t.userId = s.userId
        <5>1. PICK s \in sessions : t = IF s.id = a.key THEN [s EXCEPT !.role = a.value] ELSE s
          BY <3>1
        <5>2. s \in Sessions  BY <1>1
        <5>3. [s EXCEPT !.role = a.value].id = s.id /\ [s EXCEPT !.role = a.value].userId = s.userId
          BY <2>1, <5>2
        <5>. QED  BY <5>1, <5>3
      <4>. QED  BY <4>1 DEF Pairs
    <3>. QED  BY <2>3, <3>2, <3>3 DEF Follows, a
  <2>. QED  BY <1>3, <2>2, <2>3
<1>4. CASE a.op \notin {"insert", "expires", "user"}
  <2>1. After(a) \subseteq sessions  BY <1>1, <1>4 DEF After, Asks, Ops
  <2>2. Pairs(After(a)) \subseteq Pairs(sessions)  BY <2>1 DEF Pairs
  <2>. QED  BY <1>1, <1>4, <2>1, <2>2 DEF Follows, a
<1>. QED  BY <1>2, <1>3, <1>4

\* The document that the first operation has made waits to be written.
LEMMA MutateKeeps ==
  ASSUME IInv, NEW c \in Clients, Mutate(c)
  PROVE  IInv' /\ UNCHANGED <<sessions, ever>>
<1>. USE DEF Mutate, Running
<1>1. TypeOK /\ InLine /\ Drawn  BY DEF IInv
<1>2. After(call[c]) \in SUBSET Sessions /\ Follows(call[c], sessions, After(call[c]))
  BY AfterFollows
<1>3. /\ at'[c] = "writing" /\ next'[c] = After(call[c])
      /\ \A d \in Clients : d # c => at'[d] = at[d] /\ next'[d] = next[d]
  BY <1>1 DEF TypeOK
<1>4. TypeOK'
  <2>1. next' \in [Clients -> SUBSET Sessions]  BY <1>1, <1>2 DEF TypeOK
  <2>2. found' \in [Clients -> SUBSET Sessions]
    <3>1. PICK k : found' = [found EXCEPT ![c] = {s \in After(call[c]) : s.id = k}]  OBVIOUS
    <3>. QED  BY <1>1, <1>2, <3>1 DEF TypeOK
  <2>3. at' \in [Clients -> {"idle", "queued", "writing", "settled", "done"}]  BY <1>1 DEF TypeOK
  <2>. QED  BY <1>1, <2>1, <2>2, <2>3 DEF TypeOK
<1>5. Unsettled' = Unsettled  BY <1>3 DEF Unsettled
<1>6. InLine'  BY <1>1, <1>3, <1>5 DEF InLine
<1>7. \A d \in Clients : Carries(d)' => Carries(d)  BY <1>3 DEF Carries
<1>8. Drawn'  BY <1>1, <1>7 DEF Drawn
<1>9. \A d \in Clients : at'[d] = "writing" => Follows(call'[d], sessions', next'[d])
  BY <1>2, <1>3 DEF IInv
<1>10. \A d \in Clients : proc'[d] = "idle" => at'[d] = "idle"  BY <1>3 DEF IInv
<1>. QED  BY <1>4, <1>6, <1>8, <1>9, <1>10 DEF IInv

\* Leaving the line and returning to the caller.
LEMMA LeaveKeeps ==
  ASSUME IInv, NEW c \in Clients, at[c] \in {"settled", "done"}, NEW v \in {"done", "idle"},
         at' = [at EXCEPT ![c] = v], UNCHANGED <<sessions, minted, ahead, next, ever>>,
         tail' = tail \/ (tail = c /\ tail' = Nobody),
         \/ UNCHANGED <<call, proc>> /\ v = "done"
         \/ call' = [call EXCEPT ![c] = NoAsk] /\ proc' = [proc EXCEPT ![c] = "idle"] /\ v = "idle",
         found' \in [Clients -> SUBSET Sessions], threw' \in [Clients -> BOOLEAN],
         now' \in 1 .. MaxNow, lastRenewal' \in [Ids -> 0 .. MaxNow], faults' \in 0 .. MaxFaults
  PROVE  IInv' /\ UNCHANGED <<sessions, ever>>
<1>1. TypeOK /\ InLine /\ Drawn  BY DEF IInv
<1>2. NoAsk \in Asks /\ NoAsk.op = "get"  BY SessionAssumption DEF NoAsk, Ask, Asks, Ops, AnyId
<1>3. /\ at'[c] = v /\ \A d \in Clients : d # c => at'[d] = at[d] /\ call'[d] = call[d] /\ proc'[d] = proc[d]
      /\ \/ call'[c] = call[c] /\ proc'[c] = proc[c] /\ v = "done"
         \/ call'[c] = NoAsk /\ proc'[c] = "idle" /\ v = "idle"
  BY <1>1 DEF TypeOK
<1>4. TypeOK'
  <2>1. at' \in [Clients -> {"idle", "queued", "writing", "settled", "done"}]  BY <1>1 DEF TypeOK
  <2>2. call' \in [Clients -> Asks] /\ proc' \in [Clients -> Procs]
    BY <1>1, <1>2 DEF TypeOK, Procs
  <2>3. tail' \in Clients \cup {Nobody}  BY <1>1 DEF TypeOK
  <2>. QED  BY <1>1, <2>1, <2>2, <2>3 DEF TypeOK
<1>5. Unsettled' = Unsettled /\ c \notin Unsettled  BY <1>3 DEF Unsettled
<1>6. InLine'
  <2>1. CASE tail' = tail  BY <1>1, <1>3, <1>5, <2>1 DEF InLine
  <2>2. CASE tail = c /\ tail' = Nobody
    <3>1. Unsettled = {}  BY <1>1, <1>5, <2>2 DEF InLine
    <3>. QED  BY <1>1, <1>3, <1>5, <3>1 DEF InLine
  <2>. QED  BY <2>1, <2>2
<1>7. \A d \in Clients : Carries(d)' => Carries(d) /\ call'[d] = call[d]
  BY <1>2, <1>3 DEF Carries
<1>8. Drawn'  BY <1>1, <1>7 DEF Drawn
<1>9. \A d \in Clients : Fits(call'[d].op, proc'[d], call'[d].key, call'[d].value)
  BY <1>2, <1>3 DEF IInv, Fits
<1>10. \A d \in Clients : at'[d] = "writing" => Follows(call'[d], sessions', next'[d])
  BY <1>3 DEF IInv
<1>11. \A d \in Clients : proc'[d] = "idle" => at'[d] = "idle"  BY <1>3 DEF IInv
<1>. QED  BY <1>4, <1>6, <1>8, <1>9, <1>10, <1>11 DEF IInv

\* Every call that a request makes of the store.
LEMMA RequestKeeps ==
  ASSUME IInv, NEW c \in Clients, Request(c)
  PROVE  IInv' /\ UNCHANGED <<sessions, ever>>
<1>1. TypeOK /\ Drawn  BY DEF IInv
<1>2. AnyId \in Ids /\ 0 \in Nat  BY SessionAssumption DEF AnyId
<1>3. ASSUME NEW entry, NEW a \in Asks, NEW p \in Procs, Start(c, entry, a, p), p # "idle",
             p # "login", a.op # "insert", Fits(a.op, p, a.key, a.value), minted' = minted
      PROVE  IInv' /\ UNCHANGED <<sessions, ever>>
  <2>1. at[c] = "idle" /\ Enqueue(c, a, p) /\ lastRenewal' = lastRenewal
    BY <1>3 DEF Start, IInv
  <2>2. minted' \in SUBSET Ids /\ minted \subseteq minted'  BY <1>1, <1>3 DEF TypeOK
  <2>. QED  BY <1>3, <2>1, <2>2, EnqueueKeeps
<1>4. ASSUME NEW o \in Ops, NEW k \in Ids \cup Users, NEW v \in Nat, NEW i \in Ids
      PROVE  /\ Ask(o, k, v, i) \in Asks /\ Ask(o, k, v, i).op = o /\ Ask(o, k, v, i).key = k
             /\ Ask(o, k, v, i).value = v /\ Ask(o, k, v, i).id = i
  BY DEF Ask, Asks
<1>5. ASSUME NEW u \in Users, removeUserSessions(c, u)
      PROVE  IInv' /\ UNCHANGED <<sessions, ever>>
  BY <1>2, <1>3, <1>4, <1>5 DEF removeUserSessions, Fits, Ops, Procs
<1>6. ASSUME NEW u \in Users, NEW r \in Roles, createSession(c, u, r)
      PROVE  IInv' /\ UNCHANGED <<sessions, ever>>
  <2>. DEFINE o == IF Strategy = "bounded" THEN "insert" ELSE "deleteUser"
              p == IF Strategy = "bounded" THEN "last" ELSE "login"
  <2>1. PICK i \in Ids \ minted :
          Start(c, "createSession", Ask(o, u, r, i), p) /\ minted' = minted \cup {i}
    BY <1>6 DEF createSession
  <2>2. o \in Ops /\ p \in Procs /\ p # "idle" /\ o \notin {"user", "expires"} /\ p # "setUser"
        /\ (o = "insert" => p = "last")
    BY DEF Ops, Procs
  <2>. HIDE DEF o, p
  <2>3. r \in Nat  BY SessionAssumption
  <2>4. /\ Ask(o, u, r, i) \in Asks /\ Ask(o, u, r, i).op = o /\ Ask(o, u, r, i).key = u
        /\ Ask(o, u, r, i).value = r /\ Ask(o, u, r, i).id = i
    BY <1>4, <2>2, <2>3
  <2>5. Fits(o, p, u, r)  BY <2>2 DEF Fits
  <2>6. at[c] = "idle" /\ Enqueue(c, Ask(o, u, r, i), p) /\ lastRenewal' = lastRenewal
    BY <2>1 DEF Start, IInv
  <2>7. i \in minted' /\ (\A e \in ever : e.id # i) /\ \A d \in Clients : Carries(d) => call[d].id # i
    BY <1>1, <2>1 DEF Drawn
  <2>8. minted \subseteq minted' /\ minted' \in SUBSET Ids  BY <1>1, <2>1 DEF TypeOK
  <2>. QED  BY <2>2, <2>4, <2>5, <2>6, <2>7, <2>8, EnqueueKeeps
<1>7. ASSUME NEW i \in minted,
             getSession(c, i) \/ refreshSession(c, i) \/ removeSession(c, i) \/ trackActivityAndRenew(c, i)
      PROVE  IInv' /\ UNCHANGED <<sessions, ever>>
  <2>1. i \in Ids  BY <1>1 DEF TypeOK
  <2>2. PICK o \in {"get", "delete"}, p \in Procs \ {"idle", "login", "setUser"},
             entry \in {"getSession", "refreshSession", "removeSession", "trackActivityAndRenew"} :
          Start(c, entry, Ask(o, i, 0, AnyId), p) /\ minted' = minted
    BY <1>7 DEF getSession, refreshSession, removeSession, trackActivityAndRenew, Procs
  <2>3. o \in Ops /\ o \notin {"insert", "user", "expires"}  BY DEF Ops
  <2>. QED  BY <1>2, <1>3, <1>4, <2>1, <2>2, <2>3 DEF Fits
<1>8. ASSUME NEW i \in minted, NEW r \in Roles, updateSessionUser(c, i, r)
      PROVE  IInv' /\ UNCHANGED <<sessions, ever>>
  <2>1. i \in Ids /\ r \in Nat  BY <1>1, SessionAssumption DEF TypeOK
  <2>2. Start(c, "updateSessionUser", Ask("get", i, r, AnyId), "setUser") /\ minted' = minted
    BY <1>8 DEF updateSessionUser
  <2>3. "get" \in Ops /\ "setUser" \in Procs  BY DEF Ops, Procs
  <2>4. /\ Ask("get", i, r, AnyId) \in Asks /\ Ask("get", i, r, AnyId).op = "get"
        /\ Ask("get", i, r, AnyId).key = i /\ Ask("get", i, r, AnyId).value = r
    BY <1>2, <1>4, <2>1, <2>3
  <2>5. Fits("get", "setUser", i, r)  BY DEF Fits
  <2>. QED  BY <1>3, <2>2, <2>3, <2>4, <2>5
<1>9. ASSUME cleanupExpiredSessions(c)
      PROVE  IInv' /\ UNCHANGED <<sessions, ever>>
  BY <1>2, <1>3, <1>4, <1>9 DEF cleanupExpiredSessions, Fits, Ops, Procs
<1>. QED  BY <1>5, <1>6, <1>7, <1>8, <1>9 DEF Request

\* The chain runs one operation.
LEMMA StorageKeeps ==
  ASSUME IInv, NEW c \in Clients, StorageStep(c) \/ IoFails(c)
  PROVE  IInv' /\ (Contract!Next \/ UNCHANGED <<sessions, ever>>)
<1>1. TypeOK /\ InLine  BY DEF IInv
<1>2. Running(c) => c \in Unsettled /\ ahead[c] = {}  BY DEF Running, Unsettled
<1>3. at[c] = "writing" => c \in Unsettled /\ ahead[c] = {}  BY <1>1 DEF InLine, Unsettled
<1>4. ASSUME ReadOnly(c)  PROVE IInv' /\ UNCHANGED <<sessions, ever>>
  <2>1. found' \in [Clients -> SUBSET Sessions]
    <3>1. Named(call[c].key) \in SUBSET Sessions  BY <1>1 DEF Named, TypeOK
    <3>. QED  BY <1>1, <1>4, <3>1 DEF ReadOnly, TypeOK
  <2>2. /\ Settle(c, FALSE) /\ UNCHANGED <<now, minted, tail, call, proc, lastRenewal>>
        /\ UNCHANGED <<sessions, ever>> /\ next' = next /\ faults' = faults /\ Running(c)
    BY <1>4 DEF ReadOnly
  <2>3. next' \in [Clients -> SUBSET Sessions] /\ faults' \in 0 .. MaxFaults
    BY <1>1, <2>2 DEF TypeOK
  <2>. QED  BY <1>2, <2>1, <2>2, <2>3, SettleKeeps
<1>5. ASSUME Rejects(c)  PROVE IInv' /\ UNCHANGED <<sessions, ever>>
  <2>2. /\ Settle(c, TRUE) /\ UNCHANGED <<now, minted, tail, call, proc, lastRenewal>>
        /\ UNCHANGED <<sessions, ever>> /\ next' = next /\ faults' = faults /\ found' = found
        /\ Running(c)
    BY <1>5 DEF Rejects
  <2>3. /\ next' \in [Clients -> SUBSET Sessions] /\ faults' \in 0 .. MaxFaults
        /\ found' \in [Clients -> SUBSET Sessions]
    BY <1>1, <2>2 DEF TypeOK
  <2>. QED  BY <1>2, <2>2, <2>3, SettleKeeps
<1>6. ASSUME Mutate(c)  PROVE IInv' /\ UNCHANGED <<sessions, ever>>  BY <1>6, MutateKeeps
<1>7. ASSUME next' = [next EXCEPT ![c] = {}]
      PROVE  next' \in [Clients -> SUBSET Sessions] /\ \A d \in Clients : d # c => next'[d] = next[d]
  BY <1>1, <1>7 DEF TypeOK
<1>8. ASSUME Write(c)  PROVE IInv' /\ (Contract!Next \/ UNCHANGED <<sessions, ever>>)
  <2>1. /\ at[c] = "writing" /\ Store(c) /\ Settle(c, FALSE) /\ faults' = faults /\ found' = found
        /\ UNCHANGED <<now, minted, tail, call, proc, lastRenewal>>
        /\ next' = [next EXCEPT ![c] = {}]
    BY <1>8 DEF Write
  <2>2. faults' \in 0 .. MaxFaults /\ found' \in [Clients -> SUBSET Sessions]
    BY <1>1, <2>1 DEF TypeOK
  <2>. QED  BY <1>3, <1>7, <2>1, <2>2, SettleKeeps
<1>9. ASSUME IoFails(c)  PROVE IInv' /\ (Contract!Next \/ UNCHANGED <<sessions, ever>>)
  <2>1. /\ faults < MaxFaults /\ faults' = faults + 1 /\ Settle(c, TRUE) /\ found' = found
        /\ UNCHANGED <<now, minted, tail, call, proc, lastRenewal>>
        /\ next' = [next EXCEPT ![c] = {}]
    BY <1>9 DEF IoFails
  <2>2. faults' \in 0 .. MaxFaults /\ found' \in [Clients -> SUBSET Sessions]
    BY <1>1, <2>1, SessionAssumption DEF TypeOK
  <2>3. /\ Running(c) \/ at[c] = "writing"
        /\ UNCHANGED <<sessions, ever>> \/ (at[c] = "writing" /\ Store(c))
    BY <1>9 DEF IoFails
  <2>. QED  BY <1>2, <1>3, <1>7, <2>1, <2>2, <2>3, SettleKeeps
<1>10. ASSUME Cleanup(c)  PROVE IInv' /\ UNCHANGED <<sessions, ever>>
  <2>1. /\ at[c] = "settled" /\ at' = [at EXCEPT ![c] = "done"]
        /\ UNCHANGED <<sessions, minted, ahead, next, ever>> /\ UNCHANGED <<call, proc>>
        /\ UNCHANGED <<found, threw, now, lastRenewal, faults>>
        /\ tail' = tail \/ (tail = c /\ tail' = Nobody)
    BY <1>10 DEF Cleanup, frame
  <2>2. /\ found' \in [Clients -> SUBSET Sessions] /\ threw' \in [Clients -> BOOLEAN]
        /\ now' \in 1 .. MaxNow /\ lastRenewal' \in [Ids -> 0 .. MaxNow]
        /\ faults' \in 0 .. MaxFaults
    BY <1>1, <2>1 DEF TypeOK
  <2>. QED  BY <2>1, <2>2, LeaveKeeps
<1>. QED  BY <1>4, <1>5, <1>6, <1>8, <1>9, <1>10 DEF StorageStep

\* A request goes on once the store has answered.
LEMMA ResumeKeeps ==
  ASSUME IInv, NEW c \in Clients, Resume(c)
  PROVE  IInv' /\ UNCHANGED <<sessions, ever>>
<1>1. TypeOK /\ Drawn /\ Fits(call[c].op, proc[c], call[c].key, call[c].value)  BY DEF IInv
<1>2. call[c] \in Asks /\ now \in 1 .. MaxNow /\ minted \in SUBSET Ids  BY <1>1 DEF TypeOK
<1>3. ASSUME NEW o \in {"user", "delete", "expires"}, NEW v \in Nat, NEW p \in {"last", "renewed"},
             at[c] = "done", v = call[c].value \/ o = "expires",
             Enqueue(c, [call[c] EXCEPT !.op = o, !.value = v], p),
             UNCHANGED <<minted, lastRenewal>>,
             o = "user" => v \in Roles, o = "expires" => v \in Times
      PROVE  IInv' /\ UNCHANGED <<sessions, ever>>
  <2>. DEFINE a == [call[c] EXCEPT !.op = o, !.value = v]
  <2>1. a \in Asks /\ a.op = o /\ a.value = v  BY <1>2 DEF Asks, Ops
  <2>2. Fits(a.op, p, a.key, a.value)  BY <1>3, <2>1 DEF Fits
  <2>3. p \in Procs /\ p # "idle" /\ p # "login" /\ o # "insert"  BY DEF Procs
  <2>. HIDE DEF a
  <2>4. Enqueue(c, a, p)  BY <1>3 DEF a
  <2>5. lastRenewal' = lastRenewal /\ minted \subseteq minted' /\ minted' \in SUBSET Ids
    BY <1>2, <1>3
  <2>. QED  BY <1>3, <2>1, <2>2, <2>3, <2>4, <2>5, EnqueueKeeps
<1>4. \A o : [call[c] EXCEPT !.op = o] = [call[c] EXCEPT !.op = o, !.value = call[c].value]
  BY <1>2 DEF Asks
<1>5. call[c].value \in Nat /\ now + MaxAge \in Nat /\ now + ActivityExtension \in Nat
      /\ now + MaxAge \in Times /\ now + ActivityExtension \in Times
  BY <1>2, SessionAssumption DEF Asks, Times
<1>6. CASE InsertAfterDelete(c)
  <2>. DEFINE a == [call[c] EXCEPT !.op = "insert"]
  <2>1. /\ a \in Asks /\ a.op = "insert" /\ a.value = call[c].value /\ a.key = call[c].key
        /\ a.id = call[c].id
    BY <1>2 DEF Asks, Ops
  <2>2. proc[c] = "login" /\ at[c] = "done"  BY <1>6 DEF InsertAfterDelete, Answers, Resumes
  <2>3. Fits(a.op, "last", a.key, a.value)  BY <1>1, <2>1, <2>2 DEF Fits
  <2>4. Carries(c)  BY <2>2 DEF Carries
  <2>5. /\ call[c].id \in minted /\ \A e \in ever : e.id # call[c].id
        /\ \A d \in Clients : d # c /\ Carries(d) => call[d].id # call[c].id
    BY <1>1, <2>4 DEF Drawn
  <2>. HIDE DEF a
  <2>6. Enqueue(c, a, "last") /\ minted' = minted /\ lastRenewal' = lastRenewal
    BY <1>6 DEF InsertAfterDelete, a
  <2>7. "last" \in Procs  BY DEF Procs
  <2>8. minted \subseteq minted' /\ minted' \in SUBSET Ids  BY <1>2, <2>6
  <2>. QED  BY <2>1, <2>2, <2>3, <2>5, <2>6, <2>7, <2>8, EnqueueKeeps
<1>7. CASE WriteUser(c)
  <2>1. /\ Enqueue(c, [call[c] EXCEPT !.op = "user"], "last") /\ UNCHANGED <<minted, lastRenewal>>
        /\ at[c] = "done" /\ proc[c] = "setUser"
    BY <1>7 DEF WriteUser, Answers, Resumes
  <2>2. call[c].value \in Roles  BY <1>1, <2>1 DEF Fits
  <2>. QED  BY <1>3, <1>4, <1>5, <2>1, <2>2
<1>8. CASE \E p \in {"validate", "setUser", "refresh"} : DropExpired(c, p, "last")
  <2>1. /\ Enqueue(c, [call[c] EXCEPT !.op = "delete"], "last") /\ UNCHANGED <<minted, lastRenewal>>
        /\ at[c] = "done"
    BY <1>8 DEF DropExpired, Answers, Resumes
  <2>. QED  BY <1>3, <1>4, <1>5, <2>1
<1>9. CASE ExtendExpiry(c, "refresh", "last")
  <2>1. /\ Enqueue(c, [call[c] EXCEPT !.op = "expires", !.value = now + MaxAge], "last")
        /\ UNCHANGED <<minted, lastRenewal>> /\ at[c] = "done"
    BY <1>9 DEF ExtendExpiry, Answers, Resumes
  <2>. QED  BY <1>3, <1>5, <2>1
<1>10. CASE renewSessionOnActivity(c)
  <2>1. /\ Enqueue(c, [call[c] EXCEPT !.op = "expires", !.value = now + ActivityExtension], "renewed")
        /\ UNCHANGED <<minted, lastRenewal>> /\ at[c] = "done"
    BY <1>10 DEF renewSessionOnActivity, Answers, Resumes
  <2>. QED  BY <1>3, <1>5, <2>1
<1>11. ASSUME Finish(c), at[c] = "done", lastRenewal' \in [Ids -> 0 .. MaxNow]
       PROVE  IInv' /\ UNCHANGED <<sessions, ever>>
  <2>1. /\ at' = [at EXCEPT ![c] = "idle"] /\ UNCHANGED <<sessions, minted, ahead, next, ever>>
        /\ tail' = tail /\ call' = [call EXCEPT ![c] = NoAsk] /\ proc' = [proc EXCEPT ![c] = "idle"]
        /\ UNCHANGED <<now, faults>>
    BY <1>11 DEF Finish
  <2>2. found' \in [Clients -> SUBSET Sessions] /\ threw' \in [Clients -> BOOLEAN]
    BY <1>1, <1>11 DEF Finish, TypeOK
  <2>3. now' \in 1 .. MaxNow /\ faults' \in 0 .. MaxFaults  BY <1>1, <2>1 DEF TypeOK
  <2>. QED  BY <1>11, <2>1, <2>2, <2>3, LeaveKeeps
<1>12. CASE RememberRenewal(c)
  <2>1. Finish(c) /\ at[c] = "done" /\ lastRenewal' = [lastRenewal EXCEPT ![call[c].key] = now]
    BY <1>12 DEF RememberRenewal, Answers, Resumes
  <2>2. now \in 0 .. MaxNow  BY <1>2, SessionAssumption
  <2>3. lastRenewal' \in [Ids -> 0 .. MaxNow]  BY <1>1, <2>1, <2>2 DEF TypeOK
  <2>. QED  BY <1>11, <2>1, <2>3
<1>13. CASE Return(c)
  <2>1. Finish(c) /\ at[c] = "done" /\ lastRenewal' = lastRenewal  BY <1>13 DEF Return
  <2>. QED  BY <1>1, <1>11, <2>1 DEF TypeOK
<1>. QED  BY <1>6, <1>7, <1>8, <1>9, <1>10, <1>12, <1>13 DEF Resume

\* Every step keeps the invariant and is a step of the contract or none.
LEMMA StepRefines ==
  ASSUME IInv, [Next]_vars
  PROVE  IInv' /\ [Contract!Next]_<<Pairs(sessions), ever>>
<1>. SUFFICES IInv' /\ (Contract!Next \/ UNCHANGED <<sessions, ever>>)
  BY DEF Pairs
<1>1. ASSUME NEW c \in Clients, Request(c) \/ StorageStep(c) \/ IoFails(c) \/ Resume(c)
      PROVE  IInv' /\ (Contract!Next \/ UNCHANGED <<sessions, ever>>)
  BY <1>1, RequestKeeps, StorageKeeps, ResumeKeeps
<1>2. ASSUME UNCHANGED <<sessions, minted, queue, frame, ever, faults>>,
             now' \in 1 .. MaxNow, lastRenewal' \in [Ids -> 0 .. MaxNow]
      PROVE  IInv' /\ UNCHANGED <<sessions, ever>>
  <2>1. UNCHANGED <<sessions, minted, tail, ahead, at, call, next, found, threw, proc, ever, faults>>
    BY <1>2 DEF queue, frame
  <2>2. TypeOK' /\ InLine' /\ Drawn'
    BY <1>2, <2>1 DEF IInv, TypeOK, InLine, Drawn, Carries, Unsettled, Pairs
  <2>. QED  BY <2>1, <2>2 DEF IInv
<1>3. TypeOK  BY DEF IInv
<1>4. CASE cleanupRenewalTracking
  <2>1. /\ UNCHANGED <<sessions, minted, queue, frame, ever, faults>> /\ now' = now
        /\ lastRenewal' = [i \in Ids |-> IF lastRenewal[i] < now - MinRenewalInterval THEN 0
                                          ELSE lastRenewal[i]]
    BY <1>4 DEF cleanupRenewalTracking
  <2>2. 0 \in 0 .. MaxNow /\ \A i \in Ids : lastRenewal[i] \in 0 .. MaxNow
    BY <1>3, SessionAssumption DEF TypeOK
  <2>3. lastRenewal' \in [Ids -> 0 .. MaxNow]  BY <2>1, <2>2
  <2>. QED  BY <1>2, <1>3, <2>1, <2>3 DEF TypeOK
<1>5. CASE ClockMoves
  <2>1. UNCHANGED <<sessions, minted, queue, frame, ever, faults>> /\ lastRenewal' = lastRenewal
        /\ now' \in 1 .. MaxNow
    BY <1>5 DEF ClockMoves
  <2>. QED  BY <1>2, <1>3, <2>1 DEF TypeOK
<1>6. CASE UNCHANGED vars
  <2>1. UNCHANGED <<sessions, minted, queue, frame, ever, faults>> /\ lastRenewal' = lastRenewal
        /\ now' = now
    BY <1>6 DEF vars
  <2>. QED  BY <1>2, <1>3, <2>1 DEF TypeOK
<1>. QED  BY <1>1, <1>4, <1>5, <1>6 DEF Next

\* The store's state is always well formed: no document with anything but whole
\* sessions is ever written, whatever fails and however requests interleave
\* (file.ts, mutateSessions).
THEOREM TypeCorrect == Spec => []TypeOK
<1>1. IInv /\ [Next]_vars => IInv'  BY StepRefines
<1>2. IInv => TypeOK  BY DEF IInv
<1>. QED  BY <1>1, <1>2, InitInv, PTL DEF Spec

\* sessions.json behind withSessionFileQueue implements SessionContract for any number
\* of clients: no update is lost, so a session that was revoked, replaced or evicted
\* never comes back, and a login costs nobody but its owner a session.
THEOREM Refinement == Spec => KeepsContract
<1>1. Init => Contract!Init  BY DEF Init, Contract!Init
<1>2. IInv /\ [Next]_vars => IInv'  BY StepRefines
<1>3. IInv /\ [Next]_vars => [Contract!Next]_<<Pairs(sessions), ever>>  BY StepRefines
<1>4. IInv /\ [Next]_vars =>
        [Contract!Next]_<<{[id |-> s.id, userId |-> s.userId] : s \in sessions}, ever>>
  BY <1>3 DEF Pairs
<1>. QED  BY <1>1, <1>2, <1>4, InitInv, PTL DEF Spec, KeepsContract, Contract!Spec

(***************************************************************************)
(* The eviction policy of bounded mode.  The queue leaves the document     *)
(* alone between the read and the rename of a login, so what               *)
(* boundedSessions made of it is still right when it replaces it.          *)
(***************************************************************************)

\* the sessions of one user in a document
Of(S, u) == {s \in S : s.userId = u}

\* how many sessions of a document are younger
Rank(S, x) == Cardinality({y \in S : Older(x, y)})

\* a document mutateSessions accepts, with no user above the cap
Capped(S) ==
  /\ assertStoredSessions(S)
  /\ Strategy = "bounded" =>
       \A u \in Users : IsFiniteSet(Of(S, u)) /\ Cardinality(Of(S, u)) <= MaxConcurrent

\* a login at time t turns S into T and evicts the oldest of its user first
EvictsFrom(S, T, u, t) ==
  \A gone \in S \ T, kept \in S \cap T :
    gone.userId = kept.userId /\ kept.userId = u /\ gone.expires > t => Older(gone, kept)

\* what holds of the document in place and of the one about to replace it
PolicyInv ==
  /\ Capped(sessions)
  /\ \A c \in Clients : at[c] = "writing" =>
       /\ Capped(next[c])
       /\ call[c].op = "insert" /\ Strategy = "bounded" =>
            \A s \in found[c] : EvictsFrom(sessions, next[c], call[c].key, s.createdAt)

\* The order of creation is a strict total order on sessions with different ids.
LEMMA OlderOrder ==
  ASSUME NEW a \in Sessions, NEW b \in Sessions, NEW c \in Sessions
  PROVE  /\ ~Older(a, a)
         /\ Older(a, b) /\ Older(b, c) => Older(a, c)
         /\ a.id # b.id => Older(a, b) \/ Older(b, a)
<1>1. \A s \in Sessions : s.createdAt \in Nat /\ s.id \in Nat
  <2>1. \A s \in Sessions : s.createdAt \in 1 .. MaxNow /\ s.id \in Ids  BY DEF Sessions
  <2>2. Ids \subseteq Nat /\ \A n \in 1 .. MaxNow : n \in Nat  BY SessionAssumption
  <2>. QED  BY <2>1, <2>2
<1>2. /\ a.createdAt \in Nat /\ b.createdAt \in Nat /\ c.createdAt \in Nat
      /\ a.id \in Nat /\ b.id \in Nat /\ c.id \in Nat
  BY <1>1
<1>. QED  BY <1>2 DEF Older

\* The older of two sessions has more younger ones.
LEMMA RankOrder ==
  ASSUME NEW S \in SUBSET Sessions, IsFiniteSet(S), NEW a \in S, NEW b \in S
  PROVE  /\ Rank(S, a) \in Nat /\ Rank(S, b) \in Nat
         /\ Older(a, b) => Rank(S, b) < Rank(S, a)
<1>. DEFINE Younger(x) == {y \in S : Older(x, y)}
<1>1. \A x \in S : IsFiniteSet(Younger(x)) /\ Cardinality(Younger(x)) \in Nat
  BY FS_Subset, FS_CardinalityType
<1>2. ASSUME Older(a, b)  PROVE Rank(S, b) < Rank(S, a)
  <2>1. Younger(b) \cup {b} \subseteq Younger(a) /\ b \notin Younger(b)
    BY <1>2, OlderOrder
  <2>. HIDE DEF Younger
  <2>2. Cardinality(Younger(b) \cup {b}) = Cardinality(Younger(b)) + 1
    BY <1>1, <2>1, FS_AddElement
  <2>3. Cardinality(Younger(b) \cup {b}) <= Cardinality(Younger(a))
    BY <1>1, <2>1, FS_Subset
  <2>4. Cardinality(Younger(b)) < Cardinality(Younger(a))
    BY <1>1, <2>2, <2>3
  <2>. QED  BY <2>4 DEF Rank, Younger
<1>. QED  BY <1>1, <1>2 DEF Rank

\* At most k sessions of a document have fewer than k younger ones.
LEMMA NewestFew ==
  ASSUME NEW S \in SUBSET Sessions, IsFiniteSet(S), assertStoredSessions(S), NEW k \in Nat
  PROVE  LET T == {x \in S : Rank(S, x) < k} IN IsFiniteSet(T) /\ Cardinality(T) <= k
<1>. DEFINE T == {x \in S : Rank(S, x) < k}
            f == [x \in T |-> Rank(S, x)]
<1>1. IsFiniteSet(T) /\ Cardinality(T) \in Nat  BY FS_Subset, FS_CardinalityType
<1>2. IsFiniteSet(0 .. k - 1) /\ Cardinality(0 .. k - 1) = k  BY FS_Interval
<1>3. f \in [T -> 0 .. k - 1]
  <2>1. \A x \in T : Rank(S, x) \in 0 .. k - 1  BY RankOrder
  <2>. QED  BY <2>1
<1>4. ASSUME NEW x \in T, NEW y \in T, x # y  PROVE f[x] # f[y]
  <2>1. x \in S /\ y \in S /\ x.id # y.id  BY <1>4 DEF assertStoredSessions
  <2>2. Older(x, y) \/ Older(y, x)  BY <2>1, OlderOrder
  <2>3. Rank(S, x) \in Nat /\ Rank(S, y) \in Nat /\ Rank(S, x) # Rank(S, y)
    BY <2>1, <2>2, RankOrder
  <2>. QED  BY <2>3
<1>. HIDE DEF T, f
<1>5. ~(k < Cardinality(T))  BY <1>1, <1>2, <1>3, <1>4, FS_PigeonHole
<1>6. Cardinality(T) <= k  BY <1>1, <1>5
<1>. QED  BY <1>1, <1>6 DEF T

\* boundedSessions keeps the owner's new session and fewer than the cap of the
\* others, the youngest.
LEMMA BoundedKeeps ==
  ASSUME NEW S \in SUBSET Sessions, Capped(S), NEW n \in Sessions, Strategy = "bounded",
         \A x \in S : x.id # n.id, NEW t \in Nat
  PROVE  LET T == boundedSessions(S, n, t)
         IN  /\ \A u \in Users : IsFiniteSet(Of(T, u)) /\ Cardinality(Of(T, u)) <= MaxConcurrent
             /\ EvictsFrom(S, T, n.userId, t)
<1>. DEFINE T == boundedSessions(S, n, t)
            own == {x \in S : x.userId = n.userId /\ x.expires > t}
            newest == {x \in own : Rank(own, x) < MaxConcurrent - 1}
<1>1. T = {x \in S : x.userId # n.userId} \cup {n} \cup newest
  BY DEF boundedSessions, Rank
<1>2. n.userId \in Users /\ MaxConcurrent - 1 \in Nat /\ own \in SUBSET Sessions
  BY SessionAssumption DEF Sessions
<1>3. IsFiniteSet(own) /\ assertStoredSessions(own)
  <2>1. own \in SUBSET Of(S, n.userId) /\ IsFiniteSet(Of(S, n.userId))
    BY <1>2 DEF Of, Capped
  <2>2. assertStoredSessions(own)  BY DEF Capped, assertStoredSessions
  <2>. QED  BY <2>1, <2>2, FS_Subset
<1>4. IsFiniteSet(newest) /\ Cardinality(newest) <= MaxConcurrent - 1
  <2>. HIDE DEF own
  <2>. QED  BY <1>2, <1>3, NewestFew
<1>5. \A u \in Users : IsFiniteSet(Of(T, u)) /\ Cardinality(Of(T, u)) <= MaxConcurrent
  <2>1. CASE \A u \in Users : u # n.userId => Of(T, u) = Of(S, u)
    <3>1. Of(T, n.userId) = newest \cup {n}  BY <1>1 DEF Of
    <3>2. IsFiniteSet(Of(T, n.userId)) /\ Cardinality(Of(T, n.userId)) <= MaxConcurrent
      <4>1. Cardinality(newest) \in Nat  BY <1>4, FS_CardinalityType
      <4>2. /\ IsFiniteSet(newest \cup {n})
            /\ Cardinality(newest \cup {n}) =
                 IF n \in newest THEN Cardinality(newest) ELSE Cardinality(newest) + 1
        BY <1>4, FS_AddElement
      <4>3. Cardinality(newest \cup {n}) <= MaxConcurrent
        BY <1>4, <4>1, <4>2, SessionAssumption
      <4>. QED  BY <3>1, <4>2, <4>3
    <3>. QED  BY <2>1, <3>2 DEF Capped
  <2>2. \A u \in Users : u # n.userId => Of(T, u) = Of(S, u)  BY <1>1 DEF Of
  <2>. QED  BY <2>1, <2>2
<1>6. EvictsFrom(S, T, n.userId, t)
  <2>1. SUFFICES ASSUME NEW gone \in S \ T, NEW kept \in S \cap T, gone.userId = n.userId,
                        kept.userId = n.userId, gone.expires > t
                 PROVE  Older(gone, kept)
    BY DEF EvictsFrom
  <2>2. kept \in newest /\ kept \in own  BY <1>1, <2>1
  <2>3. gone \in own /\ gone \notin newest  BY <1>1, <2>1
  <2>4. gone.id # kept.id  BY <2>1 DEF Capped, assertStoredSessions
  <2>. HIDE DEF own
  <2>5. /\ Rank(own, kept) \in Nat /\ Rank(own, gone) \in Nat
        /\ Older(kept, gone) => Rank(own, gone) < Rank(own, kept)
    BY <1>2, <1>3, <2>2, <2>3, RankOrder
  <2>6. Rank(own, kept) < MaxConcurrent - 1 /\ ~(Rank(own, gone) < MaxConcurrent - 1)
    BY <2>2, <2>3
  <2>7. ~Older(kept, gone)  BY <1>2, <2>5, <2>6
  <2>8. kept \in Sessions /\ gone \in Sessions  BY <2>1
  <2>. QED  BY <2>4, <2>7, <2>8, OlderOrder
<1>. QED  BY <1>5, <1>6

\* Changing sessions in place, or dropping some, gives no user more of them.
LEMMA NoMoreOf ==
  ASSUME NEW S, NEW T, NEW u, IsFiniteSet(Of(S, u)), NEW g \in [S -> T],
         \A x \in S : g[x].userId = x.userId, \A y \in T : \E x \in S : g[x] = y
  PROVE  IsFiniteSet(Of(T, u)) /\ Cardinality(Of(T, u)) <= Cardinality(Of(S, u))
<1>. DEFINE f == [x \in Of(S, u) |-> g[x]]
<1>1. f \in [Of(S, u) -> Of(T, u)]  BY DEF Of
<1>2. \A y \in Of(T, u) : \E x \in Of(S, u) : f[x] = y  BY DEF Of
<1>. HIDE DEF f
<1>3. f \in Surjection(Of(S, u), Of(T, u))  BY <1>1, <1>2 DEF Surjection
<1>. QED  BY <1>3, FS_Surjection

\* What a mutator makes of a document within the cap is within it, and a login
\* evicts the oldest.
LEMMA MutateCaps ==
  ASSUME IInv, Capped(sessions), NEW c \in Clients, Mutate(c)
  PROVE  /\ Capped(After(call[c]))
         /\ call[c].op = "insert" /\ Strategy = "bounded" =>
              \A s \in found'[c] : EvictsFrom(sessions, After(call[c]), call[c].key, s.createdAt)
<1>. DEFINE a == call[c]
<1>1. /\ sessions \in SUBSET Sessions /\ a \in Asks /\ now \in 1 .. MaxNow
      /\ Fits(a.op, proc[c], a.key, a.value) /\ found \in [Clients -> SUBSET Sessions]
  BY DEF IInv, TypeOK
<1>2. assertStoredSessions(After(a)) /\ at[c] = "queued"  BY DEF Mutate, Running
<1>. HIDE DEF a
<1>3. SUFFICES ASSUME Strategy = "bounded"
               PROVE  /\ \A u \in Users : /\ IsFiniteSet(Of(After(a), u))
                                          /\ Cardinality(Of(After(a), u)) <= MaxConcurrent
                      /\ a.op = "insert" => \A s \in found'[c] :
                           EvictsFrom(sessions, After(a), a.key, s.createdAt)
  BY <1>2 DEF Capped, a
<1>4. CASE a.op = "insert"
  <2>1. a.key \in Users /\ a.value \in Roles /\ a.id \in Ids /\ now \in Nat
    BY <1>1, <1>4, SessionAssumption DEF Fits, Asks
  <2>2. now + SessionMaxAge \in Times  BY <1>1, SessionAssumption DEF Times
  <2>3. /\ Fresh(a) \in Sessions /\ Fresh(a).id = a.id /\ Fresh(a).userId = a.key
        /\ Fresh(a).createdAt = now
    BY <1>1, <2>1, <2>2 DEF Fresh, Sessions
  <2>4. After(a) = boundedSessions(sessions, Fresh(a), now)  BY <1>3, <1>4 DEF After
  <2>5. \A x \in sessions : x.id # a.id
    <3>1. Carries(c)  BY <1>2, <1>4 DEF Carries, a
    <3>2. \A e \in ever : e.id # a.id  BY <3>1 DEF IInv, Drawn, a
    <3>3. \A x \in sessions : [id |-> x.id, userId |-> x.userId] \in ever
      BY DEF IInv, Drawn, Pairs
    <3>. QED  BY <3>2, <3>3
  <2>6. /\ \A u \in Users : /\ IsFiniteSet(Of(After(a), u))
                            /\ Cardinality(Of(After(a), u)) <= MaxConcurrent
        /\ EvictsFrom(sessions, After(a), a.key, now)
    BY <1>1, <1>3, <2>1, <2>3, <2>4, <2>5, BoundedKeeps
  <2>7. Fresh(a) \in After(a)  BY <2>4 DEF boundedSessions
  <2>8. found'[c] = {s \in After(a) : s.id = a.id}
    BY <1>1, <1>4 DEF Mutate, a
  <2>9. \A s \in found'[c] : s = Fresh(a)  BY <1>2, <2>3, <2>7, <2>8 DEF assertStoredSessions
  <2>. QED  BY <2>3, <2>6, <2>9
<1>5. CASE a.op # "insert"
  <2>1. ASSUME NEW g \in [sessions -> After(a)], \A x \in sessions : g[x].userId = x.userId,
               \A y \in After(a) : \E x \in sessions : g[x] = y, NEW u \in Users
        PROVE  IsFiniteSet(Of(After(a), u)) /\ Cardinality(Of(After(a), u)) <= MaxConcurrent
    <3>1. IsFiniteSet(Of(sessions, u)) /\ Cardinality(Of(sessions, u)) <= MaxConcurrent
      BY <1>3 DEF Capped
    <3>2. /\ IsFiniteSet(Of(After(a), u))
          /\ Cardinality(Of(After(a), u)) <= Cardinality(Of(sessions, u))
      BY <2>1, <3>1, NoMoreOf
    <3>3. Cardinality(Of(After(a), u)) \in Nat /\ Cardinality(Of(sessions, u)) \in Nat
      BY <3>1, <3>2, FS_CardinalityType
    <3>. QED  BY <3>1, <3>2, <3>3, SessionAssumption
  <2>2. CASE a.op = "expires"
    <3>. DEFINE g == [s \in sessions |->
                        IF s.id = a.key THEN [s EXCEPT !.expires = a.value] ELSE s]
    <3>1. After(a) = {g[s] : s \in sessions}  BY <2>2 DEF After
    <3>2. \A x \in sessions : g[x].userId = x.userId  BY <1>1 DEF Sessions
    <3>3. \A x \in sessions : g[x] \in After(a)  BY <3>1
    <3>4. g \in [sessions -> After(a)]  BY <3>3
    <3>5. \A y \in After(a) : \E x \in sessions : g[x] = y  BY <3>1
    <3>. HIDE DEF g
    <3>. QED  BY <1>5, <2>1, <3>2, <3>4, <3>5
  <2>3. CASE a.op = "user"
    <3>. DEFINE g == [s \in sessions |->
                        IF s.id = a.key THEN [s EXCEPT !.role = a.value] ELSE s]
    <3>1. After(a) = {g[s] : s \in sessions}  BY <2>3 DEF After
    <3>2. \A x \in sessions : g[x].userId = x.userId  BY <1>1 DEF Sessions
    <3>3. \A x \in sessions : g[x] \in After(a)  BY <3>1
    <3>4. g \in [sessions -> After(a)]  BY <3>3
    <3>5. \A y \in After(a) : \E x \in sessions : g[x] = y  BY <3>1
    <3>. HIDE DEF g
    <3>. QED  BY <1>5, <2>1, <3>2, <3>4, <3>5
  <2>4. CASE a.op \notin {"expires", "user"}
    <3>1. After(a) \subseteq sessions  BY <1>1, <1>5, <2>4 DEF After, Asks, Ops
    <3>2. ASSUME NEW u \in Users
          PROVE  IsFiniteSet(Of(After(a), u)) /\ Cardinality(Of(After(a), u)) <= MaxConcurrent
      <4>1. Of(After(a), u) \in SUBSET Of(sessions, u)  BY <3>1 DEF Of
      <4>2. IsFiniteSet(Of(sessions, u)) /\ Cardinality(Of(sessions, u)) <= MaxConcurrent
        BY <1>3 DEF Capped
      <4>3. /\ IsFiniteSet(Of(After(a), u))
            /\ Cardinality(Of(After(a), u)) <= Cardinality(Of(sessions, u))
        BY <4>1, <4>2, FS_Subset
      <4>4. Cardinality(Of(After(a), u)) \in Nat /\ Cardinality(Of(sessions, u)) \in Nat
        BY <4>2, <4>3, FS_CardinalityType
      <4>. QED  BY <4>2, <4>3, <4>4, SessionAssumption
    <3>. QED  BY <1>5, <3>2
  <2>. QED  BY <1>5, <2>2, <2>3, <2>4
<1>. QED  BY <1>4, <1>5

\* Who writes, and what changes the document: only the operation that has made
\* it replaces it, and nothing else happens to its frame meanwhile.
LEMMA WritersStep ==
  ASSUME IInv, [Next]_vars
  PROVE  /\ sessions' = sessions \/ \E d \in Clients : /\ at[d] = "writing" /\ sessions' = next[d]
                                                       /\ \A c \in Clients : at'[c] # "writing"
         /\ \A c \in Clients : at'[c] = "writing" =>
              \/ Mutate(c) /\ next'[c] = After(call[c]) /\ UNCHANGED <<call, sessions>>
              \/ at[c] = "writing" /\ next'[c] = next[c] /\ found'[c] = found[c] /\ call'[c] = call[c]
<1>1. TypeOK /\ InLine  BY DEF IInv
<1>2. \A c, d \in Clients : at[c] = "writing" /\ at[d] = "writing" => c = d
  <2>1. \A c \in Clients : at[c] = "writing" => c \in Unsettled /\ ahead[c] = {}
    BY <1>1 DEF Unsettled, InLine
  <2>. QED  BY <1>1, <2>1, OneBegun
<1>. DEFINE Kept(c) == /\ at[c] = "writing" /\ next'[c] = next[c] /\ found'[c] = found[c]
                       /\ call'[c] = call[c]
            Quiet == sessions' = sessions /\ \A c \in Clients : at'[c] = "writing" => Kept(c)
<1>3. ASSUME NEW c \in Clients, Request(c)  PROVE Quiet
  <2>1. PICK a, p : Enqueue(c, a, p) /\ at[c] # "writing"
    BY <1>3 DEF Request, removeUserSessions, createSession, getSession, refreshSession,
                removeSession, trackActivityAndRenew, updateSessionUser, cleanupExpiredSessions,
                Start, IInv
  <2>. QED  BY <1>1, <2>1 DEF Enqueue, TypeOK
<1>4. ASSUME NEW c \in Clients, Resume(c)  PROVE Quiet
  <2>1. Finish(c) \/ \E a, p : Enqueue(c, a, p)
    BY <1>4 DEF Resume, InsertAfterDelete, WriteUser, renewSessionOnActivity, RememberRenewal,
                DropExpired, ExtendExpiry, Return
  <2>. QED  BY <1>1, <2>1 DEF Enqueue, Finish, TypeOK
<1>5. ASSUME NEW c \in Clients, ReadOnly(c) \/ Rejects(c) \/ Cleanup(c)  PROVE Quiet
  BY <1>1, <1>5 DEF ReadOnly, Rejects, Cleanup, Settle, frame, TypeOK
<1>6. CASE cleanupRenewalTracking \/ ClockMoves \/ UNCHANGED vars
  BY <1>6 DEF cleanupRenewalTracking, ClockMoves, vars, queue, frame
<1>7. ASSUME NEW c \in Clients, Mutate(c)
      PROVE  /\ UNCHANGED <<call, sessions>> /\ next'[c] = After(call[c])
             /\ \A d \in Clients : d # c /\ at'[d] = "writing" => Kept(d)
  BY <1>1, <1>7 DEF Mutate, TypeOK
<1>8. ASSUME NEW c \in Clients, Write(c) \/ IoFails(c)
      PROVE  /\ sessions' = sessions \/ (at[c] = "writing" /\ sessions' = next[c])
             /\ \A d \in Clients : at'[d] = "writing" => d # c /\ Kept(d)
  BY <1>1, <1>8 DEF Write, IoFails, Store, Settle, TypeOK
<1>. HIDE DEF Kept
<1>9. \A c \in Clients : Kept(c) => at[c] = "writing"  BY DEF Kept
<1>10. CASE \E c \in Clients : Mutate(c)  BY <1>7, <1>10 DEF Kept
<1>11. CASE \E c \in Clients : Write(c) \/ IoFails(c)
  <2>1. PICK c \in Clients : Write(c) \/ IoFails(c)  BY <1>11
  <2>2. /\ sessions' = sessions \/ (at[c] = "writing" /\ sessions' = next[c])
        /\ \A d \in Clients : at'[d] = "writing" => d # c /\ Kept(d)
    BY <1>8, <2>1
  <2>3. at[c] = "writing" => \A d \in Clients : at'[d] # "writing"  BY <1>2, <1>9, <2>2
  <2>. QED  BY <2>2, <2>3 DEF Kept
<1>12. CASE Quiet  BY <1>12 DEF Kept
<1>. QED  BY <1>3, <1>4, <1>5, <1>6, <1>10, <1>11, <1>12 DEF Next, StorageStep

\* Nothing is in the file at first, and every step keeps the policy.
LEMMA PolicyKept ==
  /\ Init => PolicyInv
  /\ IInv /\ PolicyInv /\ [Next]_vars => PolicyInv'
<1>1. ASSUME Init  PROVE PolicyInv
  <2>1. \A u \in Users : Of(sessions, u) = {}  BY <1>1 DEF Init, Of
  <2>2. \A u \in Users : IsFiniteSet(Of(sessions, u)) /\ Cardinality(Of(sessions, u)) = 0
    BY <2>1, FS_EmptySet
  <2>3. 0 <= MaxConcurrent /\ assertStoredSessions(sessions)
    BY <1>1, SessionAssumption DEF Init, assertStoredSessions
  <2>4. Capped(sessions)  BY <2>2, <2>3 DEF Capped
  <2>. QED  BY <1>1, <2>4 DEF Init, PolicyInv
<1>2. ASSUME IInv, PolicyInv, [Next]_vars  PROVE PolicyInv'
  <2>1. Capped(sessions')  BY <1>2, WritersStep DEF PolicyInv
  <2>2. ASSUME NEW c \in Clients, at'[c] = "writing"
        PROVE  /\ Capped(next'[c])
               /\ call'[c].op = "insert" /\ Strategy = "bounded" =>
                    \A s \in found'[c] : EvictsFrom(sessions', next'[c], call'[c].key, s.createdAt)
    <3>1. CASE Mutate(c) /\ next'[c] = After(call[c]) /\ UNCHANGED <<call, sessions>>
      BY <1>2, <3>1, MutateCaps DEF PolicyInv
    <3>2. CASE at[c] = "writing" /\ next'[c] = next[c] /\ found'[c] = found[c] /\ call'[c] = call[c]
      <4>1. sessions' = sessions  BY <1>2, <2>2, WritersStep
      <4>. QED  BY <1>2, <3>2, <4>1 DEF PolicyInv
    <3>. QED  BY <1>2, <2>2, <3>1, <3>2, WritersStep
  <2>3. Capped(sessions)'  BY <2>1 DEF Capped, assertStoredSessions, Of
  <2>. QED  BY <2>2, <2>3 DEF PolicyInv, Capped, EvictsFrom, assertStoredSessions, Of
<1>. QED  BY <1>1, <1>2

\* Bounded mode keeps its promises for any number of racing logins, whatever
\* fails: the file never holds more than maxConcurrentSessions sessions of a
\* user, and a login evicts the oldest of its user's unexpired sessions
\* (session-policy.ts, boundedSessions under mutateSessions).
THEOREM EvictionPolicyKept == Spec => EvictionPolicy
<1>1. PolicyInv => BoundedPerUser  BY DEF PolicyInv, Capped, BoundedPerUser, Of
<1>2. IInv /\ PolicyInv /\ [Next]_vars => EvictsOldest
  <2>1. SUFFICES ASSUME IInv, PolicyInv, [Next]_vars, NEW c \in Clients, at[c] = "writing",
                        at'[c] = "settled", call[c].op = "insert", Strategy = "bounded",
                        NEW gone \in sessions \ sessions', NEW kept \in sessions \cap sessions',
                        gone.userId = kept.userId, kept.userId = call[c].key,
                        NEW s \in found[c], gone.expires > s.createdAt
                 PROVE  Older(gone, kept)
    BY DEF EvictsOldest
  <2>2. PICK d \in Clients : at[d] = "writing" /\ sessions' = next[d]  BY <2>1, WritersStep
  <2>3. c = d
    <3>1. \A x \in Clients : at[x] = "writing" => x \in Unsettled /\ ahead[x] = {}
      BY <2>1 DEF Unsettled, InLine, IInv
    <3>. QED  BY <2>1, <2>2, <3>1, OneBegun DEF IInv
  <2>4. EvictsFrom(sessions, next[c], call[c].key, s.createdAt)  BY <2>1 DEF PolicyInv
  <2>. QED  BY <2>1, <2>2, <2>3, <2>4 DEF EvictsFrom
<1>3. IInv /\ [Next]_vars => IInv'  BY StepRefines
<1>. QED  BY <1>1, <1>2, <1>3, InitInv, PolicyKept, PTL DEF Spec, EvictionPolicy

=============================================================================
