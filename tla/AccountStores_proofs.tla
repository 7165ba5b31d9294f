------------------------ MODULE AccountStores_proofs ------------------------
(***************************************************************************)
(* The account stores for every number of tasks, users, tokens, accounts   *)
(* and tenants.  The invariants of the instances are stated once, over the *)
(* parameters the instances differ in: an adapter whose calls interleave,  *)
(* one whose calls are serialized, and the file adapter.                   *)
(***************************************************************************)
EXTENDS AccountStores, TLAPS

-----------------------------------------------------------------------------
(* FixedTenant.                                                            *)

\* Every id an adapter holds or a call carries is in lower case, and the data under a
\* lower-case id is what was last written for its UUID.
IInv ==
  /\ TypeOK
  /\ \A a \in Apps : tenantId[a] # None =>
       /\ tenantId[a].upper = FALSE
       /\ \A i \in DOMAIN Settings[a] : FirstSet(Settings[a], i) =>
            Settings[a][i].kind = "uuid" /\ Settings[a][i].id.uuid = tenantId[a].uuid
  /\ \A a \in Apps : calls[a] # None => calls[a].tenant.upper = FALSE
  /\ \A u \in Uuids : backend[[uuid |-> u, upper |-> FALSE]] = wrote[u]

\* The backend is empty at the start.
LEMMA InitInv == Init => IInv
BY DEF Init, IInv, TypeOK, Spelled

\* One value of the settings is the first that is set.
LEMMA FirstIsUnique ==
  ASSUME NEW a \in Apps, NEW i \in DOMAIN Settings[a], NEW j \in DOMAIN Settings[a],
         FirstSet(Settings[a], i), FirstSet(Settings[a], j)
  PROVE  i = j
<1>1. Settings[a] \in Seq([kind : {"empty", "junk"}] \cup [kind : {"uuid"}, id : Spelled])
  BY FixedTenantAssumption
<1>2. i \in Nat \ {0} /\ j \in Nat \ {0}  BY <1>1
<1>3. ~(i < j)  BY <1>2 DEF FirstSet
<1>4. ~(j < i)  BY <1>2 DEF FirstSet
<1>. QED  BY <1>2, <1>3, <1>4

\* An id that is resolved is the one of that value.
LEMMA ResolvedIsFirst ==
  ASSUME NEW a \in Apps, resolveAuthTenantId(Settings[a]) # None
  PROVE  /\ resolveAuthTenantId(Settings[a]) \in Spelled
         /\ \A i \in DOMAIN Settings[a] : FirstSet(Settings[a], i) =>
              Settings[a][i].kind = "uuid" /\ Settings[a][i].id = resolveAuthTenantId(Settings[a])
<1>. DEFINE V == [kind : {"empty", "junk"}] \cup [kind : {"uuid"}, id : Spelled]
<1>1. Settings[a] \in Seq(V)  BY FixedTenantAssumption
<1>2. PICK i \in DOMAIN Settings[a] : FirstSet(Settings[a], i) /\ Settings[a][i].kind = "uuid"
  BY DEF resolveAuthTenantId
<1>3. i = CHOOSE n \in DOMAIN Settings[a] : FirstSet(Settings[a], n)  BY <1>2, FirstIsUnique
<1>4. resolveAuthTenantId(Settings[a]) = Settings[a][i].id  BY <1>2, <1>3 DEF resolveAuthTenantId
<1>5. Settings[a][i] \in V  BY <1>1
<1>6. Settings[a][i] \in [kind : {"uuid"}, id : Spelled]  BY <1>2, <1>5
<1>7. Settings[a][i].id \in Spelled  BY <1>6
<1>. QED  BY <1>2, <1>4, <1>7, FirstIsUnique

\* Every step of every application and of the backend keeps the invariant.
LEMMA StepKeeps == IInv /\ [Next]_vars => IInv'
<1>. SUFFICES ASSUME IInv, [Next]_vars PROVE IInv'  OBVIOUS
<1>1. CASE UNCHANGED vars  BY <1>1 DEF vars, IInv, TypeOK
<1>2. ASSUME NEW a \in Apps, createFixedTenantStorageAdapter(a)  PROVE IInv'
  <2>1. PICK id \in Spelled :
          /\ tenantId' = [tenantId EXCEPT ![a] = [id EXCEPT !.upper = FALSE]]
          /\ \A i \in DOMAIN Settings[a] : FirstSet(Settings[a], i) =>
               Settings[a][i].kind = "uuid" /\ Settings[a][i].id = id
    BY <1>2, ResolvedIsFirst DEF createFixedTenantStorageAdapter, toLowerCase
  <2>2. /\ [id EXCEPT !.upper = FALSE] \in Spelled /\ [id EXCEPT !.upper = FALSE].upper = FALSE
        /\ [id EXCEPT !.upper = FALSE].uuid = id.uuid
    BY DEF Spelled
  <2>3. PICK low \in Spelled :
          /\ tenantId' = [tenantId EXCEPT ![a] = low] /\ low.upper = FALSE
          /\ \A i \in DOMAIN Settings[a] : FirstSet(Settings[a], i) =>
               Settings[a][i].kind = "uuid" /\ Settings[a][i].id.uuid = low.uuid
    BY <2>1, <2>2
  <2>4. UNCHANGED <<calls, backend, wrote>>  BY <1>2 DEF createFixedTenantStorageAdapter
  <2>5. TypeOK'  BY <2>3, <2>4 DEF IInv, TypeOK
  <2>6. ASSUME NEW b \in Apps, tenantId'[b] # None
        PROVE  /\ tenantId'[b].upper = FALSE
               /\ \A i \in DOMAIN Settings[b] : FirstSet(Settings[b], i) =>
                    Settings[b][i].kind = "uuid" /\ Settings[b][i].id.uuid = tenantId'[b].uuid
    <3>1. CASE b = a  BY <2>3, <3>1 DEF IInv, TypeOK
    <3>2. CASE b # a  BY <2>3, <2>6, <3>2 DEF IInv, TypeOK
    <3>. QED  BY <3>1, <3>2
  <2>. QED  BY <2>4, <2>5, <2>6 DEF IInv
<1>3. ASSUME NEW a \in Apps, delegate(a)  PROVE IInv'
  <2>1. PICK k \in Keys, v \in Values \cup {None} :
          calls' = [calls EXCEPT ![a] = [tenant |-> tenantId[a], key |-> k, value |-> v]]
    BY <1>3 DEF delegate
  <2>2. tenantId[a] \in Spelled /\ tenantId[a].upper = FALSE  BY <1>3 DEF delegate, IInv, TypeOK
  <2>. QED  BY <1>3, <2>1, <2>2 DEF delegate, IInv, TypeOK
<1>4. ASSUME NEW a \in Apps, Perform(a)  PROVE IInv'
  <2>1. PICK t \in Spelled, k \in Keys, v \in Values \cup {None} :
          /\ calls[a] = [tenant |-> t, key |-> k, value |-> v] /\ t.upper = FALSE
    BY <1>4 DEF Perform, IInv, TypeOK
  <2>2. /\ backend' = [backend EXCEPT ![t] = [backend[t] EXCEPT ![k] = v]]
        /\ wrote' = [wrote EXCEPT ![t.uuid] = [wrote[t.uuid] EXCEPT ![k] = v]]
    BY <1>4, <2>1 DEF Perform, IInv, TypeOK
  <2>3. t.uuid \in Uuids /\ t = [uuid |-> t.uuid, upper |-> FALSE]  BY <2>1 DEF Spelled
  <2>4. TypeOK'
    <3>1. [backend[t] EXCEPT ![k] = v] \in [Keys -> Values \cup {None}]  BY DEF IInv, TypeOK
    <3>2. [wrote[t.uuid] EXCEPT ![k] = v] \in [Keys -> Values \cup {None}]
      BY <2>3 DEF IInv, TypeOK
    <3>3. backend' \in [Spelled -> [Keys -> Values \cup {None}]]  BY <2>2, <3>1 DEF IInv, TypeOK
    <3>4. wrote' \in [Uuids -> [Keys -> Values \cup {None}]]  BY <2>2, <2>3, <3>2 DEF IInv, TypeOK
    <3>. QED  BY <1>4, <3>3, <3>4 DEF Perform, IInv, TypeOK
  <2>5. ASSUME NEW u \in Uuids  PROVE backend'[[uuid |-> u, upper |-> FALSE]] = wrote'[u]
    <3>1. [uuid |-> u, upper |-> FALSE] \in Spelled  BY DEF Spelled
    <3>2. backend[t] = wrote[t.uuid]  BY <2>3 DEF IInv
    <3>3. CASE u = t.uuid  BY <2>2, <2>3, <3>2, <3>3 DEF IInv, TypeOK
    <3>4. CASE u # t.uuid
      <4>1. [uuid |-> u, upper |-> FALSE] # t  BY <3>4
      <4>. QED  BY <2>2, <3>1, <3>4, <4>1 DEF IInv, TypeOK
    <3>. QED  BY <3>3, <3>4
  <2>. QED  BY <1>4, <2>4, <2>5 DEF Perform, IInv, TypeOK
<1>. QED  BY <1>1, <1>2, <1>3, <1>4 DEF Next

\* Every call that reaches the backend carries the id of a tenant (fixedTenant.ts puts
\* it in front of each one).
THEOREM TypeCorrect == Spec => []TypeOK
<1>1. IInv => TypeOK  BY DEF IInv
<1>. QED  BY <1>1, InitInv, StepKeeps, PTL DEF Spec

\* However the settings spell the id of a tenant, its applications share one set of
\* data (resolveAuthTenantId lowers the case of the id it returns).
THEOREM OneTenant == Spec => []OneTenantPerUuid
<1>1. ASSUME IInv  PROVE OneTenantPerUuid
  <2>1. SUFFICES ASSUME NEW a \in Apps, tenantId[a] # None
                 PROVE  backend[tenantId[a]] = wrote[tenantId[a].uuid]
    BY DEF OneTenantPerUuid
  <2>2. tenantId[a] \in Spelled /\ tenantId[a].upper = FALSE  BY <1>1, <2>1 DEF IInv, TypeOK
  <2>3. tenantId[a].uuid \in Uuids /\ tenantId[a] = [uuid |-> tenantId[a].uuid, upper |-> FALSE]
    BY <2>2 DEF Spelled
  <2>. QED  BY <1>1, <2>3 DEF IInv
<1>. QED  BY <1>1, InitInv, StepKeeps, PTL DEF Spec

\* An application gets the tenant of its first setting or none: a setting that is not
\* an id never falls through to a later one (resolveAuthTenantId throws).
THEOREM FirstSettingDecides == Spec => []NeverAnotherTenant
<1>1. ASSUME IInv  PROVE NeverAnotherTenant
  BY <1>1 DEF IInv, NeverAnotherTenant, FirstSet
<1>. QED  BY <1>1, InitInv, StepKeeps, PTL DEF Spec

\* Applications share data exactly when their first settings name one tenant
\* (resolveAuthTenantId and the delegating methods).
THEOREM TenantsKeptApart == Spec => []TenantsApart
<1>1. OneTenantPerUuid /\ NeverAnotherTenant => TenantsApart  BY DEF TenantsApart
<1>. QED  BY <1>1, OneTenant, FirstSettingDecides, PTL

\* Whatever runs in the stores, they are the tenant's module or leave it alone: what is proved
\* of it is proved of them.
LEMMA StoresRunTenant == StoresSpec => Spec
<1>1. StoresInit => Init  BY DEF StoresInit
<1>2. [StoresNext]_storesVars => [Next]_vars  BY DEF StoresNext, storesVars, vars
<1>. QED  BY <1>1, <1>2, PTL DEF StoresSpec, Spec

-----------------------------------------------------------------------------
(* AdminUserRepository.                                                    *)

Account(ids) == [id : ids, handle : Handles, password : 0 .. 1, active : BOOLEAN,
                 githubId : GitHubIds \cup {0}]

\* No two accounts share a handle or an id.
Distinct(S) == \A a, b \in S : (a.handle = b.handle \/ a.id = b.id) => a = b

\* A GitHub account signs in as one active account.
Owned(S) ==
  \A a, b \in S :
    a.active = TRUE /\ b.active = TRUE /\ a.githubId = b.githubId /\ a.githubId # 0 => a = b

RepoTyped(ids) ==
  /\ file \in SUBSET Account(ids) /\ list \in [Tasks -> SUBSET Account(ids)]
  /\ cache \in [LookupKeys -> SUBSET Account(ids)] /\ late \in [Tasks -> BOOLEAN]
  /\ at \in [Tasks -> {"idle", "looking", "checked", "read", "renamed"}]
  /\ ask = [t \in Tasks |-> ask[t]]
  /\ \A t \in Tasks : at[t] = "checked" =>
       ask[t].op = "linkGitHub" /\ ask[t].value \in GitHubIds

\* What a mutator is about to write is as sound as what it read.
ListsDistinct == Distinct(file) /\ \A t \in Tasks : at[t] = "read" => Distinct(list[t])

\* When no write waits to clear the cache, what is cached, and what a lookup that is not
\* late is about to cache, is stored.
CacheSound ==
  (\A t \in Tasks : at[t] # "renamed") =>
    /\ \A k \in LookupKeys \ old : cache[k] \subseteq file
    /\ \A t \in Tasks : at[t] = "looking" /\ late[t] = FALSE => list[t] \subseteq file

\* Under the callers' lock nobody writes between a mutator's check, its read and its
\* write.
LockSound(serialized) ==
  serialized => \A t \in Tasks : at[t] \in {"checked", "read", "renamed"} => lock = t

OwnersSound(serialized, careful) ==
  serialized /\ careful =>
    /\ Owned(file) /\ \A t \in Tasks : at[t] = "read" => Owned(list[t])
    /\ \A t \in Tasks : at[t] = "checked" =>
         \A o \in file : o.githubId = ask[t].value /\ o.active = TRUE => o.id = ask[t].key

RepoInv(serialized, careful, ids) ==
  /\ RepoTyped(ids) /\ ListsDistinct /\ CacheSound
  /\ LockSound(serialized) /\ OwnersSound(serialized, careful)

\* A mutator that starts with a list as sound as the file keeps the invariant.
LEMMA RepoBegins ==
  ASSUME NEW s \in BOOLEAN, NEW c \in BOOLEAN, NEW ids, None \notin Tasks,
         RepoInv(s, c, ids), NEW t \in Tasks, NEW a, NEW S \in SUBSET Account(ids),
         Distinct(S), s /\ c => Owned(S), Repository(s, c, ids)!Begin(t, a, S)
  PROVE  RepoInv(s, c, ids)'
<1>. USE DEF Repository!Begin, Repository!Enter, RepoInv
<1>1. /\ at[t] = "idle" /\ (s => lock = None) /\ lock' = t /\ UNCHANGED <<file, cache, late, old>>
      /\ at' = [at EXCEPT ![t] = "read"] /\ list' = [list EXCEPT ![t] = S]
      /\ ask' = [ask EXCEPT ![t] = a]
  OBVIOUS
<1>2. RepoTyped(ids)'  BY <1>1 DEF RepoTyped
<1>3. ListsDistinct'  BY <1>1 DEF ListsDistinct, RepoTyped, Distinct
<1>4. CacheSound'
  <2>1. \A u \in Tasks : at'[u] # "renamed" => at[u] # "renamed"  BY <1>1 DEF RepoTyped
  <2>2. \A u \in Tasks : at'[u] = "looking" => at[u] = "looking" /\ list'[u] = list[u]
    BY <1>1 DEF RepoTyped
  <2>3. \A u \in Tasks : at[u] = "renamed" => at'[u] = "renamed"  BY <1>1 DEF RepoTyped
  <2>. QED  BY <1>1, <2>2, <2>3 DEF CacheSound
<1>5. LockSound(s)'  BY <1>1 DEF LockSound, RepoTyped
<1>6. OwnersSound(s, c)'  BY <1>1 DEF OwnersSound, LockSound, RepoTyped, Owned
<1>. QED  BY <1>2, <1>3, <1>4, <1>5, <1>6

\* The changes there are.
AllChanges == {"password", "delete", "activate", "linkGitHub", "unlinkGitHub"}

\* What a change p, with a GitHub account v, may make of an account.
ChangeOf(u, n, p, v) ==
  /\ n.id = u.id /\ n.handle = u.handle
  /\ p \notin {"linkGitHub", "unlinkGitHub"} => n.githubId = u.githubId
  /\ p = "linkGitHub" => n.githubId = v
  /\ p = "unlinkGitHub" => n.githubId = 0
  /\ p \notin {"delete", "activate"} => n.active = u.active
  /\ p = "delete" => n.active = FALSE

\* It is an account again.
LEMMA ChangedIs ==
  ASSUME NEW s \in BOOLEAN, NEW c \in BOOLEAN, NEW ids, NEW u \in Account(ids),
         NEW v \in GitHubIds \cup {0}, NEW p \in AllChanges
  PROVE  /\ Repository(s, c, ids)!Changed(u, p, v) \in Account(ids)
         /\ ChangeOf(u, Repository(s, c, ids)!Changed(u, p, v), p, v)
<1>. USE DEF ChangeOf
<1>. DEFINE n == Repository(s, c, ids)!Changed(u, p, v)
<1>0. u.password \in 0 .. 1 /\ 1 - u.password \in 0 .. 1  BY DEF Account
<1>1. CASE p = "password"
  <2>1. n = [u EXCEPT !.password = 1 - u.password]  BY <1>1 DEF Repository!Changed, Account
  <2>. QED  BY <1>0, <1>1, <2>1 DEF Account
<1>2. CASE p = "delete"
  <2>1. n = [u EXCEPT !.active = FALSE]  BY <1>2 DEF Repository!Changed
  <2>. QED  BY <1>2, <2>1 DEF Account
<1>3. CASE p = "activate"
  <2>1. n = [u EXCEPT !.active = TRUE]  BY <1>3 DEF Repository!Changed
  <2>. QED  BY <1>3, <2>1 DEF Account
<1>4. CASE p = "linkGitHub"
  <2>1. n = [u EXCEPT !.githubId = v]  BY <1>4 DEF Repository!Changed
  <2>. QED  BY <1>4, <2>1 DEF Account
<1>5. CASE p = "unlinkGitHub"
  <2>1. n = [u EXCEPT !.githubId = 0]  BY <1>5 DEF Repository!Changed
  <2>. QED  BY <1>5, <2>1 DEF Account
<1>. QED  BY <1>1, <1>2, <1>3, <1>4, <1>5 DEF AllChanges

\* Changing one account of a set keeps its id and its handle, and every other account.
LEMMA WithIs ==
  ASSUME NEW s \in BOOLEAN, NEW c \in BOOLEAN, NEW ids, NEW S \in SUBSET Account(ids), NEW i,
         NEW v \in GitHubIds \cup {0}, NEW p \in AllChanges
  PROVE  /\ Repository(s, c, ids)!With(S, i, p, v) \subseteq Account(ids)
         /\ \A x \in Repository(s, c, ids)!With(S, i, p, v) : \E u \in S :
              /\ x.id = u.id /\ x.handle = u.handle
              /\ u.id # i => x = u
              /\ u.id = i => x = Repository(s, c, ids)!Changed(u, p, v) /\ ChangeOf(u, x, p, v)
<1>. DEFINE C(u) == Repository(s, c, ids)!Changed(u, p, v)
            W == Repository(s, c, ids)!With(S, i, p, v)
<1>1. ASSUME NEW u \in S  PROVE C(u) \in Account(ids) /\ ChangeOf(u, C(u), p, v)
  <2>1. u \in Account(ids)  OBVIOUS
  <2>. QED  BY <2>1, ChangedIs
<1>2. ASSUME NEW x \in W  PROVE \E u \in S : x = IF u.id = i THEN C(u) ELSE u
  BY <1>2 DEF Repository!With
<1>. HIDE DEF C, W
<1>3. W \subseteq Account(ids)  BY <1>1, <1>2
<1>4. ASSUME NEW x \in W
      PROVE  \E u \in S : /\ x.id = u.id /\ x.handle = u.handle /\ (u.id # i => x = u)
                          /\ u.id = i => x = C(u) /\ ChangeOf(u, x, p, v)
  <2>1. PICK u \in S : x = IF u.id = i THEN C(u) ELSE u  BY <1>2
  <2>2. u.id = i => ChangeOf(u, x, p, v)  BY <1>1, <2>1
  <2>3. x.id = u.id /\ x.handle = u.handle  BY <2>1, <2>2 DEF ChangeOf
  <2>. QED  BY <2>1, <2>2, <2>3
<1>. QED  BY <1>3, <1>4 DEF C, W

\* Distinct accounts stay distinct.
LEMMA WithDistinct ==
  ASSUME NEW s \in BOOLEAN, NEW c \in BOOLEAN, NEW ids, NEW S \in SUBSET Account(ids), NEW i,
         NEW v \in GitHubIds \cup {0}, NEW p \in AllChanges, Distinct(S)
  PROVE  Distinct(Repository(s, c, ids)!With(S, i, p, v))
<1>. DEFINE C(u) == Repository(s, c, ids)!Changed(u, p, v)
            W == Repository(s, c, ids)!With(S, i, p, v)
<1>0. \A x \in W : \E u \in S : /\ x.id = u.id /\ x.handle = u.handle
                               /\ (u.id # i => x = u) /\ (u.id = i => x = C(u))
  BY WithIs
<1>. HIDE DEF C, W
<1>1. ASSUME NEW x \in W, NEW y \in W, x.handle = y.handle \/ x.id = y.id  PROVE x = y
  <2>1. PICK u \in S : x.id = u.id /\ x.handle = u.handle
                     /\ (u.id # i => x = u) /\ (u.id = i => x = C(u))
    BY <1>0
  <2>2. PICK w \in S : y.id = w.id /\ y.handle = w.handle
                     /\ (w.id # i => y = w) /\ (w.id = i => y = C(w))
    BY <1>0
  <2>3. u = w  BY <1>1, <2>1, <2>2 DEF Distinct
  <2>. QED  BY <2>1, <2>2, <2>3
<1>2. Distinct(W)  BY <1>1 DEF Distinct
<1>. QED  BY <1>2 DEF W

\* A new account under a fresh id and a handle nobody has.
LEMMA RepoCreates ==
  ASSUME NEW s \in BOOLEAN, NEW c \in BOOLEAN, NEW ids, None \notin Tasks,
         RepoInv(s, c, ids), NEW t \in Tasks, Repository(s, c, ids)!create(t)
  PROVE  RepoInv(s, c, ids)'
<1>1. PICK h \in Handles, i \in {j \in ids : \A u \in file : u.id # j}, g \in GitHubIds \cup {0} :
        /\ \A u \in file : u.handle # h
        /\ c /\ g # 0 => \A u \in file : u.githubId # g
        /\ Repository(s, c, ids)!Begin(t, [op |-> "create", key |-> h, value |-> i],
             file \cup {[id |-> i, handle |-> h, password |-> 0, active |-> TRUE, githubId |-> g]})
  BY DEF Repository!create, Repository!HandleFree
<1>. DEFINE m == [id |-> i, handle |-> h, password |-> 0, active |-> TRUE, githubId |-> g]
<1>0. i \in ids /\ h \in Handles /\ \A u \in file : u.id # i /\ u.handle # h  BY <1>1
<1>2. m \in Account(ids)  BY <1>0 DEF Account
<1>3. PICK n \in Account(ids) : n = m /\ n.id = i /\ n.handle = h /\ n.githubId = g  BY <1>2
<1>. HIDE DEF m
<1>7. PICK S \in SUBSET Account(ids) : S = file \cup {n}  BY DEF RepoInv, RepoTyped
<1>4. Distinct(S)  BY <1>0, <1>3, <1>7 DEF RepoInv, ListsDistinct, Distinct
<1>5. ASSUME s /\ c  PROVE Owned(S)
  <2>1. g # 0 => \A u \in file : u.githubId # g  BY <1>1, <1>5
  <2>2. Owned(file)  BY <1>5 DEF RepoInv, OwnersSound
  <2>. QED  BY <1>3, <1>7, <2>1, <2>2 DEF Owned
<1>6. Repository(s, c, ids)!Begin(t, [op |-> "create", key |-> h, value |-> i], S)
  BY <1>1, <1>3, <1>7 DEF m
<1>. QED  BY <1>4, <1>5, <1>6, RepoBegins

\* A change through update links nobody.
LEMMA RepoUpdates ==
  ASSUME NEW s \in BOOLEAN, NEW c \in BOOLEAN, NEW ids, None \notin Tasks,
         RepoInv(s, c, ids), NEW t \in Tasks, Repository(s, c, ids)!update(t)
  PROVE  RepoInv(s, c, ids)'
<1>1. PICK u \in file, p \in {"password", "delete", "unlinkGitHub"}
                             \cup (IF c THEN {} ELSE {"activate"}) :
        Repository(s, c, ids)!Begin(t, [op |-> p, key |-> u.id, value |-> 0],
                                    Repository(s, c, ids)!With(file, u.id, p, 0))
  BY DEF Repository!update
<1>2. /\ file \in SUBSET Account(ids) /\ Distinct(file) /\ 0 \in GitHubIds \cup {0}
      /\ p \in AllChanges
  BY DEF RepoInv, RepoTyped, ListsDistinct, Account, AllChanges
<1>3. PICK W \in SUBSET Account(ids) : W = Repository(s, c, ids)!With(file, u.id, p, 0)
  BY <1>2, WithIs
<1>4. Distinct(W)  BY <1>2, <1>3, WithDistinct
<1>5. ASSUME s /\ c  PROVE Owned(W)
  <2>1. \A x \in W : \E o \in file : x.id = o.id /\ (x = o \/ ChangeOf(o, x, p, 0))
    BY <1>2, <1>3, WithIs
  <2>2. p \in {"password", "delete", "unlinkGitHub"}  BY <1>5, <1>1
  <2>3. ASSUME NEW x \in W, NEW o \in file, x.active = TRUE, x.githubId # 0, ChangeOf(o, x, p, 0)
        PROVE  o.active = TRUE /\ o.githubId = x.githubId
    BY <2>2, <2>3 DEF ChangeOf
  <2>4. ASSUME NEW x \in W, x.active = TRUE, x.githubId # 0
        PROVE  \E o \in file : x.id = o.id /\ o.active = TRUE /\ o.githubId = x.githubId
    BY <2>1, <2>3, <2>4
  <2>5. Owned(file)  BY <1>5 DEF RepoInv, OwnersSound
  <2>6. ASSUME NEW x \in W, NEW y \in W, x.active = TRUE, y.active = TRUE,
               x.githubId = y.githubId, x.githubId # 0
        PROVE  x = y
    <3>1. PICK o \in file : x.id = o.id /\ o.active = TRUE /\ o.githubId = x.githubId
      BY <2>4, <2>6
    <3>2. PICK q \in file : y.id = q.id /\ q.active = TRUE /\ q.githubId = y.githubId
      BY <2>4, <2>6
    <3>3. x.id = y.id  BY <2>5, <2>6, <3>1, <3>2 DEF Owned
    <3>. QED  BY <1>4, <3>3 DEF Distinct
  <2>. QED  BY <2>6 DEF Owned
<1>6. Repository(s, c, ids)!Begin(t, [op |-> p, key |-> u.id, value |-> 0], W)  BY <1>1, <1>3
<1>. QED  BY <1>4, <1>5, <1>6, RepoBegins

\* A deletion leaves fewer accounts.
LEMMA RepoDeletes ==
  ASSUME NEW s \in BOOLEAN, NEW c \in BOOLEAN, NEW ids, None \notin Tasks,
         RepoInv(s, c, ids), NEW t \in Tasks, Repository(s, c, ids)!deletePermanently(t)
  PROVE  RepoInv(s, c, ids)'
<1>1. PICK u \in file :
        Repository(s, c, ids)!Begin(t, [op |-> "deletePermanently", key |-> u.id, value |-> 0], file \ {u})
  BY DEF Repository!deletePermanently
<1>2. file \ {u} \in SUBSET Account(ids)  BY DEF RepoInv, RepoTyped
<1>3. Distinct(file \ {u})  BY DEF RepoInv, ListsDistinct, Distinct
<1>4. s /\ c => Owned(file \ {u})  BY DEF RepoInv, OwnersSound, Owned
<1>. QED  BY <1>1, <1>2, <1>3, <1>4, RepoBegins

\* linkGitHub goes on when no other active account has the GitHub account.
LEMMA RepoLinks ==
  ASSUME NEW s \in BOOLEAN, NEW c \in BOOLEAN, NEW ids, None \notin Tasks,
         RepoInv(s, c, ids), NEW t \in Tasks, Repository(s, c, ids)!linkGitHub(t)
  PROVE  RepoInv(s, c, ids)'
<1>. USE DEF RepoInv
<1>1. PICK u \in file, g \in GitHubIds :
        /\ \A o \in file : o.githubId = g /\ o.active = TRUE => o.id = u.id
        /\ at[t] = "idle" /\ (s => lock = None) /\ lock' = t
        /\ at' = [at EXCEPT ![t] = "checked"]
        /\ ask' = [ask EXCEPT ![t] = [op |-> "linkGitHub", key |-> u.id, value |-> g]]
        /\ UNCHANGED <<file, cache, list, late, old>>
  <2>1. \A o \in file : o.active \in BOOLEAN  BY DEF RepoTyped, Account
  <2>. QED  BY <2>1 DEF Repository!linkGitHub, Repository!Enter
<1>2. RepoTyped(ids)'  BY <1>1 DEF RepoTyped
<1>3. ListsDistinct'  BY <1>1 DEF ListsDistinct, RepoTyped, Distinct
<1>4. CacheSound'
  <2>1. \A x \in Tasks : at'[x] = "looking" => at[x] = "looking"  BY <1>1 DEF RepoTyped
  <2>2. \A x \in Tasks : at[x] = "renamed" => at'[x] = "renamed"  BY <1>1 DEF RepoTyped
  <2>. QED  BY <1>1, <2>1, <2>2 DEF CacheSound
<1>5. LockSound(s)'  BY <1>1 DEF LockSound, RepoTyped
<1>6. OwnersSound(s, c)'
  <2>1. SUFFICES ASSUME s, c  PROVE OwnersSound(s, c)'  BY DEF OwnersSound
  <2>2. \A x \in Tasks : at'[x] = "read" => at[x] = "read"  BY <1>1 DEF RepoTyped
  <2>3. \A x \in Tasks : at'[x] = "checked" => x = t  BY <1>1, <2>1 DEF LockSound, RepoTyped
  <2>4. ask'[t].value = g /\ ask'[t].key = u.id  BY <1>1 DEF RepoTyped
  <2>. QED  BY <1>1, <2>1, <2>2, <2>3, <2>4 DEF OwnersSound, Owned
<1>. QED  BY <1>2, <1>3, <1>4, <1>5, <1>6

\* A call that returns leaves the file and the lists of the others alone.
LEMMA RepoLeaves ==
  ASSUME NEW s \in BOOLEAN, NEW c \in BOOLEAN, NEW ids, None \notin Tasks,
         RepoInv(s, c, ids), NEW t \in Tasks, Repository(s, c, ids)!Leave(t), file' = file,
         at[t] # "idle",
         cache' \in [LookupKeys -> SUBSET Account(ids)], late' \in [Tasks -> BOOLEAN], CacheSound'
  PROVE  RepoInv(s, c, ids)'
<1>. USE DEF RepoInv
<1>1. /\ at' = [at EXCEPT ![t] = "idle"] /\ list' = [list EXCEPT ![t] = {}]
      /\ lock' = (IF lock = t THEN None ELSE lock)
      /\ \E n : ask' = [ask EXCEPT ![t] = n]
  BY DEF Repository!Leave
<1>2. RepoTyped(ids)'  BY <1>1 DEF RepoTyped
<1>3. ListsDistinct'  BY <1>1 DEF ListsDistinct, RepoTyped, Distinct
<1>4. ASSUME NEW x \in Tasks, at'[x] \in {"checked", "read", "renamed"}
      PROVE  x # t /\ at[x] = at'[x] /\ list'[x] = list[x] /\ ask'[x] = ask[x]
  BY <1>1, <1>4 DEF RepoTyped
<1>5. LockSound(s)'  BY <1>1, <1>4 DEF LockSound
<1>6. OwnersSound(s, c)'  BY <1>1, <1>4 DEF OwnersSound, Owned
<1>. QED  BY <1>2, <1>3, <1>5, <1>6

\* What the file becomes when the link is stored has one owner for the GitHub account.
LEMMA LinkedOwned ==
  ASSUME NEW s \in BOOLEAN, NEW c \in BOOLEAN, NEW ids, NEW S \in SUBSET Account(ids), NEW i,
         NEW v \in GitHubIds, Distinct(S), Owned(S),
         \A o \in S : o.githubId = v /\ o.active = TRUE => o.id = i
  PROVE  Owned(Repository(s, c, ids)!With(S, i, "linkGitHub", v))
<1>1. PICK W : W = Repository(s, c, ids)!With(S, i, "linkGitHub", v)  OBVIOUS
<1>. DEFINE p == "linkGitHub"
<1>2. p \in AllChanges /\ v \in GitHubIds \cup {0}  BY DEF AllChanges
<1>3. Distinct(W)  BY <1>1, <1>2, WithDistinct
<1>4. \A x \in W : \E o \in S :
        x.id = o.id /\ (o.id # i => x = o) /\ (o.id = i => ChangeOf(o, x, p, v))
  BY <1>1, <1>2, WithIs
<1>5. ASSUME NEW x \in W
      PROVE  \E o \in S : /\ x.id = o.id /\ x.active = o.active /\ (o.id # i => x.githubId = o.githubId)
                          /\ o.id = i => x.githubId = v
  BY <1>4 DEF ChangeOf
<1>6. ASSUME NEW x \in W, NEW y \in W, x.active = TRUE, y.active = TRUE, x.githubId = y.githubId,
             x.githubId # 0
      PROVE  x = y
  <2>1. PICK o \in S : /\ x.id = o.id /\ x.active = o.active /\ (o.id # i => x.githubId = o.githubId)
                       /\ o.id = i => x.githubId = v
    BY <1>5
  <2>2. PICK q \in S : /\ y.id = q.id /\ y.active = q.active /\ (q.id # i => y.githubId = q.githubId)
                       /\ q.id = i => y.githubId = v
    BY <1>5
  <2>3. o.id = q.id
    <3>1. CASE o.id = i  BY <1>6, <2>1, <2>2, <3>1
    <3>2. CASE q.id = i  BY <1>6, <2>1, <2>2, <3>2
    <3>3. CASE o.id # i /\ q.id # i  BY <1>6, <2>1, <2>2, <3>3 DEF Owned
    <3>. QED  BY <3>1, <3>2, <3>3
  <2>. QED  BY <1>3, <2>1, <2>2, <2>3 DEF Distinct
<1>. QED  BY <1>1, <1>6 DEF Owned

\* The update of linkGitHub reads the file anew.
LEMMA RepoLinkUpdates ==
  ASSUME NEW s \in BOOLEAN, NEW c \in BOOLEAN, NEW ids, None \notin Tasks,
         RepoInv(s, c, ids), NEW t \in Tasks, Repository(s, c, ids)!LinkUpdate(t)
  PROVE  RepoInv(s, c, ids)'
<1>. USE DEF RepoInv
<1>1. at[t] = "checked" /\ UNCHANGED <<file, cache, late, old>>  BY DEF Repository!LinkUpdate
<1>2. CASE \E u \in file : u.id = ask[t].key
  <2>1. ask[t].op = "linkGitHub" /\ ask[t].value \in GitHubIds  BY <1>1 DEF RepoTyped
  <2>2. PICK v \in GitHubIds : v = ask[t].value  BY <2>1
  <2>14. PICK i : i = ask[t].key  OBVIOUS
  <2>3. "linkGitHub" \in AllChanges /\ v \in GitHubIds \cup {0}  BY DEF AllChanges
  <2>4. file \in SUBSET Account(ids) /\ Distinct(file)  BY DEF RepoTyped, ListsDistinct
  <2>5. PICK W \in SUBSET Account(ids) : W = Repository(s, c, ids)!With(file, i, "linkGitHub", v)
    BY <2>3, <2>4, WithIs
  <2>6. /\ at' = [at EXCEPT ![t] = "read"] /\ list' = [list EXCEPT ![t] = W]
        /\ UNCHANGED <<lock, ask>>
    BY <1>2, <2>1, <2>2, <2>14, <2>5 DEF Repository!LinkUpdate
  <2>7. Distinct(W)  BY <2>3, <2>4, <2>5, WithDistinct
  <2>8. ASSUME s /\ c  PROVE Owned(W)
    <3>1. Owned(file)  BY <2>8 DEF OwnersSound
    <3>2. \A o \in file : o.githubId = v /\ o.active = TRUE => o.id = i
      BY <1>1, <2>2, <2>14, <2>8 DEF OwnersSound
    <3>. QED  BY <2>4, <2>5, <3>1, <3>2, LinkedOwned
  <2>9. RepoTyped(ids)'  BY <1>1, <2>6 DEF RepoTyped
  <2>10. ListsDistinct'  BY <1>1, <2>6, <2>7 DEF ListsDistinct, RepoTyped, Distinct
  <2>11. CacheSound'
    <3>1. \A x \in Tasks : at'[x] = "looking" => at[x] = "looking" /\ list'[x] = list[x]
      BY <1>1, <2>6 DEF RepoTyped
    <3>2. \A x \in Tasks : at[x] = "renamed" => at'[x] = "renamed"  BY <1>1, <2>6 DEF RepoTyped
    <3>. QED  BY <1>1, <3>1, <3>2 DEF CacheSound
  <2>12. LockSound(s)'  BY <1>1, <2>6 DEF LockSound, RepoTyped
  <2>13. OwnersSound(s, c)'  BY <1>1, <2>6, <2>8 DEF OwnersSound, RepoTyped, Owned
  <2>. QED  BY <2>9, <2>10, <2>11, <2>12, <2>13
<1>3. CASE ~ \E u \in file : u.id = ask[t].key
  <2>1. Repository(s, c, ids)!Leave(t)  BY <1>3 DEF Repository!LinkUpdate
  <2>2. at' = [at EXCEPT ![t] = "idle"] /\ list' = [list EXCEPT ![t] = {}]
    BY <2>1 DEF Repository!Leave
  <2>3. \A x \in Tasks : at'[x] = "looking" => at[x] = "looking" /\ list'[x] = list[x]
    BY <2>2 DEF RepoTyped
  <2>4. \A x \in Tasks : at[x] = "renamed" => at'[x] = "renamed"  BY <1>1, <2>2 DEF RepoTyped
  <2>5. CacheSound'  BY <1>1, <2>3, <2>4 DEF CacheSound
  <2>6. cache' \in [LookupKeys -> SUBSET Account(ids)] /\ late' \in [Tasks -> BOOLEAN] /\ at[t] # "idle"
    BY <1>1 DEF RepoTyped
  <2>. QED  BY <1>1, <2>1, <2>5, <2>6, RepoLeaves
<1>. QED  BY <1>2, <1>3

\* A lookup reads what the file holds.
LEMMA RepoLooks ==
  ASSUME NEW s \in BOOLEAN, NEW c \in BOOLEAN, NEW ids, None \notin Tasks,
         RepoInv(s, c, ids), NEW t \in Tasks, NEW k \in LookupKeys,
         Repository(s, c, ids)!Lookup(t, k)
  PROVE  RepoInv(s, c, ids)'
<1>. USE DEF RepoInv
<1>1. PICK S, q :
        /\ S \subseteq file /\ at[t] = "idle" /\ at' = [at EXCEPT ![t] = "looking"]
        /\ list' = [list EXCEPT ![t] = S] /\ ask' = [ask EXCEPT ![t] = q]
        /\ UNCHANGED <<file, cache, lock, late, old>>
  BY DEF Repository!Lookup, Repository!Matching
<1>2. RepoTyped(ids)'  BY <1>1 DEF RepoTyped
<1>3. ListsDistinct'  BY <1>1 DEF ListsDistinct, RepoTyped, Distinct
<1>4. CacheSound'
  <2>1. \A x \in Tasks : at'[x] = "looking" =>
          \/ list'[x] \subseteq file
          \/ at[x] = "looking" /\ late'[x] = late[x] /\ list'[x] = list[x]
    <3>1. list'[t] = S  BY <1>1 DEF RepoTyped
    <3>2. \A x \in Tasks : x # t => at'[x] = at[x] /\ list'[x] = list[x]
      BY <1>1 DEF RepoTyped
    <3>. QED  BY <1>1, <3>1, <3>2
  <2>2. \A x \in Tasks : at[x] = "renamed" => at'[x] = "renamed"  BY <1>1 DEF RepoTyped
  <2>3. UNCHANGED <<file, cache, late, old>>  BY <1>1
  <2>. QED  BY <2>1, <2>2, <2>3 DEF CacheSound
<1>5. LockSound(s)'  BY <1>1 DEF LockSound, RepoTyped
<1>6. OwnersSound(s, c)'  BY <1>1 DEF OwnersSound, RepoTyped, Owned
<1>. QED  BY <1>2, <1>3, <1>4, <1>5, <1>6

\* What a lookup caches is stored, or the key is marked as cached late.
LEMMA RepoFills ==
  ASSUME NEW s \in BOOLEAN, NEW c \in BOOLEAN, NEW ids, None \notin Tasks,
         RepoInv(s, c, ids), NEW t \in Tasks, Repository(s, c, ids)!Fill(t)
  PROVE  RepoInv(s, c, ids)'
<1>. USE DEF RepoInv
<1>1. /\ at[t] = "looking" /\ at' = [at EXCEPT ![t] = "idle"] /\ list' = [list EXCEPT ![t] = {}]
      /\ late' = [late EXCEPT ![t] = FALSE] /\ UNCHANGED <<file, lock>>
      /\ \E n : ask' = [ask EXCEPT ![t] = n]
  BY DEF Repository!Fill
<1>2. \/ UNCHANGED <<cache, old>>
      \/ \E u \in list[t] : \E k :
           /\ cache' = [cache EXCEPT ![k] = {u}] /\ old' = IF late[t] THEN old \cup {k} ELSE old \ {k}
  BY DEF Repository!Fill
<1>3. list[t] \in SUBSET Account(ids) /\ late[t] \in BOOLEAN  BY DEF RepoTyped
<1>4. cache' \in [LookupKeys -> SUBSET Account(ids)]  BY <1>2, <1>3 DEF RepoTyped
<1>5. RepoTyped(ids)'  BY <1>1, <1>4 DEF RepoTyped
<1>6. ListsDistinct'  BY <1>1 DEF ListsDistinct, RepoTyped, Distinct
<1>7. CacheSound'
  <2>1. SUFFICES ASSUME \A x \in Tasks : at'[x] # "renamed"  PROVE CacheSound'  BY DEF CacheSound
  <2>2. \A x \in Tasks : at[x] # "renamed"  BY <1>1, <2>1 DEF RepoTyped
  <2>3. \A x \in Tasks : at'[x] = "looking" => /\ x # t /\ at[x] = "looking" /\ list'[x] = list[x]
                                               /\ late'[x] = late[x]
    BY <1>1 DEF RepoTyped
  <2>4. late[t] = FALSE => list[t] \subseteq file  BY <1>1, <2>2 DEF CacheSound
  <2>5. ASSUME NEW k \in LookupKeys, k \notin old'  PROVE cache'[k] \subseteq file
    <3>1. CASE UNCHANGED <<cache, old>>  BY <2>2, <2>5, <3>1 DEF CacheSound
    <3>2. CASE \E u \in list[t] : \E j :
                 /\ cache' = [cache EXCEPT ![j] = {u}]
                 /\ old' = IF late[t] THEN old \cup {j} ELSE old \ {j}
      <4>0. PICK u \in list[t] :
              \E j : /\ cache' = [cache EXCEPT ![j] = {u}]
                     /\ old' = IF late[t] THEN old \cup {j} ELSE old \ {j}
        BY <3>2
      <4>1. PICK j : /\ cache' = [cache EXCEPT ![j] = {u}]
                     /\ old' = IF late[t] THEN old \cup {j} ELSE old \ {j}
        BY <4>0
      <4>2. CASE k = j  BY <1>3, <2>4, <2>5, <4>1, <4>2 DEF RepoTyped
      <4>3. CASE k # j  BY <2>2, <2>5, <4>1, <4>3 DEF CacheSound, RepoTyped
      <4>. QED  BY <4>2, <4>3
    <3>. QED  BY <1>2, <3>1, <3>2
  <2>. QED  BY <1>1, <2>2, <2>3, <2>5 DEF CacheSound
<1>8. LockSound(s)'  BY <1>1 DEF LockSound, RepoTyped
<1>9. OwnersSound(s, c)'  BY <1>1 DEF OwnersSound, RepoTyped, Owned
<1>. QED  BY <1>5, <1>6, <1>7, <1>8, <1>9

\* A key that is forgotten is cached as nothing.
LEMMA RepoForgets ==
  ASSUME NEW s \in BOOLEAN, NEW c \in BOOLEAN, NEW ids, None \notin Tasks,
         RepoInv(s, c, ids), NEW k \in LookupKeys, Repository(s, c, ids)!Forget(k)
  PROVE  RepoInv(s, c, ids)'
<1>. USE DEF RepoInv
<1>1. /\ cache' = [cache EXCEPT ![k] = {}] /\ old' = old \ {k}
      /\ UNCHANGED <<file, lock, at, ask, list, late>>
  BY DEF Repository!Forget
<1>2. RepoTyped(ids)'  BY <1>1 DEF RepoTyped
<1>3. CacheSound'  BY <1>1 DEF CacheSound, RepoTyped
<1>. QED  BY <1>1, <1>2, <1>3 DEF ListsDistinct, LockSound, OwnersSound

\* The list replaces the file.
LEMMA RepoRenames ==
  ASSUME NEW s \in BOOLEAN, NEW c \in BOOLEAN, NEW ids, None \notin Tasks,
         RepoInv(s, c, ids), NEW t \in Tasks, Repository(s, c, ids)!Rename(t)
  PROVE  RepoInv(s, c, ids)'
<1>. USE DEF RepoInv
<1>1. /\ at[t] = "read" /\ file' = list[t] /\ at' = [at EXCEPT ![t] = "renamed"]
      /\ UNCHANGED <<cache, lock, ask, list, late, old>>
  BY DEF Repository!Rename
<1>2. RepoTyped(ids)'  BY <1>1 DEF RepoTyped
<1>3. ListsDistinct'  BY <1>1 DEF ListsDistinct, RepoTyped
<1>4. CacheSound'  BY <1>1 DEF CacheSound, RepoTyped
<1>5. LockSound(s)'  BY <1>1 DEF LockSound, RepoTyped
<1>6. OwnersSound(s, c)'
  <2>1. SUFFICES ASSUME s, c  PROVE OwnersSound(s, c)'  BY DEF OwnersSound
  <2>2. \A x \in Tasks : at'[x] \notin {"checked", "read"}  BY <1>1, <2>1 DEF LockSound, RepoTyped
  <2>. QED  BY <1>1, <2>1, <2>2 DEF OwnersSound
<1>. QED  BY <1>2, <1>3, <1>4, <1>5, <1>6

\* After the write the cache is empty, and every lookup under way is late.
LEMMA RepoClears ==
  ASSUME NEW s \in BOOLEAN, NEW c \in BOOLEAN, NEW ids, None \notin Tasks,
         RepoInv(s, c, ids), NEW t \in Tasks, Repository(s, c, ids)!ClearCache(t)
  PROVE  RepoInv(s, c, ids)'
<1>. USE DEF RepoInv
<1>1. /\ at[t] = "renamed" /\ Repository(s, c, ids)!Leave(t) /\ file' = file
      /\ cache' = [k \in LookupKeys |-> {}]
      /\ late' = [x \in Tasks |-> late[x] \/ x \in Repository(s, c, ids)!Looking]
  BY DEF Repository!ClearCache
<1>2. at' = [at EXCEPT ![t] = "idle"]  BY <1>1 DEF Repository!Leave
<1>3. \A x \in Tasks : at'[x] = "looking" => late'[x] # FALSE
  BY <1>1, <1>2 DEF Repository!Looking, RepoTyped
<1>4. late' \in [Tasks -> BOOLEAN] /\ cache' \in [LookupKeys -> SUBSET Account(ids)]
  BY <1>1 DEF RepoTyped
<1>5. CacheSound'  BY <1>1, <1>3 DEF CacheSound
<1>. QED  BY <1>1, <1>4, <1>5, RepoLeaves

\* A write that fails clears the cache as well.
LEMMA RepoFails ==
  ASSUME NEW s \in BOOLEAN, NEW c \in BOOLEAN, NEW ids, None \notin Tasks,
         RepoInv(s, c, ids), NEW t \in Tasks, Repository(s, c, ids)!WriteFails(t)
  PROVE  RepoInv(s, c, ids)'
<1>. USE DEF RepoInv
<1>1. /\ at[t] = "read" /\ Repository(s, c, ids)!Leave(t) /\ UNCHANGED <<file, late>>
      /\ cache' = [k \in LookupKeys |-> {}]
  BY DEF Repository!WriteFails
<1>2. at' = [at EXCEPT ![t] = "idle"] /\ list' = [list EXCEPT ![t] = {}]
  BY <1>1 DEF Repository!Leave
<1>3. \A x \in Tasks : at'[x] = "looking" => at[x] = "looking" /\ list'[x] = list[x]
  BY <1>2 DEF RepoTyped
<1>4. \A x \in Tasks : at[x] = "renamed" => at'[x] = "renamed"  BY <1>1, <1>2 DEF RepoTyped
<1>5. CacheSound'  BY <1>1, <1>3, <1>4 DEF CacheSound
<1>6. late' \in [Tasks -> BOOLEAN] /\ cache' \in [LookupKeys -> SUBSET Account(ids)]
  BY <1>1 DEF RepoTyped
<1>. QED  BY <1>1, <1>5, <1>6, RepoLeaves

\* The repository starts empty and each of its steps keeps the invariant.
LEMMA RepoKept ==
  ASSUME NEW s \in BOOLEAN, NEW c \in BOOLEAN, NEW ids, None \notin Tasks
  PROVE  /\ Repository(s, c, ids)!Init => RepoInv(s, c, ids)
         /\ RepoInv(s, c, ids) /\ Repository(s, c, ids)!Next => RepoInv(s, c, ids)'
<1>1. ASSUME Repository(s, c, ids)!Init  PROVE RepoInv(s, c, ids)
  <2>1. /\ file = {} /\ cache = [k \in LookupKeys |-> {}] /\ at = [t \in Tasks |-> "idle"]
        /\ list = [t \in Tasks |-> {}] /\ late = [t \in Tasks |-> FALSE]
        /\ ask = [t \in Tasks |-> ask[t]]
    BY <1>1 DEF Repository!Init
  <2>. QED  BY <2>1 DEF RepoInv, RepoTyped, ListsDistinct, Distinct, CacheSound, LockSound,
               OwnersSound, Owned
<1>2. ASSUME RepoInv(s, c, ids), Repository(s, c, ids)!Next  PROVE RepoInv(s, c, ids)'
  BY <1>2, RepoCreates, RepoUpdates, RepoDeletes, RepoLinks, RepoLinkUpdates, RepoLooks,
     RepoFills, RepoForgets, RepoRenames, RepoClears, RepoFails DEF Repository!Next
<1>. QED  BY <1>1, <1>2

\* Both uses of the repository keep it, and what does not run does not move.
ReposInv ==
  /\ running = "locked" => RepoInv(TRUE, TRUE, AccountIds)
  /\ running = "unlocked" => RepoInv(FALSE, FALSE, RacingIds)

\* Every behaviour of the stores keeps it.
LEMMA ReposKept == StoresSpec => []ReposInv
<1>. DEFINE Named == running \in {"tenant", "racing", "gated", "gatedFile", "invited", "invitedFile",
                                  "locked", "unlocked"}
<1>0. None \notin Tasks  BY StoresAssumption DEF Repository!RepositoryAssumption
<1>1. StoresInit => Named /\ ReposInv  BY <1>0, RepoKept DEF StoresInit, ReposInv
<1>2. Named /\ ReposInv /\ [StoresNext]_storesVars => (Named /\ ReposInv)'
  <2>. SUFFICES ASSUME Named, ReposInv, [StoresNext]_storesVars PROVE (Named /\ ReposInv)'  OBVIOUS
  <2>1. CASE UNCHANGED storesVars
    BY <2>1 DEF storesVars, repository, fileVars, ReposInv, RepoInv, RepoTyped, ListsDistinct,
       CacheSound, LockSound, OwnersSound
  <2>2. CASE StoresNext  BY <1>0, <2>2, RepoKept DEF StoresNext, ReposInv
  <2>. QED  BY <2>1, <2>2
<1>. QED  BY <1>1, <1>2, PTL DEF StoresSpec

\* No two accounts share a handle or an id, whether callers serialize or not, and with
\* serialized, careful callers a GitHub account signs in as one active administrator only
\* (create, linkGitHub).
THEOREM OneOwnerAlways == StoresSpec => []OneOwner
<1>1. ReposInv => OneOwner
  <2>1. ASSUME NEW s \in BOOLEAN, NEW c \in BOOLEAN, NEW ids, RepoInv(s, c, ids)
        PROVE  /\ Repository(s, c, ids)!OneAccountPerHandle
               /\ Repository(s, c, ids)!OneOwnerPerGitHub
    BY <2>1 DEF RepoInv, ListsDistinct, Distinct, OwnersSound, Owned, RepoTyped,
       Repository!OneAccountPerHandle, Repository!OneOwnerPerGitHub
  <2>. QED  BY <2>1 DEF ReposInv, OneOwner
<1>. QED  BY <1>1, ReposKept, PTL

\* The cache never serves what a finished write replaced, unless a lookup had read it
\* before (writeUsers' finally, findByHandle).
THEOREM CacheNeverStale == StoresSpec => []CacheForgetsReplaced
<1>1. ReposInv => CacheForgetsReplaced
  <2>1. ASSUME NEW s \in BOOLEAN, NEW c \in BOOLEAN, NEW ids, RepoInv(s, c, ids)
        PROVE  Repository(s, c, ids)!CacheForgetsReplaced
    BY <2>1 DEF RepoInv, CacheSound, Repository!CacheForgetsReplaced
  <2>. QED  BY <2>1 DEF ReposInv, CacheForgetsReplaced
<1>. QED  BY <1>1, ReposKept, PTL

-----------------------------------------------------------------------------
(* Invitations.                                                            *)

Item  == [role : RolesUsed, by : Tokens \cup {None}, expires : Nat, used : BOOLEAN]
Lists == [Tokens -> Item \cup {None}]

\* What a call of each kind carries.
InviteCalls == [kind : {"none", "create", "used", "extend", "delete", "cleanup"},
                token : Tokens \cup {None}, invitation : Item \cup {None}]

Carried(call, drawn) ==
  /\ call.kind \in {"create", "used", "extend", "delete"} => call.token \in drawn
  /\ call.kind \in {"create", "used", "extend"} => call.invitation \in Item

InviteTyped ==
  /\ invites \in Lists /\ next \in [Tasks -> Lists] /\ minted \subseteq Tokens
  /\ joins \in [Tokens -> Nat] /\ now \in Nat
  /\ at \in [Tasks -> {"idle", "join", "store", "write"}]
  /\ op \in [Tasks -> InviteCalls]
  /\ \A k \in Tasks : at[k] = "join" => op[k].kind = "used"
  /\ \A k \in Tasks : at[k] # "idle" => Carried(op[k], minted)

\* Accounts are the founder's or named by the token they came with.
PeopleNamed == \A b \in accounts : b.person \in Tokens \cup {None}

\* Somebody whose role may invite for it, and who ranks above it, stands behind an
\* invitation or an account.
Backed(atomic, serialized, role, by) ==
  \E b \in accounts :
    /\ b.person = by
    /\ Invite(atomic, serialized)!canManageRole(Invite(atomic, serialized)!Exact(b.role),
                                                Invite(atomic, serialized)!Exact(role))
    /\ Invite(atomic, serialized)!Rank(Invite(atomic, serialized)!Exact(role)) < 100

AllBacked(atomic, serialized) ==
  /\ \A b \in accounts : b.role \in DOMAIN Invite(atomic, serialized)!ROLE_HIERARCHY
  /\ \A b \in accounts : b.person # None => Backed(atomic, serialized, b.role, b.by)
  /\ \A t \in Tokens : invites[t] # None =>
       Backed(atomic, serialized, invites[t].role, invites[t].by)
  /\ \A k \in Tasks : at[k] # "idle" /\ op[k].kind \in {"create", "used", "extend"} =>
       Backed(atomic, serialized, op[k].invitation.role, op[k].invitation.by)
  /\ \A k \in Tasks, t \in Tokens : next[k][t] # None =>
       Backed(atomic, serialized, next[k][t].role, next[k][t].by)

\* A token that is drawn is stored once: where its creation waits it is not stored yet.
Creating(k) == at[k] \in {"store", "write"} /\ op[k].kind = "create"

DrawnOnce(atomic) ==
  atomic =>
    /\ gone \subseteq minted /\ \A t \in Tokens : invites[t] # None => t \in minted
    /\ \A t \in gone : invites[t] = None
    /\ \A k \in Tasks : at[k] # "write"
    /\ \A k \in Tasks : Creating(k) => invites[op[k].token] = None /\ op[k].token \notin gone
    /\ \A j, k \in Tasks : Creating(j) /\ Creating(k) /\ op[j].token = op[k].token => j = k

\* Under the gate an invitation whose account was made is used, or is being marked.
OpenIn(all, t) == all[t] # None /\ all[t].used = FALSE

Marking(k, t) == at[k] \in {"store", "write"} /\ op[k].kind = "used" /\ op[k].token = t

JoinedOnce(serialized) ==
  serialized =>
    /\ \A k \in Tasks : at[k] # "idle" => gate = k
    /\ \A k \in Tasks, t \in Tokens : at[k] = "write" /\ OpenIn(next[k], t) =>
         IF op[k].token = t /\ op[k].kind \in {"create", "used"} THEN op[k].kind = "create"
         ELSE OpenIn(invites, t)
    /\ \A t \in Tokens : joins[t] \in {0, 1}
    /\ \A t \in Tokens \ minted : joins[t] = 0
    /\ \A k \in Tasks : Creating(k) \/ at[k] = "join" => joins[op[k].token] = 0
    /\ \A t \in Tokens : joins[t] = 1 /\ OpenIn(invites, t) => \E k \in Tasks : Marking(k, t)

InviteInv(atomic, serialized) ==
  /\ InviteTyped /\ PeopleNamed /\ AllBacked(atomic, serialized)
  /\ DrawnOnce(atomic) /\ JoinedOnce(serialized)

\* The assumptions on the constants.
LEMMA InviteParts ==
  /\ None \notin Tasks /\ None \notin Tokens /\ Lifetime \in Nat
  /\ RolesUsed \subseteq DOMAIN Invite(TRUE, FALSE)!ROLE_HIERARCHY
BY InviteAssumption DEF Invite!InvitationAssumption, Invite!ADMIN_ROLES

\* No role ranks above the founder's.
LEMMA RanksBounded ==
  ASSUME NEW a \in BOOLEAN, NEW s \in BOOLEAN, NEW r \in DOMAIN Invite(a, s)!ROLE_HIERARCHY
  PROVE  Invite(a, s)!ROLE_HIERARCHY[r] \in Nat /\ Invite(a, s)!ROLE_HIERARCHY[r] <= 100
BY DEF Invite!ROLE_HIERARCHY

\* Who may be invited ranks below the founder.
LEMMA InvitedBelow ==
  ASSUME NEW a \in BOOLEAN, NEW s \in BOOLEAN, NEW q, NEW r,
         Invite(a, s)!canManageRole(Invite(a, s)!Exact(q), Invite(a, s)!Exact(r))
  PROVE  /\ Invite(a, s)!Rank(Invite(a, s)!Exact(r)) < 100
         /\ r \in DOMAIN Invite(a, s)!ROLE_HIERARCHY
<1>1. /\ q \in DOMAIN Invite(a, s)!ROLE_HIERARCHY /\ r \in DOMAIN Invite(a, s)!ROLE_HIERARCHY
      /\ Invite(a, s)!ROLE_HIERARCHY[q] > Invite(a, s)!ROLE_HIERARCHY[r]
      /\ Invite(a, s)!Rank(Invite(a, s)!Exact(r)) = Invite(a, s)!ROLE_HIERARCHY[r]
  BY DEF Invite!canManageRole, Invite!Exact, Invite!Rank, Invite!isValidAdminRole,
     Invite!normalizeRole, Invite!ADMIN_ROLES
<1>2. /\ Invite(a, s)!ROLE_HIERARCHY[q] \in Nat /\ Invite(a, s)!ROLE_HIERARCHY[q] <= 100
      /\ Invite(a, s)!ROLE_HIERARCHY[r] \in Nat
  BY <1>1, RanksBounded
<1>. QED  BY <1>1, <1>2

\* A call begins: what it carries is drawn and backed, and a creation draws its token.
LEMMA InviteEnters ==
  ASSUME NEW a \in BOOLEAN, NEW s \in BOOLEAN, InviteInv(a, s), NEW k \in Tasks,
         NEW where \in {"join", "store"}, NEW call \in InviteCalls,
         Invite(a, s)!Enter(k, where, call), minted' \in SUBSET Tokens, now' = now,
         \/ call.kind = "create" /\ call.token \notin minted /\ minted' = minted \cup {call.token}
         \/ call.kind # "create" /\ minted' = minted,
         Carried(call, minted'),
         call.kind = "used" <=> where = "join",
         call.kind = "used" => OpenIn(invites, call.token),
         call.kind \in {"create", "used", "extend"} =>
           Backed(a, s, call.invitation.role, call.invitation.by)
  PROVE  InviteInv(a, s)'
<1>. USE DEF InviteInv
<1>1. /\ at[k] = "idle" /\ (s => gate = None) /\ gate' = (IF s THEN k ELSE None)
      /\ at' = [at EXCEPT ![k] = where] /\ op' = [op EXCEPT ![k] = call]
      /\ UNCHANGED <<invites, accounts, next, gone, joins, now>>
  BY DEF Invite!Enter
<1>2. /\ \A j \in Tasks : j # k => at'[j] = at[j] /\ op'[j] = op[j]
      /\ at'[k] = where /\ op'[k] = call /\ minted \subseteq minted'
  BY <1>1 DEF InviteTyped
<1>3. InviteTyped'
  <2>1. \A j \in Tasks : at'[j] # "idle" => Carried(op'[j], minted')
    BY <1>1, <1>2 DEF InviteTyped, Carried
  <2>2. \A j \in Tasks : at'[j] = "join" => op'[j].kind = "used"  BY <1>2 DEF InviteTyped
  <2>3. at' \in [Tasks -> {"idle", "join", "store", "write"}] /\ op' \in [Tasks -> InviteCalls]
    BY <1>1 DEF InviteTyped
  <2>. QED  BY <1>1, <2>1, <2>2, <2>3 DEF InviteTyped
<1>4. AllBacked(a, s)'
  <2>1. ASSUME NEW r, NEW b, Backed(a, s, r, b)  PROVE Backed(a, s, r, b)'
    BY <1>1, <2>1 DEF Backed
  <2>2. \A j \in Tasks : at'[j] # "idle" /\ op'[j].kind \in {"create", "used", "extend"} =>
          Backed(a, s, op'[j].invitation.role, op'[j].invitation.by)
    BY <1>2 DEF AllBacked
  <2>. QED  BY <1>1, <2>2 DEF AllBacked, Backed
<1>5. DrawnOnce(a)'
  <2>1. SUFFICES ASSUME a  PROVE DrawnOnce(a)'  BY DEF DrawnOnce
  <2>2. \A j \in Tasks : Creating(j)' =>
          \/ j # k /\ Creating(j) /\ op'[j] = op[j] /\ at'[j] = at[j]
          \/ j = k /\ call.kind = "create" /\ op'[j] = call
    BY <1>2 DEF Creating
  <2>3. ASSUME call.kind = "create"
        PROVE  invites[call.token] = None /\ call.token \notin gone /\ call.token \in Tokens
    <3>1. call.token \in Tokens  BY <2>3 DEF Carried
    <3>. QED  BY <2>1, <2>3, <3>1 DEF DrawnOnce
  <2>4. \A j \in Tasks : Creating(j) => op[j].token \in minted
    BY DEF Creating, InviteTyped, Carried
  <2>5. \A j \in Tasks : Creating(j)' => invites'[op'[j].token] = None /\ op'[j].token \notin gone'
    BY <1>1, <2>1, <2>2, <2>3 DEF DrawnOnce
  <2>6. \A i, j \in Tasks : Creating(i)' /\ Creating(j)' /\ op'[i].token = op'[j].token => i = j
    BY <2>1, <2>2, <2>4 DEF DrawnOnce
  <2>7. \A j \in Tasks : at'[j] # "write"  BY <1>2, <2>1 DEF DrawnOnce
  <2>. QED  BY <1>1, <1>2, <2>1, <2>5, <2>6, <2>7 DEF DrawnOnce
<1>6. JoinedOnce(s)'
  <2>1. SUFFICES ASSUME s  PROVE JoinedOnce(s)'  BY DEF JoinedOnce
  <2>0. None \notin Tasks  BY InviteParts
  <2>2. \A j \in Tasks : at[j] = "idle"  BY <1>1, <2>0, <2>1 DEF JoinedOnce
  <2>3. \A j \in Tasks : at'[j] # "idle" => j = k  BY <1>2, <2>2
  <2>4. \A t \in Tokens : ~(joins[t] = 1 /\ OpenIn(invites, t))
    BY <2>1, <2>2 DEF JoinedOnce, Marking
  <2>5. call.kind \in {"create", "used"} => call.token \in Tokens  BY DEF Carried
  <2>6. call.kind \in {"create", "used"} => joins[call.token] = 0
    BY <2>1, <2>4, <2>5 DEF JoinedOnce
  <2>7. \A j \in Tasks : Creating(j)' \/ at'[j] = "join" => joins'[op'[j].token] = 0
    BY <1>1, <1>2, <2>3, <2>6 DEF Creating
  <2>8. \A j \in Tasks : at'[j] # "write"  BY <1>2, <2>2
  <2>9. \A t \in Tokens : joins'[t] \in {0, 1} /\ (t \notin minted' => joins'[t] = 0)
    BY <1>1, <1>2, <2>1 DEF JoinedOnce
  <2>10. \A t \in Tokens : ~(joins'[t] = 1 /\ OpenIn(invites', t))  BY <1>1, <2>4
  <2>11. \A j \in Tasks : at'[j] # "idle" => gate' = j  BY <1>1, <2>1, <2>3
  <2>. QED  BY <2>7, <2>8, <2>9, <2>10, <2>11 DEF JoinedOnce
<1>7. PeopleNamed'  BY <1>1 DEF PeopleNamed
<1>. QED  BY <1>3, <1>4, <1>5, <1>6, <1>7

\* What a call may make of the stored list: one invitation is added, or what is left keeps
\* its role and who it is by, and a used one is not usable again.
CallEffect(call, all, n) ==
  /\ n \in Lists
  /\ \A t \in Tokens : n[t] # None =>
       \/ all[t] # None /\ n[t].role = all[t].role /\ n[t].by = all[t].by
       \/ call.kind = "create" /\ t = call.token /\ n[t] = call.invitation
  /\ \A t \in Tokens : OpenIn(n, t) =>
       IF call.token = t /\ call.kind \in {"create", "used"} THEN call.kind = "create"
       ELSE OpenIn(all, t)
  /\ \A t \in Tokens : all[t] # None /\ all[t].used = TRUE =>
       n[t] = None \/ n[t].used = TRUE \/ (call.kind = "create" /\ t = call.token)

\* That is what the adapters make of it.
LEMMA ChangedCall ==
  ASSUME NEW a \in BOOLEAN, NEW s \in BOOLEAN, NEW call \in InviteCalls, NEW all \in Lists,
         Carried(call, Tokens), call.kind \in {"used", "extend", "delete"} => all[call.token] # None
  PROVE  CallEffect(call, all, Invite(a, s)!Changed(call, all))
<1>. DEFINE n == Invite(a, s)!Changed(call, all)
<1>0. Lifetime \in Nat /\ None \notin Tokens  BY InviteParts
<1>1. CASE call.kind = "create"
  <2>1. n = [all EXCEPT ![call.token] = call.invitation]  BY <1>1 DEF Invite!Changed
  <2>2. call.token \in Tokens /\ call.invitation \in Item  BY <1>1 DEF Carried
  <2>. HIDE DEF n
  <2>3. n \in Lists  BY <2>1, <2>2 DEF Lists
  <2>4. n[call.token] = call.invitation /\ \A t \in Tokens : t # call.token => n[t] = all[t]
    BY <2>1, <2>2 DEF Lists
  <2>5. \A t \in Tokens : n[t] # None =>
          \/ all[t] # None /\ n[t].role = all[t].role /\ n[t].by = all[t].by
          \/ call.kind = "create" /\ t = call.token /\ n[t] = call.invitation
    BY <1>1, <2>4
  <2>6. \A t \in Tokens : OpenIn(n, t) =>
          IF call.token = t /\ call.kind \in {"create", "used"} THEN call.kind = "create"
          ELSE OpenIn(all, t)
    BY <1>1, <2>4 DEF OpenIn
  <2>7. \A t \in Tokens : all[t] # None /\ all[t].used = TRUE =>
          n[t] = None \/ n[t].used = TRUE \/ (call.kind = "create" /\ t = call.token)
    BY <1>1, <2>4
  <2>. QED  BY <2>3, <2>5, <2>6, <2>7 DEF n, CallEffect
<1>2. ASSUME NEW i, i = call.token, call.kind \in {"used", "extend"}
      PROVE  \E v \in Item :
               /\ n = [all EXCEPT ![i] = v] /\ v.role = all[i].role /\ v.by = all[i].by
               /\ (call.kind = "used" => v.used = TRUE) /\ (call.kind = "extend" => v.used = all[i].used)
  <2>1. i \in Tokens /\ all[i] \in Item /\ call.invitation \in Item
    BY <1>2 DEF Carried, Lists
  <2>2. CASE call.kind = "used"
    <3>1. n = [all EXCEPT ![i].used = TRUE]  BY <1>2, <2>2 DEF Invite!Changed, Invite!markAsUsed
    <3>2. PICK v : v = [all[i] EXCEPT !.used = TRUE]  OBVIOUS
    <3>3. v \in Item /\ v.role = all[i].role /\ v.by = all[i].by /\ v.used = TRUE
      BY <2>1, <3>2 DEF Item
    <3>4. n = [all EXCEPT ![i] = v]  BY <3>1, <3>2
    <3>. QED  BY <2>2, <3>3, <3>4
  <2>3. CASE call.kind = "extend"
    <3>1. n = [all EXCEPT ![i].expires = call.invitation.expires + Lifetime]
      BY <1>2, <2>3 DEF Invite!Changed
    <3>2. PICK v : v = [all[i] EXCEPT !.expires = call.invitation.expires + Lifetime]  OBVIOUS
    <3>3. call.invitation.expires + Lifetime \in Nat  BY <1>0, <2>1 DEF Item
    <3>4. v \in Item /\ v.role = all[i].role /\ v.by = all[i].by /\ v.used = all[i].used
      BY <2>1, <3>2, <3>3 DEF Item
    <3>5. n = [all EXCEPT ![i] = v]  BY <3>1, <3>2
    <3>. QED  BY <2>3, <3>4, <3>5
  <2>. QED  BY <1>2, <2>2, <2>3
<1>3. CASE call.kind \in {"used", "extend"}
  <2>1. PICK i : i = call.token  OBVIOUS
  <2>2. PICK v \in Item :
               /\ n = [all EXCEPT ![i] = v] /\ v.role = all[i].role /\ v.by = all[i].by
               /\ (call.kind = "used" => v.used = TRUE) /\ (call.kind = "extend" => v.used = all[i].used)
    BY <1>2, <1>3, <2>1
  <2>3. i \in Tokens /\ all[i] # None  BY <1>3, <2>1 DEF Carried
  <2>. HIDE DEF n
  <2>4. n \in Lists  BY <2>2, <2>3 DEF Lists
  <2>5. n[i] = v /\ \A t \in Tokens : t # i => n[t] = all[t]  BY <2>2, <2>3 DEF Lists
  <2>6. \A t \in Tokens : n[t] # None => all[t] # None /\ n[t].role = all[t].role /\ n[t].by = all[t].by
    BY <2>2, <2>3, <2>5
  <2>7. \A t \in Tokens : OpenIn(n, t) =>
          IF call.token = t /\ call.kind \in {"create", "used"} THEN call.kind = "create"
          ELSE OpenIn(all, t)
    BY <1>3, <2>1, <2>2, <2>3, <2>5 DEF OpenIn
  <2>8. \A t \in Tokens : all[t] # None /\ all[t].used = TRUE => n[t].used = TRUE
    BY <1>3, <2>2, <2>5
  <2>. QED  BY <2>4, <2>6, <2>7, <2>8 DEF n, CallEffect
<1>4. CASE call.kind \notin {"create", "used", "extend"}
  <2>1. call.kind = "delete" => n = [all EXCEPT ![call.token] = None]
    BY DEF Invite!Changed
  <2>2. call.kind # "delete" =>
          n = [t \in Tokens |-> IF Invite(a, s)!Outdated(all[t]) THEN None ELSE all[t]]
    BY <1>4 DEF Invite!Changed
  <2>3. n \in Lists /\ \A t \in Tokens : n[t] \in {all[t], None}
    <3>. HIDE DEF n
    <3>1. CASE call.kind = "delete"  BY <2>1, <3>1 DEF Lists
    <3>2. CASE call.kind # "delete"  BY <2>2, <3>2 DEF Lists
    <3>. QED  BY <3>1, <3>2
  <2>. HIDE DEF n
  <2>4. \A t \in Tokens : n[t] # None => all[t] # None /\ n[t].role = all[t].role /\ n[t].by = all[t].by
    BY <2>3
  <2>5. \A t \in Tokens : OpenIn(n, t) => OpenIn(all, t)  BY <2>3 DEF OpenIn
  <2>6. \A t \in Tokens : all[t] # None /\ all[t].used = TRUE => n[t] = None \/ n[t].used = TRUE
    BY <2>3
  <2>. QED  BY <1>4, <2>3, <2>4, <2>5, <2>6 DEF n, CallEffect
<1>. QED  BY <1>1, <1>3, <1>4

\* A call's list is installed.
LEMMA InviteInstalls ==
  ASSUME NEW a \in BOOLEAN, NEW s \in BOOLEAN, InviteInv(a, s), NEW k \in Tasks,
         NEW all \in Lists, at[k] \in {"store", "write"}, Invite(a, s)!Install(k, all),
         UNCHANGED <<accounts, minted, joins, now>>,
         next' = next \/ \E e \in Lists : /\ next' = [next EXCEPT ![k] = e]
                                          /\ \A t \in Tokens : e[t] = None,
         \A t \in Tokens : all[t] # None => Backed(a, s, all[t].role, all[t].by),
         a => \A t \in Tokens : all[t] # None =>
                invites[t] # None \/ (Creating(k) /\ t = op[k].token),
         s => \A t \in Tokens : OpenIn(all, t) =>
                IF op[k].token = t /\ op[k].kind \in {"create", "used"} THEN op[k].kind = "create"
                ELSE OpenIn(invites, t)
  PROVE  InviteInv(a, s)'
<1>. USE DEF InviteInv
<1>0. None \notin Tasks /\ None \notin Tokens  BY InviteParts
<1>1. /\ invites' = all /\ at' = [at EXCEPT ![k] = "idle"]
      /\ gone' = gone \cup {t \in Tokens : invites[t] # None /\ all[t] = None}
      /\ op' = [op EXCEPT ![k] = Invite(a, s)!NoCall]
      /\ gate' = (IF gate = k THEN None ELSE gate)
  BY DEF Invite!Install
<1>2. Invite(a, s)!NoCall \in InviteCalls
  BY DEF InviteCalls, Invite!NoCall, Invite!Call
<1>3. at'[k] = "idle" /\ \A j \in Tasks : j # k => at'[j] = at[j] /\ op'[j] = op[j]
  BY <1>1 DEF InviteTyped
<1>4. next' \in [Tasks -> Lists]
        /\ \A j \in Tasks, t \in Tokens : next'[j][t] # None => next'[j][t] = next[j][t]
  <2>1. CASE next' = next  BY <2>1 DEF InviteTyped
  <2>2. CASE next' # next
    <3>1. PICK e \in Lists : next' = [next EXCEPT ![k] = e] /\ \A t \in Tokens : e[t] = None
      BY <2>2
    <3>. QED  BY <3>1 DEF InviteTyped
  <2>. QED  BY <2>1, <2>2
<1>5. InviteTyped'
  <2>1. op' \in [Tasks -> InviteCalls] /\ at' \in [Tasks -> {"idle", "join", "store", "write"}]
    BY <1>1, <1>2 DEF InviteTyped
  <2>2. \A j \in Tasks : at'[j] # "idle" => j # k  BY <1>3
  <2>3. invites' \in Lists /\ UNCHANGED <<minted, joins, now>>  BY <1>1
  <2>. QED  BY <1>3, <1>4, <2>1, <2>2, <2>3 DEF InviteTyped
<1>6. AllBacked(a, s)'
  <2>1. \A r, b : Backed(a, s, r, b)' <=> Backed(a, s, r, b)  BY DEF Backed
  <2>2. \A j \in Tasks : at'[j] # "idle" => at[j] # "idle" /\ op'[j] = op[j]  BY <1>3
  <2>3. accounts' = accounts /\ invites' = all  BY <1>1
  <2>4. (\A t \in Tokens : invites[t] # None => Backed(a, s, invites[t].role, invites[t].by))'
    BY <2>1, <2>3
  <2>5. (\A j \in Tasks : at[j] # "idle" /\ op[j].kind \in {"create", "used", "extend"} =>
           Backed(a, s, op[j].invitation.role, op[j].invitation.by))'
    BY <2>1, <2>2 DEF AllBacked
  <2>6. (\A j \in Tasks, t \in Tokens : next[j][t] # None =>
           Backed(a, s, next[j][t].role, next[j][t].by))'
    BY <1>4, <2>1 DEF AllBacked
  <2>7. (\A b \in accounts : b.role \in DOMAIN Invite(a, s)!ROLE_HIERARCHY)'
    BY <2>3 DEF AllBacked
  <2>8. (\A b \in accounts : b.person # None => Backed(a, s, b.role, b.by))'
    BY <2>1, <2>3 DEF AllBacked
  <2>. QED  BY <2>4, <2>5, <2>6, <2>7, <2>8 DEF AllBacked
<1>7. DrawnOnce(a)'
  <2>1. SUFFICES ASSUME a  PROVE DrawnOnce(a)'  BY DEF DrawnOnce
  <2>2. \A j \in Tasks : Creating(j)' => j # k /\ Creating(j) /\ op'[j] = op[j]
    BY <1>3 DEF Creating
  <2>3. Creating(k) => op[k].token \in minted  BY DEF Creating, InviteTyped, Carried
  <2>4. gone' \subseteq minted'  BY <1>1, <2>1 DEF DrawnOnce
  <2>5. \A t \in Tokens : invites'[t] # None => t \in minted'  BY <1>1, <2>1, <2>3 DEF DrawnOnce
  <2>6. gone \subseteq Tokens  BY <2>1 DEF DrawnOnce, InviteTyped
  <2>7. \A t \in gone' : invites'[t] = None
    <3>1. ASSUME NEW t \in gone  PROVE all[t] = None
      BY <2>1, <2>6, <3>1 DEF DrawnOnce
    <3>. QED  BY <1>1, <3>1
  <2>8. \A j \in Tasks : at'[j] # "write"  BY <1>3, <2>1 DEF DrawnOnce
  <2>9. \A j \in Tasks : Creating(j) => op[j].token \in Tokens
    BY DEF Creating, InviteTyped, Carried
  <2>10. ASSUME NEW j \in Tasks, Creating(j)'
         PROVE  invites'[op'[j].token] = None /\ op'[j].token \notin gone'
    <3>1. j # k /\ Creating(j) /\ op'[j] = op[j]  BY <2>2, <2>10
    <3>2. /\ op[j].token \in Tokens /\ invites[op[j].token] = None /\ op[j].token \notin gone
          /\ (Creating(k) => op[j].token # op[k].token)
      BY <2>1, <2>9, <3>1 DEF DrawnOnce
    <3>. QED  BY <1>1, <2>1, <3>1, <3>2
  <2>11. \A i, j \in Tasks : Creating(i)' /\ Creating(j)' /\ op'[i].token = op'[j].token => i = j
    BY <2>1, <2>2 DEF DrawnOnce
  <2>. QED  BY <2>1, <2>4, <2>5, <2>7, <2>8, <2>10, <2>11 DEF DrawnOnce
<1>8. JoinedOnce(s)'
  <2>1. SUFFICES ASSUME s  PROVE JoinedOnce(s)'  BY DEF JoinedOnce
  <2>2. gate = k /\ \A j \in Tasks : at'[j] = "idle"  BY <1>3, <2>1 DEF JoinedOnce
  <2>3. \A t \in Tokens : ~(joins'[t] = 1 /\ OpenIn(invites', t))
    <3>1. SUFFICES ASSUME NEW t \in Tokens, joins[t] = 1, OpenIn(all, t)  PROVE FALSE
      BY <1>1
    <3>2. CASE op[k].token = t /\ op[k].kind \in {"create", "used"}
      <4>1. Creating(k)  BY <2>1, <3>1, <3>2 DEF Creating
      <4>. QED  BY <2>1, <3>1, <3>2, <4>1 DEF JoinedOnce
    <3>3. CASE ~(op[k].token = t /\ op[k].kind \in {"create", "used"})
      <4>1. OpenIn(invites, t)  BY <2>1, <3>1, <3>3
      <4>2. PICK j \in Tasks : Marking(j, t)  BY <2>1, <3>1, <4>1 DEF JoinedOnce
      <4>3. j = k  BY <2>1, <2>2, <4>2 DEF JoinedOnce, Marking
      <4>. QED  BY <3>3, <4>2, <4>3 DEF Marking
    <3>. QED  BY <3>2, <3>3
  <2>4. \A t \in Tokens : joins'[t] \in {0, 1} /\ (t \notin minted' => joins'[t] = 0)
    BY <2>1 DEF JoinedOnce
  <2>. QED  BY <2>2, <2>3, <2>4 DEF JoinedOnce, Creating
<1>9. PeopleNamed'  BY DEF PeopleNamed
<1>. QED  BY <1>5, <1>6, <1>7, <1>8, <1>9

\* canInviteForRole, then createInvitation.
LEMMA InviteCreates ==
  ASSUME NEW a \in BOOLEAN, NEW s \in BOOLEAN, InviteInv(a, s), NEW k \in Tasks,
         Invite(a, s)!createInvitation(k)
  PROVE  InviteInv(a, s)'
<1>1. PICK t \in Tokens \ minted, b \in accounts, r \in RolesUsed :
        /\ Invite(a, s)!canManageRole(Invite(a, s)!Exact(b.role), Invite(a, s)!Exact(r))
        /\ minted' = minted \cup {t}
        /\ Invite(a, s)!Enter(k, "store", Invite(a, s)!Call("create", t,
             [role |-> r, by |-> b.person, expires |-> now + Lifetime, used |-> FALSE]))
  BY DEF Invite!createInvitation
<1>2. PICK i : i = [role |-> r, by |-> b.person, expires |-> now + Lifetime, used |-> FALSE]  OBVIOUS
<1>3. PICK call : call = Invite(a, s)!Call("create", t, i)  OBVIOUS
<1>4. call.kind = "create" /\ call.token = t /\ call.invitation = i  BY <1>3 DEF Invite!Call
<1>5. now + Lifetime \in Nat  BY InviteParts DEF InviteInv, InviteTyped
<1>6. b.person \in Tokens \cup {None}  BY DEF InviteInv, PeopleNamed
<1>7. i \in Item  BY <1>2, <1>5, <1>6 DEF Item
<1>8. call \in InviteCalls  BY <1>3, <1>7 DEF InviteCalls, Invite!Call
<1>9. Backed(a, s, i.role, i.by)  BY <1>1, <1>2, InvitedBelow DEF Backed
<1>10. now' = now  BY <1>1 DEF Invite!Enter
<1>11. minted' \in SUBSET Tokens  BY <1>1 DEF InviteInv, InviteTyped
<1>12. Carried(call, minted')  BY <1>1, <1>4, <1>7 DEF Carried
<1>13. Invite(a, s)!Enter(k, "store", call)  BY <1>1, <1>2, <1>3
<1>. QED  BY <1>1, <1>4, <1>8, <1>9, <1>10, <1>11, <1>12, <1>13, InviteEnters

\* A call on an invitation that was drawn carries what is stored of it.
LEMMA InviteReads ==
  ASSUME NEW a \in BOOLEAN, NEW s \in BOOLEAN, InviteInv(a, s), NEW k \in Tasks,
         Invite(a, s)!Accept(k) \/ Invite(a, s)!revokeInvitation(k)
           \/ Invite(a, s)!extendInvitation(k) \/ Invite(a, s)!cleanupExpired(k)
  PROVE  InviteInv(a, s)'
<1>1. PICK call \in InviteCalls, where \in {"join", "store"} :
        /\ Invite(a, s)!Enter(k, where, call) /\ minted' = minted /\ call.kind # "create"
        /\ Carried(call, minted) /\ (call.kind = "used" <=> where = "join")
        /\ call.kind = "used" => OpenIn(invites, call.token)
        /\ call.kind \in {"create", "used", "extend"} =>
             Backed(a, s, call.invitation.role, call.invitation.by)
  <2>0. \A t \in minted : t \in Tokens /\ (invites[t] # None => invites[t] \in Item)
    BY DEF InviteInv, InviteTyped, Lists
  <2>1. ASSUME NEW kind \in {"used", "extend", "delete", "cleanup"}, NEW t \in Tokens \cup {None},
               NEW i \in Item \cup {None}
        PROVE  /\ Invite(a, s)!Call(kind, t, i) \in InviteCalls
               /\ Invite(a, s)!Call(kind, t, i).kind = kind
               /\ Invite(a, s)!Call(kind, t, i).token = t
               /\ Invite(a, s)!Call(kind, t, i).invitation = i
    BY DEF Invite!Call, InviteCalls
  <2>2. CASE Invite(a, s)!Accept(k)
    <3>1. PICK t \in minted : /\ Invite(a, s)!getInvitation(t) /\ minted' = minted
                              /\ Invite(a, s)!Enter(k, "join", Invite(a, s)!Call("used", t, invites[t]))
      BY <2>2 DEF Invite!Accept
    <3>2. invites[t] # None /\ ~invites[t].used  BY <3>1 DEF Invite!getInvitation
    <3>3. t \in Tokens /\ invites[t] \in Item  BY <2>0, <3>2
    <3>4. OpenIn(invites, t)  BY <3>2, <3>3 DEF OpenIn, Item
    <3>5. Backed(a, s, invites[t].role, invites[t].by)  BY <3>2, <3>3 DEF InviteInv, AllBacked
    <3>6. PICK call : call = Invite(a, s)!Call("used", t, invites[t])  OBVIOUS
    <3>7. /\ call \in InviteCalls /\ call.kind = "used" /\ call.token = t
          /\ call.invitation = invites[t]
      BY <2>1, <3>3, <3>6
    <3>8. Carried(call, minted)  BY <3>3, <3>7 DEF Carried
    <3>. QED  BY <3>1, <3>4, <3>5, <3>6, <3>7, <3>8
  <2>3. CASE Invite(a, s)!revokeInvitation(k)
    <3>1. PICK t \in minted : /\ minted' = minted
                              /\ Invite(a, s)!Enter(k, "store", Invite(a, s)!Call("delete", t, None))
      BY <2>3 DEF Invite!revokeInvitation
    <3>2. PICK call : call = Invite(a, s)!Call("delete", t, None)  OBVIOUS
    <3>3. call \in InviteCalls /\ call.kind = "delete" /\ call.token = t  BY <2>0, <2>1, <3>2
    <3>4. Carried(call, minted)  BY <3>3 DEF Carried
    <3>. QED  BY <3>1, <3>2, <3>3, <3>4
  <2>4. CASE Invite(a, s)!extendInvitation(k)
    <3>1. PICK t \in minted : /\ invites[t] # None /\ minted' = minted
                              /\ Invite(a, s)!Enter(k, "store", Invite(a, s)!Call("extend", t, invites[t]))
      BY <2>4 DEF Invite!extendInvitation
    <3>2. t \in Tokens /\ invites[t] \in Item  BY <2>0, <3>1
    <3>3. Backed(a, s, invites[t].role, invites[t].by)  BY <3>1, <3>2 DEF InviteInv, AllBacked
    <3>4. PICK call : call = Invite(a, s)!Call("extend", t, invites[t])  OBVIOUS
    <3>5. /\ call \in InviteCalls /\ call.kind = "extend" /\ call.token = t
          /\ call.invitation = invites[t]
      BY <2>1, <3>2, <3>4
    <3>6. Carried(call, minted)  BY <3>2, <3>5 DEF Carried
    <3>. QED  BY <3>1, <3>3, <3>4, <3>5, <3>6
  <2>5. CASE Invite(a, s)!cleanupExpired(k)
    <3>1. PICK call : call = Invite(a, s)!Call("cleanup", None, None)  OBVIOUS
    <3>2. call \in InviteCalls /\ call.kind = "cleanup"  BY <2>1, <3>1
    <3>3. Carried(call, minted)  BY <3>2 DEF Carried
    <3>4. minted' = minted /\ Invite(a, s)!Enter(k, "store", call)
      BY <2>5, <3>1 DEF Invite!cleanupExpired
    <3>. QED  BY <3>2, <3>3, <3>4
  <2>. QED  BY <2>2, <2>3, <2>4, <2>5
<1>2. now' = now  BY <1>1 DEF Invite!Enter
<1>3. minted' \in SUBSET Tokens  BY <1>1 DEF InviteInv, InviteTyped
<1>. QED  BY <1>1, <1>2, <1>3, InviteEnters

\* The account is made for an invitation that is backed, once under the gate.
LEMMA InviteJoins ==
  ASSUME NEW a \in BOOLEAN, NEW s \in BOOLEAN, InviteInv(a, s), NEW k \in Tasks,
         Invite(a, s)!Join(k)
  PROVE  InviteInv(a, s)'
<1>. USE DEF InviteInv
<1>0. None \notin Tasks /\ None \notin Tokens  BY InviteParts
<1>1. /\ at[k] = "join" /\ at' = [at EXCEPT ![k] = "store"]
      /\ accounts' = accounts \cup {[person |-> op[k].token, role |-> op[k].invitation.role,
                                     by |-> op[k].invitation.by]}
      /\ joins' = [joins EXCEPT ![op[k].token] = @ + 1]
      /\ UNCHANGED <<invites, op, next, gate, minted, gone, now>>
  BY DEF Invite!Join
<1>2. /\ op[k].kind = "used" /\ op[k].token \in minted /\ op[k].token \in Tokens
      /\ Backed(a, s, op[k].invitation.role, op[k].invitation.by)
  BY <1>1 DEF InviteTyped, Carried, AllBacked
<1>3. at'[k] = "store" /\ \A j \in Tasks : j # k => at'[j] = at[j]  BY <1>1 DEF InviteTyped
<1>4. joins' \in [Tokens -> Nat]
  <2>1. joins \in [Tokens -> Nat] /\ joins[op[k].token] + 1 \in Nat  BY <1>2 DEF InviteTyped
  <2>. QED  BY <1>1, <2>1
<1>5. at' \in [Tasks -> {"idle", "join", "store", "write"}]  BY <1>1 DEF InviteTyped
<1>6. InviteTyped'  BY <1>1, <1>3, <1>4, <1>5 DEF InviteTyped
<1>7. AllBacked(a, s)'
  <2>1. ASSUME NEW r, NEW b, Backed(a, s, r, b)  PROVE Backed(a, s, r, b)'
    BY <1>1, <2>1 DEF Backed
  <2>2. PICK n : n.person = op[k].token /\ n.role = op[k].invitation.role
                 /\ n.by = op[k].invitation.by /\ accounts' = accounts \cup {n}
    BY <1>1
  <2>3. accounts' = accounts \cup {n}  BY <2>2
  <2>4. n.role \in DOMAIN Invite(a, s)!ROLE_HIERARCHY
    BY <1>2, <2>2, InvitedBelow DEF Backed
  <2>5. (\A b \in accounts : b.role \in DOMAIN Invite(a, s)!ROLE_HIERARCHY)'
    BY <2>3, <2>4 DEF AllBacked
  <2>6. (\A b \in accounts : b.person # None => Backed(a, s, b.role, b.by))'
    BY <1>2, <2>1, <2>2, <2>3 DEF AllBacked
  <2>7. (\A t \in Tokens : invites[t] # None => Backed(a, s, invites[t].role, invites[t].by))'
    BY <1>1, <2>1 DEF AllBacked
  <2>8. (\A j \in Tasks : at[j] # "idle" /\ op[j].kind \in {"create", "used", "extend"} =>
           Backed(a, s, op[j].invitation.role, op[j].invitation.by))'
    BY <1>1, <1>3, <2>1 DEF AllBacked
  <2>9. (\A j \in Tasks, t \in Tokens : next[j][t] # None =>
           Backed(a, s, next[j][t].role, next[j][t].by))'
    BY <1>1, <2>1 DEF AllBacked
  <2>. QED  BY <2>5, <2>6, <2>7, <2>8, <2>9 DEF AllBacked
<1>8. \A j \in Tasks : Creating(j)' <=> Creating(j)  BY <1>1, <1>2, <1>3 DEF Creating
<1>9. DrawnOnce(a)'
  <2>1. \A j \in Tasks : at'[j] = "write" => at[j] = "write"  BY <1>3
  <2>. QED  BY <1>1, <1>8, <2>1 DEF DrawnOnce
<1>10. JoinedOnce(s)'
  <2>1. SUFFICES ASSUME s  PROVE JoinedOnce(s)'  BY DEF JoinedOnce
  <2>2. gate = k /\ \A j \in Tasks : j # k => at'[j] = "idle"
    BY <1>1, <1>3, <2>1 DEF JoinedOnce
  <2>3. joins[op[k].token] = 0  BY <1>1, <2>1 DEF JoinedOnce
  <2>4. joins'[op[k].token] = 1 /\ \A t \in Tokens : t # op[k].token => joins'[t] = joins[t]
    BY <1>1, <1>2, <2>3 DEF InviteTyped
  <2>5. Marking(k, op[k].token)'  BY <1>1, <1>2, <1>3 DEF Marking
  <2>6. \A t \in Tokens : joins'[t] = 1 /\ OpenIn(invites', t) => \E j \in Tasks : Marking(j, t)'
    <3>1. SUFFICES ASSUME NEW t \in Tokens, t # op[k].token, joins[t] = 1, OpenIn(invites, t)
                   PROVE  FALSE
      BY <1>1, <2>4, <2>5
    <3>2. PICK j \in Tasks : Marking(j, t)  BY <2>1, <3>1 DEF JoinedOnce
    <3>3. j = k  BY <2>1, <2>2, <3>2 DEF JoinedOnce, Marking
    <3>. QED  BY <1>1, <3>2, <3>3 DEF Marking
  <2>7. \A j \in Tasks : ~(Creating(j)' \/ at'[j] = "join")
    BY <1>1, <1>2, <1>3, <2>2 DEF Creating
  <2>8. \A j \in Tasks : at'[j] # "write"  BY <1>3, <2>2
  <2>9. \A t \in Tokens : joins'[t] \in {0, 1} /\ (t \notin minted => joins'[t] = 0)
    BY <1>2, <2>1, <2>4 DEF JoinedOnce
  <2>. QED  BY <1>1, <2>2, <2>6, <2>7, <2>8, <2>9 DEF JoinedOnce
<1>11. PeopleNamed'  BY <1>1, <1>2 DEF PeopleNamed
<1>. QED  BY <1>6, <1>7, <1>9, <1>10, <1>11

\* A call whose invitation is gone changes nothing, any other installs its change at once or
\* makes the list it will write.
LEMMA InviteStores ==
  ASSUME NEW a \in BOOLEAN, NEW s \in BOOLEAN, InviteInv(a, s), NEW k \in Tasks,
         Invite(a, s)!Store(k)
  PROVE  InviteInv(a, s)'
<1>. USE DEF InviteInv
<1>1. at[k] = "store" /\ UNCHANGED <<accounts, minted, joins, now>>  BY DEF Invite!Store
<1>2. /\ op[k] \in InviteCalls /\ invites \in Lists /\ Carried(op[k], minted)
      /\ minted \subseteq Tokens
  BY <1>1 DEF InviteTyped
<1>3. CASE Invite(a, s)!Missing(op[k])
  <2>1. Invite(a, s)!Install(k, invites) /\ next' = next  BY <1>3 DEF Invite!Store
  <2>2. \A t \in Tokens : OpenIn(invites, t) =>
          IF op[k].token = t /\ op[k].kind \in {"create", "used"} THEN op[k].kind = "create"
          ELSE OpenIn(invites, t)
    BY <1>3 DEF Invite!Missing, OpenIn
  <2>3. \A t \in Tokens : invites[t] # None => Backed(a, s, invites[t].role, invites[t].by)
    BY DEF AllBacked
  <2>. QED  BY <1>1, <1>2, <2>1, <2>2, <2>3, InviteInstalls
<1>4. CASE ~Invite(a, s)!Missing(op[k])
  <2>1. PICK n : n = Invite(a, s)!Changed(op[k], invites)  OBVIOUS
  <2>2. Carried(op[k], Tokens) /\ (op[k].kind \in {"used", "extend", "delete"} => invites[op[k].token] # None)
    BY <1>2, <1>4 DEF Carried, Invite!Missing
  <2>3. /\ n \in Lists
        /\ \A t \in Tokens : n[t] # None =>
              \/ invites[t] # None /\ n[t].role = invites[t].role /\ n[t].by = invites[t].by
              \/ op[k].kind = "create" /\ t = op[k].token /\ n[t] = op[k].invitation
        /\ \A t \in Tokens : OpenIn(n, t) =>
              IF op[k].token = t /\ op[k].kind \in {"create", "used"} THEN op[k].kind = "create"
              ELSE OpenIn(invites, t)
    <3>1. PICK call \in InviteCalls : call = op[k]  BY <1>2
    <3>2. Carried(call, Tokens) /\ (call.kind \in {"used", "extend", "delete"} => invites[call.token] # None)
      BY <2>2, <3>1
    <3>3. n = Invite(a, s)!Changed(call, invites)  BY <2>1, <3>1
    <3>4. CallEffect(call, invites, n)  BY <1>2, <3>2, <3>3, ChangedCall
    <3>. QED  BY <3>1, <3>4 DEF CallEffect
  <2>4. ASSUME NEW t \in Tokens, n[t] # None  PROVE Backed(a, s, n[t].role, n[t].by)
    <3>1. CASE invites[t] # None /\ n[t].role = invites[t].role /\ n[t].by = invites[t].by
      <4>1. Backed(a, s, invites[t].role, invites[t].by)  BY <3>1 DEF AllBacked
      <4>. QED  BY <3>1, <4>1
    <3>2. CASE op[k].kind = "create" /\ t = op[k].token /\ n[t] = op[k].invitation
      <4>1. Backed(a, s, op[k].invitation.role, op[k].invitation.by)  BY <1>1, <3>2 DEF AllBacked
      <4>. QED  BY <3>2, <4>1
    <3>. QED  BY <2>3, <2>4, <3>1, <3>2
  <2>5. CASE a
    <3>1. Invite(a, s)!Install(k, n) /\ next' = next  BY <1>4, <2>1, <2>5 DEF Invite!Store
    <3>2. \A t \in Tokens : n[t] # None => invites[t] # None \/ (Creating(k) /\ t = op[k].token)
      BY <1>1, <2>3 DEF Creating
    <3>. QED  BY <1>1, <2>3, <2>4, <3>1, <3>2, InviteInstalls
  <2>6. CASE ~a
    <3>1. /\ next' = [next EXCEPT ![k] = n] /\ at' = [at EXCEPT ![k] = "write"]
          /\ UNCHANGED <<invites, op, gate, gone>>
      BY <1>4, <2>1, <2>6 DEF Invite!Store
    <3>2. at'[k] = "write" /\ next'[k] = n
            /\ \A j \in Tasks : j # k => at'[j] = at[j] /\ next'[j] = next[j]
      BY <3>1 DEF InviteTyped
    <3>3. InviteTyped'
      <4>1. next' \in [Tasks -> Lists] /\ at' \in [Tasks -> {"idle", "join", "store", "write"}]
        BY <2>3, <3>1 DEF InviteTyped
      <4>2. \A j \in Tasks : at'[j] # "idle" => at[j] # "idle"  BY <1>1, <3>2
      <4>3. \A j \in Tasks : at'[j] = "join" => at[j] = "join"  BY <3>2
      <4>. QED  BY <1>1, <3>1, <4>1, <4>2, <4>3 DEF InviteTyped
    <3>4. PeopleNamed'  BY <1>1 DEF PeopleNamed
    <3>5. AllBacked(a, s)'
      <4>1. \A r, b : Backed(a, s, r, b)' <=> Backed(a, s, r, b)  BY <1>1 DEF Backed
      <4>2. (\A j \in Tasks : at[j] # "idle" /\ op[j].kind \in {"create", "used", "extend"} =>
               Backed(a, s, op[j].invitation.role, op[j].invitation.by))'
        BY <1>1, <3>1, <3>2, <4>1 DEF AllBacked
      <4>3. (\A j \in Tasks, t \in Tokens : next[j][t] # None =>
               Backed(a, s, next[j][t].role, next[j][t].by))'
        BY <2>4, <3>2, <4>1 DEF AllBacked
      <4>. QED  BY <1>1, <3>1, <4>1, <4>2, <4>3 DEF AllBacked
    <3>6. DrawnOnce(a)'  BY <2>6 DEF DrawnOnce
    <3>7. JoinedOnce(s)'
      <4>1. SUFFICES ASSUME s  PROVE JoinedOnce(s)'  BY DEF JoinedOnce
      <4>2. gate = k /\ \A j \in Tasks : j # k => at'[j] = "idle"
        BY <1>1, <3>2, <4>1 DEF JoinedOnce
      <4>3. Creating(k)' => Creating(k)  BY <1>1, <3>1 DEF Creating
      <4>4. \A t \in Tokens : Marking(k, t) => Marking(k, t)'
        BY <3>1, <3>2 DEF Marking
      <4>5. \A t \in Tokens : joins'[t] = 1 /\ OpenIn(invites', t) => \E j \in Tasks : Marking(j, t)'
        <5>1. SUFFICES ASSUME NEW t \in Tokens, joins[t] = 1, OpenIn(invites, t)
                       PROVE  \E j \in Tasks : Marking(j, t)'
          BY <1>1, <3>1
        <5>2. PICK j \in Tasks : Marking(j, t)  BY <4>1, <5>1 DEF JoinedOnce
        <5>3. j = k  BY <4>1, <4>2, <5>2 DEF JoinedOnce, Marking
        <5>. QED  BY <4>4, <5>2, <5>3
      <4>6. \A j \in Tasks, t \in Tokens : at'[j] = "write" /\ OpenIn(next'[j], t) =>
              IF op'[j].token = t /\ op'[j].kind \in {"create", "used"} THEN op'[j].kind = "create"
              ELSE OpenIn(invites', t)
        BY <2>3, <3>1, <3>2, <4>2
      <4>7. \A j \in Tasks : Creating(j)' \/ at'[j] = "join" => joins'[op'[j].token] = 0
        <5>1. \A j \in Tasks : Creating(j)' \/ at'[j] = "join" => j = k /\ Creating(k)
          BY <3>2, <4>2, <4>3 DEF Creating
        <5>. QED  BY <1>1, <3>1, <4>1, <5>1 DEF JoinedOnce
      <4>8. \A t \in Tokens : joins'[t] \in {0, 1} /\ (t \notin minted' => joins'[t] = 0)
        BY <1>1, <4>1 DEF JoinedOnce
      <4>. QED  BY <3>1, <4>2, <4>5, <4>6, <4>7, <4>8 DEF JoinedOnce
    <3>. QED  BY <3>3, <3>4, <3>5, <3>6, <3>7
  <2>. QED  BY <2>5, <2>6
<1>. QED  BY <1>3, <1>4

\* The list is written.
LEMMA InviteWrites ==
  ASSUME NEW a \in BOOLEAN, NEW s \in BOOLEAN, InviteInv(a, s), NEW k \in Tasks,
         Invite(a, s)!Write(k)
  PROVE  InviteInv(a, s)'
<1>. USE DEF InviteInv
<1>1. /\ at[k] = "write" /\ Invite(a, s)!Install(k, next[k])
      /\ next' = [next EXCEPT ![k] = Invite(a, s)!Empty] /\ UNCHANGED <<accounts, minted, joins, now>>
  BY DEF Invite!Write
<1>2. ~a  BY <1>1 DEF DrawnOnce
<1>3. PICK n \in Lists : n = next[k]  BY DEF InviteTyped
<1>4. Invite(a, s)!Empty \in Lists /\ \A t \in Tokens : Invite(a, s)!Empty[t] = None
  BY DEF Invite!Empty, Lists
<1>5. \A t \in Tokens : n[t] # None => Backed(a, s, n[t].role, n[t].by)  BY <1>3 DEF AllBacked
<1>6. s => \A t \in Tokens : OpenIn(n, t) =>
             IF op[k].token = t /\ op[k].kind \in {"create", "used"} THEN op[k].kind = "create"
             ELSE OpenIn(invites, t)
  BY <1>1, <1>3 DEF JoinedOnce
<1>7. \E e \in Lists : next' = [next EXCEPT ![k] = e] /\ \A t \in Tokens : e[t] = None
  BY <1>1, <1>4
<1>8. Invite(a, s)!Install(k, n) /\ at[k] \in {"store", "write"}  BY <1>1, <1>3
<1>. QED  BY <1>1, <1>2, <1>5, <1>6, <1>7, <1>8, InviteInstalls

\* When only the clock moves, or nothing does, the invariant is kept.
LEMMA InviteIdles ==
  ASSUME NEW a \in BOOLEAN, NEW s \in BOOLEAN, InviteInv(a, s), now' \in Nat,
         UNCHANGED <<invites, accounts, at, op, next, gate, minted, gone, joins>>
  PROVE  InviteInv(a, s)'
<1>3. InviteTyped'  BY DEF InviteInv, InviteTyped
<1>4. PeopleNamed'  BY DEF InviteInv, PeopleNamed
<1>5. AllBacked(a, s)'  BY DEF InviteInv, AllBacked, Backed
<1>6. DrawnOnce(a)'  BY DEF InviteInv, DrawnOnce, Creating
<1>7. JoinedOnce(s)'  BY DEF InviteInv, JoinedOnce, Creating, Marking
<1>. QED  BY <1>3, <1>4, <1>5, <1>6, <1>7 DEF InviteInv

\* Every call keeps the invariant, and so does the clock.
LEMMA InviteKept ==
  ASSUME NEW a \in BOOLEAN, NEW s \in BOOLEAN
  PROVE  /\ Invite(a, s)!Init => InviteInv(a, s)
         /\ InviteInv(a, s) /\ Invite(a, s)!Next => InviteInv(a, s)'
<1>0. None \notin Tasks /\ None \notin Tokens  BY InviteParts
<1>1. ASSUME Invite(a, s)!Init  PROVE InviteInv(a, s)
  <2>1. /\ invites = [t \in Tokens |-> None] /\ next = [k \in Tasks |-> [t \in Tokens |-> None]]
        /\ accounts = {[person |-> None, role |-> "super_admin", by |-> None]}
        /\ at = [k \in Tasks |-> "idle"] /\ op = [k \in Tasks |-> Invite(a, s)!NoCall]
        /\ gate = None /\ minted = {} /\ gone = {} /\ joins = [t \in Tokens |-> 0] /\ now = 0
    BY <1>1 DEF Invite!Init, Invite!Empty
  <2>2. Invite(a, s)!NoCall \in InviteCalls  BY DEF InviteCalls, Invite!NoCall, Invite!Call
  <2>3. InviteTyped  BY <2>1, <2>2 DEF InviteTyped, Lists
  <2>4. PeopleNamed  BY <2>1 DEF PeopleNamed
  <2>5. AllBacked(a, s)
    <3>1. "super_admin" \in DOMAIN Invite(a, s)!ROLE_HIERARCHY  BY DEF Invite!ROLE_HIERARCHY
    <3>2. \A b \in accounts : b.role = "super_admin" /\ b.person = None  BY <2>1
    <3>. QED  BY <2>1, <3>1, <3>2 DEF AllBacked
  <2>6. DrawnOnce(a)  BY <2>1 DEF DrawnOnce, Creating
  <2>7. JoinedOnce(s)  BY <2>1 DEF JoinedOnce, Creating, OpenIn
  <2>. QED  BY <2>3, <2>4, <2>5, <2>6, <2>7 DEF InviteInv
<1>2. ASSUME InviteInv(a, s), Invite(a, s)!Tick  PROVE InviteInv(a, s)'
  <2>1. UNCHANGED <<invites, accounts, at, op, next, gate, minted, gone, joins>> /\ now' = now + 1
    BY <1>2 DEF Invite!Tick
  <2>2. now' \in Nat  BY <1>2, <2>1 DEF InviteInv, InviteTyped
  <2>. QED  BY <1>2, <2>1, <2>2, InviteIdles
<1>3. ASSUME InviteInv(a, s), Invite(a, s)!Next  PROVE InviteInv(a, s)'
  BY <1>2, <1>3, InviteCreates, InviteReads, InviteJoins, InviteStores, InviteWrites
  DEF Invite!Next
<1>. QED  BY <1>1, <1>3

\* Both uses of invitations keep it.
InvitesInv ==
  /\ running = "invited" => InviteInv(TRUE, FALSE)
  /\ running = "invitedFile" => InviteInv(FALSE, TRUE)

\* A step of the stores is a step of the invitations that run, or leaves them alone.
LEMMA InvitesStep == InvitesInv /\ [StoresNext]_storesVars => InvitesInv'
<1>. SUFFICES ASSUME InvitesInv, [StoresNext]_storesVars PROVE InvitesInv'  OBVIOUS
<1>1. CASE UNCHANGED storesVars
  <2>1. /\ UNCHANGED <<invites, accounts, at, op, next, gate, minted, gone, joins>>
        /\ running' = running /\ now' = now
    BY <1>1 DEF storesVars, directory, invitation, inviteVars, callVars
  <2>2. ASSUME NEW a \in BOOLEAN, NEW s \in BOOLEAN, InviteInv(a, s)  PROVE InviteInv(a, s)'
    BY <2>1, <2>2, InviteIdles DEF InviteInv, InviteTyped
  <2>. QED  BY <2>1, <2>2 DEF InvitesInv
<1>2. CASE StoresNext
  <2>1. running' = running  BY <1>2 DEF StoresNext
  <2>2. running = "invited" => Invite(TRUE, FALSE)!Next  BY <1>2 DEF StoresNext
  <2>3. running = "invitedFile" => Invite(FALSE, TRUE)!Next  BY <1>2 DEF StoresNext
  <2>. QED  BY <2>1, <2>2, <2>3, InviteKept DEF InvitesInv
<1>. QED  BY <1>1, <1>2

\* Every behaviour of the stores keeps it.
LEMMA InvitesKept == StoresSpec => []InvitesInv
<1>1. StoresInit => InvitesInv  BY InviteKept DEF StoresInit, InvitesInv
<1>. QED  BY <1>1, InvitesStep, PTL DEF StoresSpec

\* Everybody who joined ranks strictly below the one who invited him, along every chain of
\* invitations (canInviteForRole; no update changes the role of an invitation).
THEOREM InvitedRanksBelow == StoresSpec => []InvitedRankBelow
<1>1. InvitesInv => InvitedRankBelow
  <2>1. ASSUME NEW a \in BOOLEAN, NEW s \in BOOLEAN, InviteInv(a, s)
        PROVE  Invite(a, s)!InvitedRankBelow
    <3>1. \A b \in accounts : b.person # None => Backed(a, s, b.role, b.by)
      BY <2>1 DEF InviteInv, AllBacked
    <3>. QED  BY <3>1 DEF Backed, Invite!InvitedRankBelow
  <2>. QED  BY <2>1 DEF InvitesInv, InvitedRankBelow
<1>. QED  BY <1>1, InvitesKept, PTL

\* A used invitation stays used in every step over the memory adapter.
LEMMA UsesStay ==
  ASSUME NEW s \in BOOLEAN, InviteInv(TRUE, s), Invite(TRUE, s)!Next
  PROVE  Invite(TRUE, s)!UsesKept
<1>1. ASSUME invites' # invites  PROVE \E k \in Tasks : Invite(TRUE, s)!Store(k)
  <2>1. \A k \in Tasks : ~Invite(TRUE, s)!Write(k)
    BY DEF InviteInv, DrawnOnce, Invite!Write
  <2>. QED  BY <1>1, <2>1 DEF Invite!Next, Invite!createInvitation, Invite!Accept,
               Invite!revokeInvitation, Invite!extendInvitation, Invite!cleanupExpired, Invite!Enter,
               Invite!Join, Invite!Tick
<1>2. ASSUME NEW k \in Tasks, Invite(TRUE, s)!Store(k), NEW t \in Tokens,
             invites[t] # None, invites[t].used = TRUE
      PROVE  invites'[t] = None \/ invites'[t].used = TRUE
  <2>1. /\ at[k] = "store" /\ Carried(op[k], Tokens)
        /\ op[k] \in InviteCalls /\ invites \in Lists
        /\ op[k].kind = "create" => invites[op[k].token] = None
    BY <1>2 DEF Invite!Store, InviteInv, InviteTyped, Carried, DrawnOnce, Creating
  <2>2. CASE Invite(TRUE, s)!Missing(op[k])
    BY <1>2, <2>2 DEF Invite!Store, Invite!Install
  <2>3. CASE ~Invite(TRUE, s)!Missing(op[k])
    <3>1. invites' = Invite(TRUE, s)!Changed(op[k], invites)
      BY <1>2, <2>3 DEF Invite!Store, Invite!Install
    <3>2. op[k].kind \in {"used", "extend", "delete"} => invites[op[k].token] # None
      BY <2>3 DEF Invite!Missing
    <3>3. PICK call \in InviteCalls : call = op[k]  BY <2>1
    <3>4. Carried(call, Tokens) /\ (call.kind \in {"used", "extend", "delete"} => invites[call.token] # None)
      BY <2>1, <3>2, <3>3
    <3>5. CallEffect(call, invites, invites')  BY <2>1, <3>1, <3>3, <3>4, ChangedCall
    <3>. QED  BY <1>2, <2>1, <3>3, <3>5 DEF CallEffect
  <2>. QED  BY <2>2, <2>3
<1>3. \A t \in Tokens : invites[t] # None /\ invites[t].used => invites[t].used = TRUE
  BY DEF InviteInv, InviteTyped, Lists, Item
<1>4. ASSUME NEW t \in Tokens, invites[t] # None, invites[t].used
      PROVE  invites'[t] = None \/ invites'[t].used
  <2>1. CASE invites' = invites  BY <1>4, <2>1
  <2>2. CASE invites' # invites  BY <1>1, <1>2, <1>3, <1>4, <2>2
  <2>. QED  BY <2>1, <2>2
<1>. QED  BY <1>4 DEF Invite!UsesKept

\* An invitation is spent once: revoked or cleaned up, it is never stored again; used, it is
\* never usable again, whatever update was under way; under the gate it makes one account
\* (updateInvitation, extendInvitation, markAsUsed).
THEOREM InvitationSpentOnce == StoresSpec => InvitationSpent
<1>1. ASSUME InvitesInv, [StoresNext]_storesVars
      PROVE  [/\ running = "invited" =>
                   (Invite(TRUE, FALSE)!RevokedStaysGone)' /\ Invite(TRUE, FALSE)!UsesKept
              /\ running = "invitedFile" =>
                   (Invite(FALSE, TRUE)!AcceptedOnce)']_<<running, inviteVars>>
  <2>1. SUFFICES ASSUME <<running, inviteVars>>' # <<running, inviteVars>>
        PROVE  /\ running = "invited" =>
                    (Invite(TRUE, FALSE)!RevokedStaysGone)' /\ Invite(TRUE, FALSE)!UsesKept
               /\ running = "invitedFile" => (Invite(FALSE, TRUE)!AcceptedOnce)'
    OBVIOUS
  <2>2. StoresNext  BY <1>1, <2>1 DEF storesVars, invitation
  <2>3. InvitesInv' /\ running' = running  BY <1>1, <2>2, InvitesStep DEF StoresNext
  <2>4. ASSUME running = "invited"
        PROVE  (Invite(TRUE, FALSE)!RevokedStaysGone)' /\ Invite(TRUE, FALSE)!UsesKept
    <3>1. InviteInv(TRUE, FALSE) /\ InviteInv(TRUE, FALSE)' /\ Invite(TRUE, FALSE)!Next
      BY <1>1, <2>2, <2>3, <2>4 DEF InvitesInv, StoresNext
    <3>2. (\A t \in gone : invites[t] = None)'  BY <3>1 DEF InviteInv, DrawnOnce
    <3>3. Invite(TRUE, FALSE)!UsesKept  BY <3>1, UsesStay
    <3>. QED  BY <3>2, <3>3 DEF Invite!RevokedStaysGone
  <2>5. ASSUME running = "invitedFile"  PROVE (Invite(FALSE, TRUE)!AcceptedOnce)'
    <3>1. InviteInv(FALSE, TRUE)'  BY <2>3, <2>5 DEF InvitesInv
    <3>2. (\A t \in Tokens : joins[t] \in {0, 1})'  BY <3>1 DEF InviteInv, JoinedOnce
    <3>3. (\A t \in Tokens : joins[t] <= 1)'  BY <3>2
    <3>. QED  BY <3>3 DEF Invite!AcceptedOnce
  <2>. QED  BY <2>4, <2>5
<1>. QED  BY <1>1, InvitesKept, PTL DEF StoresSpec, InvitationSpent

-----------------------------------------------------------------------------
(* Users by handle.                                                        *)

Names   == {h.name : h \in Spellings}
User    == [handle : Spellings, active : BOOLEAN]
Living  == {i \in DOMAIN users : users[i] # None}
Cascade == {"sessions", "totp", "codes"}

Sentinel(n) == n \in Nat \ {0} /\ None \notin Tasks \cup (1 .. n) \cup User

\* What a call carries, and which user it is about at each of its steps.
DirCalls(n) == [kind : {"add", "remove", "rename", "suspend", "validate"}, handle : Spellings,
                id : (1 .. n) \cup {None}, closed : SUBSET (1 .. n)]

CallTyped(n, where, call, drawn) ==
  /\ call \in DirCalls(n) /\ call.closed \subseteq 1 .. drawn
  /\ where = "lookup" /\ call.kind = "rename" => call.id \in 1 .. drawn
  /\ where \in {"store", "write"} /\ call.kind # "add" => call.id \in 1 .. drawn
  /\ where \in {"store", "write"} => call.kind # "validate"
  /\ where \in Cascade => call.id \in 1 .. drawn

DirTyped(n) ==
  /\ users \in [1 .. n -> User \cup {None}] /\ next \in [Tasks -> [1 .. n -> User \cup {None}]]
  /\ byHandle \in [Names -> (1 .. n) \cup {None}] /\ totp \in [Names -> (1 .. n) \cup {None}]
  /\ minted \in 0 .. n
  /\ at \in [Tasks -> {"idle", "lookup", "store", "write", "answer"} \cup Cascade]
  /\ op = [k \in Tasks |-> op[k]]
  /\ \A k \in Tasks : at[k] # "idle" => CallTyped(n, at[k], op[k], minted)
  /\ Living \subseteq 1 .. minted
  /\ \A h \in Names : byHandle[h] # None => byHandle[h] \in 1 .. minted

\* The index of the memory adapter, and what a call keeps of whom it has found closed or
\* removed.
IsClosed(i) == users[i] = None \/ users[i].active = FALSE

IndexKept ==
  /\ \A h \in Names : byHandle[h] # None /\ users[byHandle[h]] # None =>
       users[byHandle[h]].handle.name = h
  /\ removed \subseteq 1 .. minted /\ \A i \in removed : users[i] = None
  /\ \A k \in Tasks : at[k] \in Cascade => users[op[k].id] = None
  /\ \A k \in Tasks : at[k] # "idle" => \A i \in op[k].closed : IsClosed(i)
  /\ \A k \in Tasks : at[k] = "answer" => op[k].id \notin op[k].closed
  /\ \A k \in Tasks : at[k] # "write"
  /\ stale = {}

GateHeld == \A k \in Tasks : at[k] # "idle" => gate = k

\* Under the gate every user of the memory adapter is indexed, and what lookup saw of the
\* handle still holds when the change is stored.
Renaming(k) == at[k] = "store" /\ op[k].kind = "rename"
Naming(k)   == at[k] = "store" /\ op[k].kind \in {"add", "rename"}

NameFree(call) == \A i \in Living :
  users[i].handle.name = call.handle.name => call.kind = "rename" /\ i = call.id

AllIndexed ==
  /\ \A i \in Living : byHandle[users[i].handle.name] = i
  /\ \A k \in Tasks : Naming(k) => NameFree(op[k])

\* Under the gate only the cascade of a removal still holds something of a removed user.
Removing(i, where) == \E k \in Tasks : at[k] \in where /\ op[k].id = i

SecretIn(i, h) ==
  \/ i \in Living /\ users[i].handle.name = h
  \/ \E k \in Tasks : at[k] \in {"sessions", "totp"} /\ op[k].id = i /\ op[k].handle.name = h

LeftBehind ==
  /\ \A i \in sessions : i \in Living \/ Removing(i, {"sessions"})
  /\ \A i \in codes : i \in Living \/ Removing(i, Cascade)
  /\ \A h \in Names : totp[h] # None => SecretIn(totp[h], h)
  /\ \A k \in Tasks : Renaming(k) => \A h \in Names : totp[h] # op[k].id

\* The file adapter compares handles as they are spelled.
Apart(S) == \A i, j \in DOMAIN S :
  S[i] # None /\ S[j] # None /\ S[i].handle = S[j].handle => i = j

SpellingFree(call) == \A i \in Living :
  users[i].handle = call.handle => call.kind = "rename" /\ i = call.id

SpelledApart ==
  /\ Apart(users) /\ \A k \in Tasks : at[k] = "write" => Apart(next[k])
  /\ \A k \in Tasks : Naming(k) => SpellingFree(op[k])
  /\ \A k \in Tasks, i \in DOMAIN users : at[k] = "write" /\ next[k][i] # None => i \in 1 .. minted
  /\ \A k \in Tasks : at[k] \notin Cascade

DirInv(m, s, n) ==
  /\ DirTyped(n) /\ (m => IndexKept) /\ (s => GateHeld)
  /\ m /\ s => AllIndexed /\ LeftBehind
  /\ ~m => SpelledApart

\* The gate is held by the one task that is not idle.
LEMMA GateAlone ==
  ASSUME GateHeld, NEW k \in Tasks, at[k] # "idle"
  PROVE  gate = k /\ \A j \in Tasks : j # k => at[j] = "idle"
BY DEF GateHeld

\* A call that returns leaves the tasks and what they carry alone.
LEMMA DirLeaves ==
  ASSUME NEW m \in BOOLEAN, NEW s \in BOOLEAN, NEW n, Sentinel(n), DirTyped(n), NEW k \in Tasks,
         Directory(m, s, n)!Leave(k), minted' \in 0 .. n, minted <= minted'
  PROVE  /\ at'[k] = "idle" /\ \A j \in Tasks : j # k => at'[j] = at[j] /\ op'[j] = op[j]
         /\ at' \in [Tasks -> {"idle", "lookup", "store", "write", "answer"} \cup Cascade]
         /\ op' = [j \in Tasks |-> op'[j]]
         /\ \A j \in Tasks : at'[j] # "idle" => CallTyped(n, at'[j], op'[j], minted')
         /\ s /\ GateHeld => GateHeld'
<1>1. /\ at' = [at EXCEPT ![k] = "idle"] /\ op' = [op EXCEPT ![k] = None]
      /\ gate' = (IF gate = k THEN None ELSE gate)
  BY DEF Directory!Leave
<1>2. at'[k] = "idle" /\ \A j \in Tasks : j # k => at'[j] = at[j] /\ op'[j] = op[j]
  BY <1>1 DEF DirTyped
<1>3. /\ at' \in [Tasks -> {"idle", "lookup", "store", "write", "answer"} \cup Cascade]
      /\ op' = [j \in Tasks |-> op'[j]]
  BY <1>1 DEF DirTyped
<1>4. \A j \in Tasks : at'[j] # "idle" => CallTyped(n, at'[j], op'[j], minted')
  <2>1. 1 .. minted \subseteq 1 .. minted'  BY DEF DirTyped, Sentinel
  <2>. QED  BY <1>2, <2>1 DEF DirTyped, CallTyped
<1>5. GateHeld => GateHeld'  BY <1>1, <1>2 DEF GateHeld
<1>. QED  BY <1>2, <1>3, <1>4, <1>5

\* A task moves on and nothing is stored: what it carries is sound where it goes.
LEMMA DirMoves ==
  ASSUME NEW m \in BOOLEAN, NEW s \in BOOLEAN, NEW n, Sentinel(n), DirInv(m, s, n), NEW k \in Tasks,
         UNCHANGED <<users, byHandle, sessions, codes, totp, next, minted, removed>>,
         at' \in [Tasks -> {"idle", "lookup", "store", "write", "answer"} \cup Cascade],
         op' = [j \in Tasks |-> op'[j]], at[k] \notin Cascade, at'[k] \notin Cascade \cup {"write"},
         \A j \in Tasks : j # k => at'[j] = at[j] /\ op'[j] = op[j],
         at'[k] # "idle" => CallTyped(n, at'[k], op'[k], minted),
         s => GateHeld',
         m => stale' = {} /\ (at'[k] # "idle" => \A i \in op'[k].closed : IsClosed(i)),
         m => (at'[k] = "answer" => op'[k].id \notin op'[k].closed),
         at'[k] = "store" /\ op'[k].kind \in {"add", "rename"} =>
           (m /\ s => NameFree(op'[k])) /\ (~m => SpellingFree(op'[k])),
         m /\ s /\ at'[k] = "store" /\ op'[k].kind = "rename" => \A h \in Names : totp[h] # op'[k].id
  PROVE  DirInv(m, s, n)'
<1>. USE DEF DirInv
<1>0. /\ users' = users /\ byHandle' = byHandle /\ totp' = totp /\ minted' = minted
      /\ sessions' = sessions /\ codes' = codes /\ next' = next /\ removed' = removed
  OBVIOUS
<1>1. DirTyped(n)'
  <2>1. \A j \in Tasks : at'[j] # "idle" => CallTyped(n, at'[j], op'[j], minted')
    BY <1>0 DEF DirTyped
  <2>. QED  BY <1>0, <2>1 DEF DirTyped, Living
<1>2. m => IndexKept'
  <2>1. SUFFICES ASSUME m  PROVE IndexKept'  OBVIOUS
  <2>2. \A j \in Tasks : at'[j] \in Cascade => users'[op'[j].id] = None
    BY <1>0, <2>1 DEF IndexKept
  <2>3. \A j \in Tasks : at'[j] # "idle" => \A i \in op'[j].closed : IsClosed(i)'
    BY <1>0, <2>1 DEF IndexKept, IsClosed
  <2>4. \A j \in Tasks : at'[j] = "answer" => op'[j].id \notin op'[j].closed
    BY <1>0, <2>1 DEF IndexKept
  <2>5. \A j \in Tasks : at'[j] # "write"  BY <2>1 DEF IndexKept
  <2>. QED  BY <1>0, <2>1, <2>2, <2>3, <2>4, <2>5 DEF IndexKept
<1>3. m /\ s => AllIndexed'
  <2>1. SUFFICES ASSUME m /\ s  PROVE AllIndexed'  OBVIOUS
  <2>2. \A j \in Tasks : Naming(j)' => NameFree(op'[j])
    BY <1>0, <2>1 DEF AllIndexed, Naming
  <2>3. \A c : NameFree(c)' <=> NameFree(c)  BY <1>0 DEF NameFree, Living
  <2>. QED  BY <1>0, <2>1, <2>2, <2>3 DEF AllIndexed, NameFree, Living
<1>4. m /\ s => LeftBehind'
  <2>1. SUFFICES ASSUME m /\ s  PROVE LeftBehind'  OBVIOUS
  <2>2. \A i : /\ Removing(i, {"sessions"}) => Removing(i, {"sessions"})'
               /\ Removing(i, Cascade) => Removing(i, Cascade)'
    BY <1>0 DEF Removing, Cascade
  <2>3. \A i, h : SecretIn(i, h) => SecretIn(i, h)'
    BY <1>0 DEF SecretIn, Living, Cascade
  <2>4. \A j \in Tasks : Renaming(j)' => \A h \in Names : totp'[h] # op'[j].id
    BY <1>0, <2>1 DEF LeftBehind, Renaming
  <2>5. Living' = Living  BY <1>0 DEF Living
  <2>. QED  BY <1>0, <2>1, <2>2, <2>3, <2>4, <2>5 DEF LeftBehind
<1>5. ~m => SpelledApart'
  <2>1. SUFFICES ASSUME ~m  PROVE SpelledApart'  OBVIOUS
  <2>2. \A j \in Tasks : Naming(j)' => SpellingFree(op'[j])
    BY <1>0, <2>1 DEF SpelledApart, Naming
  <2>3. \A c : SpellingFree(c)' <=> SpellingFree(c)  BY <1>0 DEF SpellingFree, Living
  <2>4. \A j \in Tasks : at'[j] = "write" => at[j] = "write"  OBVIOUS
  <2>5. \A j \in Tasks : at'[j] \notin Cascade  BY <2>1 DEF SpelledApart
  <2>6. (\A j \in Tasks : Naming(j) => SpellingFree(op[j]))'  BY <2>2, <2>3
  <2>7. (\A j \in Tasks : at[j] = "write" => Apart(next[j]))'
    BY <1>0, <2>1, <2>4 DEF SpelledApart, Apart
  <2>8. Apart(users)'  BY <1>0, <2>1 DEF SpelledApart, Apart
  <2>9. (\A j \in Tasks, i \in DOMAIN users : at[j] = "write" /\ next[j][i] # None => i \in 1 .. minted)'
    BY <1>0, <2>1, <2>4 DEF SpelledApart
  <2>. QED  BY <2>5, <2>6, <2>7, <2>8, <2>9 DEF SpelledApart
<1>. QED  BY <1>1, <1>2, <1>3, <1>4, <1>5

\* A call begins, with the users that are closed.
LEMMA DirBegins ==
  ASSUME NEW m \in BOOLEAN, NEW s \in BOOLEAN, NEW n, Sentinel(n), DirInv(m, s, n), NEW k \in Tasks,
         Directory(m, s, n)!Begin(k)
  PROVE  DirInv(m, s, n)'
<1>. USE DEF DirInv
<1>1. PICK kind \in {"add", "remove", "rename", "suspend", "validate"}, h \in Spellings,
           i \in Living \cup {None} :
        /\ (kind = "rename") <=> (i # None)
        /\ op' = [op EXCEPT ![k] = Directory(m, s, n)!Call(kind, h, i, Directory(m, s, n)!Closed)]
  BY DEF Directory!Begin, Directory!Kinds, Directory!Live, Directory!Ids, Living, DirTyped
<1>2. /\ at[k] = "idle" /\ at' = [at EXCEPT ![k] = "lookup"] /\ (s => gate = None)
      /\ gate' = (IF s THEN k ELSE None)
      /\ UNCHANGED <<users, byHandle, sessions, codes, totp, next, minted, removed, stale>>
  BY DEF Directory!Begin, Directory!credentials
<1>3. PICK Z : /\ Z = Directory(m, s, n)!Closed /\ Z \subseteq 1 .. minted
               /\ \A z \in Z : users[z] = None \/ users[z].active = FALSE
  <2>1. \A z \in 1 .. minted : z \in 1 .. n  BY DEF DirTyped, Sentinel
  <2>2. \A z \in 1 .. minted : users[z] # None => users[z].active \in BOOLEAN
    BY <2>1 DEF DirTyped, User
  <2>3. ASSUME NEW z \in Directory(m, s, n)!Closed
        PROVE  z \in 1 .. minted /\ (users[z] = None \/ users[z].active = FALSE)
    BY <2>2, <2>3 DEF Directory!Closed
  <2>. QED  BY <2>3
<1>4. PICK call : call = Directory(m, s, n)!Call(kind, h, i, Z)  OBVIOUS
<1>5. call.kind = kind /\ call.handle = h /\ call.id = i /\ call.closed = Z
  BY <1>4 DEF Directory!Call
<1>6. op' = [op EXCEPT ![k] = call]  BY <1>1, <1>3, <1>4
<1>7. at'[k] = "lookup" /\ op'[k] = call
        /\ \A j \in Tasks : j # k => at'[j] = at[j] /\ op'[j] = op[j]
  BY <1>2, <1>6 DEF DirTyped
<1>8. CallTyped(n, "lookup", call, minted)
  <2>1. Z \in SUBSET (1 .. n) /\ i \in (1 .. n) \cup {None} /\ (i # None => i \in 1 .. minted)
    BY <1>3 DEF DirTyped, Living, Sentinel
  <2>2. call \in DirCalls(n)  BY <1>4, <2>1 DEF DirCalls, Directory!Call
  <2>. QED  BY <1>1, <1>3, <1>5, <2>1, <2>2 DEF CallTyped, Cascade
<1>9. /\ at' \in [Tasks -> {"idle", "lookup", "store", "write", "answer"} \cup Cascade]
      /\ op' = [j \in Tasks |-> op'[j]]
  BY <1>2, <1>6 DEF DirTyped
<1>10. s => GateHeld'
  <2>1. SUFFICES ASSUME s, NEW j \in Tasks, at'[j] # "idle"  PROVE gate' = j  BY DEF GateHeld
  <2>2. CASE j = k  BY <1>2, <2>1, <2>2
  <2>3. CASE j # k  BY <1>2, <1>7, <2>1, <2>3 DEF GateHeld, Sentinel
  <2>. QED  BY <2>2, <2>3
<1>11. m => stale' = {} /\ \A z \in op'[k].closed : IsClosed(z)
  BY <1>2, <1>3, <1>5, <1>7 DEF IndexKept, IsClosed
<1>12. at[k] \notin Cascade /\ at'[k] \notin Cascade \cup {"write"}  BY <1>2, <1>7 DEF Cascade
<1>. QED  BY <1>2, <1>7, <1>8, <1>9, <1>10, <1>11, <1>12, DirMoves

\* What a lookup answers is stored under that handle, and says whether the handle is free.
LEMMA LookupAnswers ==
  ASSUME NEW m \in BOOLEAN, NEW s \in BOOLEAN, NEW n, Sentinel(n), DirInv(m, s, n),
         NEW h \in Spellings, NEW r, r = Directory(m, s, n)!getUserByHandle(h)
  PROVE  /\ r # None => r \in 1 .. minted /\ users[r] # None
         /\ m /\ s => \A i \in Living : users[i].handle.name = h.name => r = i
         /\ ~m => \A i \in Living : users[i].handle = h => r = i
<1>. USE DEF DirInv
<1>1. h.name \in Names /\ None \notin 1 .. n /\ DOMAIN users = 1 .. n
  BY DEF Names, Sentinel, DirTyped
<1>2. CASE m
  <2>1. r = IF byHandle[h.name] # None /\ users[byHandle[h.name]] # None THEN byHandle[h.name] ELSE None
    BY <1>2 DEF Directory!getUserByHandle
  <2>2. r # None => r \in 1 .. minted /\ users[r] # None  BY <1>1, <2>1 DEF DirTyped
  <2>3. ASSUME s, NEW i \in Living, users[i].handle.name = h.name  PROVE r = i
    <3>1. byHandle[h.name] = i /\ i \in 1 .. n /\ users[i] # None
      BY <1>1, <1>2, <2>3 DEF AllIndexed, Living
    <3>. QED  BY <1>1, <2>1, <3>1
  <2>. QED  BY <1>2, <2>2, <2>3
<1>3. CASE ~m
  <2>1. PICK S : S = {i \in Living : users[i].handle = h}  OBVIOUS
  <2>2. r = IF S = {} THEN None ELSE CHOOSE i \in S : \A j \in S : i <= j
    BY <1>1, <1>3, <2>1 DEF Directory!getUserByHandle, Directory!Live, Directory!Ids, Living
  <2>3. ASSUME NEW i \in S, NEW j \in S  PROVE i = j
    BY <1>3, <2>1 DEF SpelledApart, Apart, Living
  <2>4. ASSUME NEW i \in S  PROVE r = i
    <3>1. i \in Nat  BY <1>1, <2>1 DEF Living
    <3>2. \A j \in S : i <= j  BY <2>3, <3>1
    <3>3. S # {}  BY <2>4
    <3>4. r \in S  BY <2>2, <2>4, <3>2
    <3>. QED  BY <2>3, <3>4
  <2>5. r # None => r \in S
    <3>1. r # None => S # {}  BY <2>2
    <3>. QED  BY <2>4, <3>1
  <2>6. \A i \in S : i \in 1 .. minted /\ users[i] # None  BY <2>1 DEF DirTyped, Living
  <2>7. \A i \in Living : users[i].handle = h => r = i  BY <2>1, <2>4
  <2>. QED  BY <1>3, <2>5, <2>6, <2>7
<1>. QED  BY <1>2, <1>3

\* A call returns with nothing stored.
LEMMA DirReturns ==
  ASSUME NEW m \in BOOLEAN, NEW s \in BOOLEAN, NEW n, Sentinel(n), DirInv(m, s, n), NEW k \in Tasks,
         Directory(m, s, n)!Leave(k), at[k] \notin Cascade, m => stale' = {},
         UNCHANGED <<users, byHandle, sessions, codes, totp, next, minted, removed>>
  PROVE  DirInv(m, s, n)'
<1>. USE DEF DirInv
<1>1. /\ at'[k] = "idle" /\ \A j \in Tasks : j # k => at'[j] = at[j] /\ op'[j] = op[j]
      /\ at' \in [Tasks -> {"idle", "lookup", "store", "write", "answer"} \cup Cascade]
      /\ op' = [j \in Tasks |-> op'[j]] /\ (s => GateHeld')
  <2>1. minted' \in 0 .. n /\ minted <= minted'  BY DEF DirTyped, Sentinel
  <2>. QED  BY <2>1, DirLeaves
<1>2. at'[k] \notin Cascade \cup {"write"}  BY <1>1 DEF Cascade
<1>. QED  BY <1>1, <1>2, DirMoves

\* A lookup goes on to its change, or to the password, or returns.
LEMMA DirLooks ==
  ASSUME NEW m \in BOOLEAN, NEW s \in BOOLEAN, NEW n, Sentinel(n), DirInv(m, s, n), NEW k \in Tasks,
         Directory(m, s, n)!lookup(k)
  PROVE  DirInv(m, s, n)'
<1>. USE DEF DirInv
<1>1. /\ at[k] = "lookup"
      /\ UNCHANGED <<users, byHandle, sessions, codes, totp, next, minted, removed, stale>>
  BY DEF Directory!lookup, Directory!credentials
<1>2. at[k] \notin Cascade /\ (m => stale' = {})  BY <1>1 DEF Cascade, IndexKept
<1>3. CASE ~Directory(m, s, n)!Proceeds(op[k])
  <2>1. Directory(m, s, n)!Leave(k)  BY <1>3 DEF Directory!lookup
  <2>. QED  BY <1>1, <1>2, <2>1, DirReturns
<1>4. CASE Directory(m, s, n)!Proceeds(op[k])
  <2>1. PICK c : c = op[k] /\ CallTyped(n, "lookup", c, minted)  BY <1>1 DEF DirTyped
  <2>2. c \in DirCalls(n) /\ c.handle \in Spellings  BY <2>1 DEF CallTyped, DirCalls
  <2>3. PICK r : r = Directory(m, s, n)!getUserByHandle(c.handle)  OBVIOUS
  <2>4. /\ r # None => r \in 1 .. minted /\ users[r] # None
        /\ m /\ s => \A i \in Living : users[i].handle.name = c.handle.name => r = i
        /\ ~m => \A i \in Living : users[i].handle = c.handle => r = i
    BY <2>2, <2>3, LookupAnswers
  <2>5. /\ c.kind = "add" => r = None
        /\ c.kind = "rename" => r \in {None, c.id} /\ \A h \in Names : totp[h] # c.id
        /\ c.kind = "validate" => r # None /\ users[r].active
        /\ c.kind \notin {"add", "rename", "validate"} => r # None
    BY <1>4, <2>1, <2>3 DEF Directory!Proceeds, Directory!Names, Names
  <2>6. PICK d : /\ d = [c EXCEPT !.id = IF c.kind \in {"add", "rename"} THEN c.id ELSE r]
                 /\ op' = [op EXCEPT ![k] = d]
    BY <1>4, <2>1, <2>3 DEF Directory!lookup
  <2>7. /\ at' = [at EXCEPT ![k] = IF c.kind = "validate" THEN "answer" ELSE "store"]
        /\ gate' = gate
    BY <1>4, <2>1 DEF Directory!lookup
  <2>8. 1 .. minted \subseteq 1 .. n  BY DEF DirTyped, Sentinel
  <2>9. c.kind \notin {"add", "rename"} => r \in 1 .. minted
    BY <2>2, <2>4, <2>5 DEF DirCalls
  <2>10. d \in DirCalls(n) /\ d.kind = c.kind /\ d.handle = c.handle /\ d.closed = c.closed
           /\ d.id = IF c.kind \in {"add", "rename"} THEN c.id ELSE r
    BY <2>2, <2>6, <2>8, <2>9 DEF DirCalls
  <2>11. at'[k] = (IF c.kind = "validate" THEN "answer" ELSE "store") /\ op'[k] = d
           /\ \A j \in Tasks : j # k => at'[j] = at[j] /\ op'[j] = op[j]
    BY <2>6, <2>7 DEF DirTyped
  <2>12. /\ at' \in [Tasks -> {"idle", "lookup", "store", "write", "answer"} \cup Cascade]
         /\ op' = [j \in Tasks |-> op'[j]]
    BY <2>6, <2>7 DEF DirTyped
  <2>13. CallTyped(n, at'[k], op'[k], minted)
    <3>1. c.kind = "rename" => c.id \in 1 .. minted  BY <2>1 DEF CallTyped
    <3>2. c.closed \subseteq 1 .. minted  BY <2>1 DEF CallTyped
    <3>. QED  BY <2>9, <2>10, <2>11, <3>1, <3>2 DEF CallTyped, Cascade
  <2>14. s => GateHeld'
    <3>1. \A j \in Tasks : at'[j] # "idle" => at[j] # "idle"  BY <1>1, <2>11
    <3>. QED  BY <2>7, <3>1 DEF GateHeld
  <2>15. m => \A i \in op'[k].closed : IsClosed(i)
    BY <1>1, <2>1, <2>10, <2>11 DEF IndexKept
  <2>16. m /\ at'[k] = "answer" => op'[k].id \notin op'[k].closed
    <3>1. SUFFICES ASSUME m, c.kind = "validate"  PROVE r \notin c.closed
      BY <2>10, <2>11
    <3>2. \A i \in c.closed : IsClosed(i)  BY <1>1, <2>1, <3>1 DEF IndexKept
    <3>. QED  BY <2>4, <2>5, <3>1, <3>2 DEF IsClosed
  <2>17. at'[k] = "store" /\ op'[k].kind \in {"add", "rename"} =>
           (m /\ s => NameFree(op'[k])) /\ (~m => SpellingFree(op'[k]))
    <3>1. \A i \in Living : i # None  BY DEF Living, DirTyped, Sentinel
    <3>2. ASSUME d.kind \in {"add", "rename"}, NEW i \in Living, r = i
          PROVE  d.kind = "rename" /\ i = d.id
      BY <2>5, <2>10, <3>1, <3>2
    <3>. QED  BY <2>4, <2>10, <2>11, <3>2 DEF NameFree, SpellingFree
  <2>18. at'[k] = "store" /\ op'[k].kind = "rename" => \A h \in Names : totp[h] # op'[k].id
    BY <2>5, <2>10, <2>11
  <2>19. at'[k] \notin Cascade \cup {"write"}  BY <2>11 DEF Cascade
  <2>. QED  BY <1>1, <1>2, <2>11, <2>12, <2>13, <2>14, <2>15, <2>16, <2>17, <2>18, <2>19, DirMoves
<1>. QED  BY <1>3, <1>4

\* The password is checked for a user that was not closed when the call began.
LEMMA DirAnswers ==
  ASSUME NEW m \in BOOLEAN, NEW s \in BOOLEAN, NEW n, Sentinel(n), DirInv(m, s, n), NEW k \in Tasks,
         Directory(m, s, n)!validateHandle(k)
  PROVE  DirInv(m, s, n)'
<1>1. /\ at[k] = "answer" /\ Directory(m, s, n)!Leave(k)
      /\ stale' \in {stale, stale \cup ({op[k].id} \cap op[k].closed)}
      /\ UNCHANGED <<users, byHandle, sessions, codes, totp, next, minted, removed>>
  BY DEF Directory!validateHandle, Directory!credentials
<1>2. m => stale' = {}
  <2>1. m => stale = {} /\ op[k].id \notin op[k].closed  BY <1>1 DEF DirInv, IndexKept
  <2>. QED  BY <1>1, <2>1
<1>3. at[k] \notin Cascade  BY <1>1 DEF Cascade
<1>. QED  BY <1>1, <1>2, <1>3, DirReturns

\* A change of a user that is gone changes nothing.
LEMMA DirMisses ==
  ASSUME NEW m \in BOOLEAN, NEW s \in BOOLEAN, NEW n, Sentinel(n), DirInv(m, s, n), NEW k \in Tasks,
         Directory(m, s, n)!notFound(k)
  PROVE  DirInv(m, s, n)'
<1>1. /\ at[k] = "store" /\ Directory(m, s, n)!Leave(k)
      /\ UNCHANGED <<users, byHandle, sessions, codes, totp, next, minted, removed, stale>>
  BY DEF Directory!notFound, Directory!credentials
<1>2. m => stale' = {}  BY <1>1 DEF DirInv, IndexKept
<1>3. at[k] \notin Cascade  BY <1>1 DEF Cascade
<1>. QED  BY <1>1, <1>2, <1>3, DirReturns

\* The memory adapter changes one user: who was gone or closed stays so, the index names its
\* users, and whoever is removed is left to the cascade.
LEMMA MemoryStores ==
  ASSUME NEW s \in BOOLEAN, NEW n, Sentinel(n), DirInv(TRUE, s, n), NEW k \in Tasks, at[k] = "store",
         users' \in [1 .. n -> User \cup {None}], byHandle' \in [Names -> (1 .. n) \cup {None}],
         minted' \in 0 .. n, minted <= minted',
         UNCHANGED <<sessions, codes, totp, next, removed, stale>>,
         at' \in [Tasks -> {"idle", "lookup", "store", "write", "answer"} \cup Cascade],
         op' = [j \in Tasks |-> op'[j]],
         \A j \in Tasks : j # k => at'[j] = at[j] /\ op'[j] = op[j],
         \/ at'[k] = "idle"
         \/ /\ at'[k] = "sessions" /\ CallTyped(n, "sessions", op'[k], minted')
            /\ users'[op'[k].id] = None /\ op'[k].closed = op[k].closed,
         s => GateHeld',
         \A i \in 1 .. minted : (users[i] = None => users'[i] = None) /\ (IsClosed(i) => IsClosed(i)'),
         \A i \in 1 .. n : users'[i] # None => i \in 1 .. minted',
         \A h \in Names : byHandle'[h] # None =>
           byHandle'[h] \in 1 .. minted'
             /\ (users'[byHandle'[h]] # None => users'[byHandle'[h]].handle.name = h),
         s => \A i \in 1 .. n : users'[i] # None => byHandle'[users'[i].handle.name] = i,
         s => \A i \in Living : users'[i] # None \/ (at'[k] = "sessions" /\ op'[k].id = i),
         s => \A h \in Names, i \in Living :
                totp[h] = i /\ users[i].handle.name = h => SecretIn(i, h)'
  PROVE  DirInv(TRUE, s, n)'
<1>. USE DEF DirInv
<1>0. /\ 1 .. minted \subseteq 1 .. minted' /\ 1 .. minted \subseteq 1 .. n
      /\ DOMAIN users = 1 .. n /\ DOMAIN users' = 1 .. n
      /\ totp' = totp /\ sessions' = sessions /\ codes' = codes /\ removed' = removed
      /\ next' = next /\ stale' = stale
  BY DEF DirTyped, Sentinel
<1>1. DirTyped(n)'
  <2>1. ASSUME NEW j \in Tasks, at'[j] # "idle"  PROVE CallTyped(n, at'[j], op'[j], minted')
    <3>1. CASE j = k  BY <2>1, <3>1
    <3>2. CASE j # k
      <4>1. CallTyped(n, at[j], op[j], minted)  BY <2>1, <3>2 DEF DirTyped
      <4>. QED  BY <1>0, <3>2, <4>1 DEF CallTyped
    <3>. QED  BY <3>1, <3>2
  <2>2. (Living \subseteq 1 .. minted)'  BY <1>0 DEF Living
  <2>3. next' \in [Tasks -> [1 .. n -> User \cup {None}]] /\ totp' \in [Names -> (1 .. n) \cup {None}]
    BY <1>0 DEF DirTyped
  <2>. QED  BY <2>1, <2>2, <2>3 DEF DirTyped
<1>2. IndexKept'
  <2>1. removed' \subseteq 1 .. minted' /\ \A i \in removed' : users'[i] = None
    BY <1>0 DEF IndexKept
  <2>2. ASSUME NEW j \in Tasks, at'[j] \in Cascade  PROVE users'[op'[j].id] = None
    <3>1. CASE j = k  BY <2>2, <3>1 DEF Cascade
    <3>2. CASE j # k
      <4>1. op[j].id \in 1 .. minted /\ users[op[j].id] = None
        BY <2>2, <3>2 DEF IndexKept, DirTyped, CallTyped, Cascade
      <4>. QED  BY <3>2, <4>1
    <3>. QED  BY <3>1, <3>2
  <2>3. ASSUME NEW j \in Tasks, at'[j] # "idle", NEW i \in op'[j].closed  PROVE IsClosed(i)'
    <3>1. at[j] # "idle" /\ op'[j].closed = op[j].closed  BY <2>3
    <3>2. i \in 1 .. minted /\ IsClosed(i)  BY <2>3, <3>1 DEF IndexKept, DirTyped, CallTyped
    <3>. QED  BY <3>2
  <2>4. \A j \in Tasks : at'[j] = "answer" => op'[j].id \notin op'[j].closed  BY DEF IndexKept
  <2>5. \A j \in Tasks : at'[j] # "write"  BY DEF IndexKept
  <2>6. stale' = {}  BY <1>0 DEF IndexKept
  <2>. QED  BY <2>1, <2>2, <2>3, <2>4, <2>5, <2>6 DEF IndexKept
<1>3. s => AllIndexed' /\ LeftBehind'
  <2>1. SUFFICES ASSUME s  PROVE AllIndexed' /\ LeftBehind'  OBVIOUS
  <2>2. \A j \in Tasks : j # k => at[j] = "idle"  BY <2>1, GateAlone
  <2>3. \A j \in Tasks : ~Naming(j)' /\ ~Renaming(j)'  BY <2>2 DEF Naming, Renaming
  <2>4. AllIndexed'  BY <1>0, <2>1, <2>3 DEF AllIndexed, Living
  <2>5. \A i \in Living : i \in Living' \/ Removing(i, {"sessions"})'
    BY <1>0, <2>1 DEF Living, Removing
  <2>6. \A i : Removing(i, {"sessions"})' => Removing(i, Cascade)'  BY DEF Removing, Cascade
  <2>7. \A i : ~Removing(i, {"sessions"}) /\ ~Removing(i, Cascade)
    BY <2>2 DEF Removing, Cascade
  <2>8. \A h \in Names : totp[h] # None => totp[h] \in Living /\ users[totp[h]].handle.name = h
    BY <2>1, <2>2 DEF LeftBehind, SecretIn
  <2>9. \A h \in Names : totp[h] # None => SecretIn(totp[h], h)'  BY <2>1, <2>8
  <2>10. \A i \in sessions' : i \in Living' \/ Removing(i, {"sessions"})'
    BY <1>0, <2>1, <2>5, <2>7 DEF LeftBehind
  <2>11. \A i \in codes' : i \in Living' \/ Removing(i, Cascade)'
    BY <1>0, <2>1, <2>5, <2>6, <2>7 DEF LeftBehind
  <2>12. (\A h \in Names : totp[h] # None => SecretIn(totp[h], h))'  BY <1>0, <2>9
  <2>. QED  BY <2>3, <2>4, <2>10, <2>11, <2>12 DEF LeftBehind
<1>. QED  BY <1>1, <1>2, <1>3

\* What a call that stores carries, and how it returns unless it goes on to a cascade.
LEMMA StoreFacts ==
  ASSUME NEW m \in BOOLEAN, NEW s \in BOOLEAN, NEW n, Sentinel(n), DirInv(m, s, n), NEW k \in Tasks,
         at[k] = "store", ~Directory(m, s, n)!Gone(op[k], users), Directory(m, s, n)!Mint(op[k])
  PROVE  /\ op[k] \in DirCalls(n) /\ CallTyped(n, "store", op[k], minted)
         /\ op[k].kind \in {"add", "remove", "rename", "suspend"}
         /\ op[k].kind # "add" => /\ op[k].id \in 1 .. minted /\ op[k].id \in 1 .. n
                                  /\ users[op[k].id] # None /\ users[op[k].id] \in User
                                  /\ op[k].id \in Living /\ minted' = minted
         /\ op[k].kind = "add" => /\ minted' = minted + 1 /\ minted + 1 \in 1 .. n
                                  /\ minted + 1 \notin Living
         /\ minted' \in 0 .. n /\ minted <= minted' /\ 1 .. minted \subseteq 1 .. minted'
         /\ 1 .. minted' \subseteq 1 .. n
<1>. USE DEF DirInv
<1>1. CallTyped(n, "store", op[k], minted)  BY DEF DirTyped
<1>2. op[k] \in DirCalls(n) /\ op[k].kind \in {"add", "remove", "rename", "suspend"}
  BY <1>1 DEF CallTyped, DirCalls
<1>3. minted \in 0 .. n /\ n \in Nat  BY DEF DirTyped, Sentinel
<1>4. ASSUME op[k].kind # "add"
      PROVE  /\ op[k].id \in 1 .. minted /\ op[k].id \in 1 .. n
             /\ users[op[k].id] # None /\ users[op[k].id] \in User
             /\ op[k].id \in Living /\ minted' = minted
  <2>1. op[k].id \in 1 .. minted /\ op[k].id \in 1 .. n  BY <1>1, <1>3, <1>4 DEF CallTyped
  <2>2. users[op[k].id] # None /\ minted' = minted
    BY <1>4 DEF Directory!Gone, Directory!Mint
  <2>. QED  BY <2>1, <2>2 DEF DirTyped, Living
<1>5. ASSUME op[k].kind = "add"
      PROVE  minted' = minted + 1 /\ minted + 1 \in 1 .. n /\ minted + 1 \notin Living
  <2>1. minted' = minted + 1 /\ minted < n  BY <1>5 DEF Directory!Mint
  <2>2. Living \subseteq 1 .. minted  BY DEF DirTyped
  <2>. QED  BY <1>3, <2>1, <2>2
<1>6. minted' \in 0 .. n /\ minted <= minted' /\ 1 .. minted \subseteq 1 .. minted'
        /\ 1 .. minted' \subseteq 1 .. n
  BY <1>3, <1>4, <1>5
<1>. QED  BY <1>1, <1>2, <1>4, <1>5, <1>6

\* The memory adapter makes a user.
LEMMA MemoryAdds ==
  ASSUME NEW s \in BOOLEAN, NEW n, Sentinel(n), DirInv(TRUE, s, n), NEW k \in Tasks,
         Directory(TRUE, s, n)!storeInMemory(k), op[k].kind = "add"
  PROVE  DirInv(TRUE, s, n)'
<1>. USE DEF DirInv
<1>1. /\ at[k] = "store" /\ ~Directory(TRUE, s, n)!Gone(op[k], users) /\ Directory(TRUE, s, n)!Mint(op[k])
      /\ users' = Directory(TRUE, s, n)!Changed(op[k], users, minted + 1)
      /\ byHandle' = Directory(TRUE, s, n)!Indexed(op[k], minted + 1)
      /\ Directory(TRUE, s, n)!Leave(k)
      /\ UNCHANGED <<sessions, codes, totp, next, removed, stale>>
  BY DEF Directory!storeInMemory, Directory!credentials
<1>2. /\ minted' = minted + 1 /\ minted + 1 \in 1 .. n /\ minted + 1 \notin Living
      /\ minted' \in 0 .. n /\ minted <= minted' /\ op[k] \in DirCalls(n)
      /\ 1 .. minted \subseteq 1 .. minted' /\ 1 .. minted' \subseteq 1 .. n
  BY <1>1, StoreFacts
<1>3. PICK new : new = minted + 1 /\ new \in 1 .. n /\ new \in 1 .. minted' /\ new \notin 1 .. minted
  BY <1>2 DEF DirTyped, Sentinel
<1>4. PICK h \in Spellings : h = op[k].handle /\ h.name \in Names  BY <1>2 DEF DirCalls, Names
<1>5. PICK v \in User : v = [handle |-> h, active |-> TRUE] /\ v.handle = h
  <2>1. [handle |-> h, active |-> TRUE] \in User  BY DEF User
  <2>. QED  BY <2>1
<1>6. users' = [users EXCEPT ![new] = v] /\ byHandle' = [byHandle EXCEPT ![h.name] = new]
  BY <1>1, <1>3, <1>4, <1>5 DEF Directory!Changed, Directory!Indexed
<1>7. users'[new] = v /\ \A i \in 1 .. n : i # new => users'[i] = users[i]
  BY <1>3, <1>6 DEF DirTyped
<1>8. byHandle'[h.name] = new /\ \A g \in Names : g # h.name => byHandle'[g] = byHandle[g]
  BY <1>4, <1>6 DEF DirTyped
<1>9. users' \in [1 .. n -> User \cup {None}] /\ byHandle' \in [Names -> (1 .. n) \cup {None}]
  BY <1>3, <1>4, <1>6 DEF DirTyped
<1>10. /\ at'[k] = "idle" /\ \A j \in Tasks : j # k => at'[j] = at[j] /\ op'[j] = op[j]
       /\ at' \in [Tasks -> {"idle", "lookup", "store", "write", "answer"} \cup Cascade]
       /\ op' = [j \in Tasks |-> op'[j]] /\ (s => GateHeld')
  BY <1>1, <1>2, DirLeaves
<1>11. \A i \in 1 .. minted :
         i # new /\ (users[i] = None => users'[i] = None) /\ (IsClosed(i) => IsClosed(i)')
  BY <1>2, <1>3, <1>7 DEF IsClosed
<1>12. \A i \in 1 .. n : users'[i] # None => i \in 1 .. minted'
  BY <1>2, <1>3, <1>7 DEF DirTyped, Living
<1>13. ASSUME NEW g \in Names, byHandle'[g] # None
       PROVE  byHandle'[g] \in 1 .. minted'
                /\ (users'[byHandle'[g]] # None => users'[byHandle'[g]].handle.name = g)
  <2>1. CASE g = h.name  BY <1>3, <1>5, <1>7, <1>8, <2>1
  <2>2. CASE g # h.name
    <3>1. byHandle'[g] = byHandle[g] /\ byHandle[g] \in 1 .. minted
      BY <1>8, <1>13, <2>2 DEF DirTyped
    <3>2. byHandle[g] # new /\ byHandle[g] \in 1 .. n  BY <1>2, <1>3, <3>1
    <3>. QED  BY <1>2, <1>7, <1>13, <3>1, <3>2 DEF IndexKept
  <2>. QED  BY <2>1, <2>2
<1>14. ASSUME s, NEW i \in 1 .. n, users'[i] # None  PROVE byHandle'[users'[i].handle.name] = i
  <2>1. CASE i = new  BY <1>5, <1>7, <1>8, <2>1
  <2>2. CASE i # new
    <3>1. users'[i] = users[i] /\ i \in Living  BY <1>7, <1>14, <2>2 DEF DirTyped, Living
    <3>2. users[i] \in User /\ users[i].handle.name \in Names
      BY <3>1 DEF DirTyped, Living, User, Names
    <3>3. users[i].handle.name # h.name
      BY <1>1, <1>4, <1>14, <3>1 DEF AllIndexed, Naming, NameFree
    <3>. QED  BY <1>8, <1>14, <3>1, <3>2, <3>3 DEF AllIndexed
  <2>. QED  BY <2>1, <2>2
<1>15. \A i \in Living : i # new /\ i \in 1 .. n /\ users'[i] = users[i] /\ users'[i] # None
  BY <1>2, <1>3, <1>7 DEF Living, DirTyped
<1>16. \A i \in Living : i \in Living'  BY <1>15, <1>9 DEF Living
<1>17. \A g \in Names, i \in Living : users[i].handle.name = g => SecretIn(i, g)'
  BY <1>15, <1>16 DEF SecretIn
<1>18. at[k] = "store" /\ UNCHANGED <<sessions, codes, totp, next, removed, stale>>  BY <1>1
<1>19. \A i \in 1 .. minted : (users[i] = None => users'[i] = None) /\ (IsClosed(i) => IsClosed(i)')
  BY <1>11
<1>20. s => \A i \in 1 .. n : users'[i] # None => byHandle'[users'[i].handle.name] = i  BY <1>14
<1>21. \A i \in Living : users'[i] # None  BY <1>15
<1>. QED  BY <1>2, <1>9, <1>10, <1>12, <1>13, <1>17, <1>18, <1>19, <1>20, <1>21, MemoryStores

\* What the memory adapter makes of the user u under id that the call is about.
UserChange(n, k, id, u, v) ==
  /\ id = op[k].id /\ id \in 1 .. minted /\ id \in 1 .. n /\ users[id] = u /\ u # None
  /\ at[k] = "store" /\ minted' = minted /\ op[k] \in DirCalls(n)
  /\ UNCHANGED <<sessions, codes, totp, next, removed, stale>>
  /\ users' = [users EXCEPT ![id] = v]
  /\ op[k].kind \in {"remove", "rename", "suspend"}
  /\ op[k].kind = "remove" => v = None
  /\ op[k].kind # "remove" => v # None
  /\ op[k].kind = "rename" => v = [u EXCEPT !.handle = op[k].handle]
  /\ op[k].kind = "suspend" => v = [u EXCEPT !.active = FALSE]

\* A call that is not an addition makes one such change.
LEMMA MemoryChanges ==
  ASSUME NEW s \in BOOLEAN, NEW n, Sentinel(n), DirInv(TRUE, s, n), NEW k \in Tasks,
         Directory(TRUE, s, n)!storeInMemory(k), op[k].kind # "add"
  PROVE  \E id \in Living, u \in User, v \in User \cup {None} : UserChange(n, k, id, u, v)
<1>. USE DEF DirInv
<1>1. /\ at[k] = "store" /\ ~Directory(TRUE, s, n)!Gone(op[k], users) /\ Directory(TRUE, s, n)!Mint(op[k])
      /\ users' = Directory(TRUE, s, n)!Changed(op[k], users, minted + 1)
      /\ UNCHANGED <<sessions, codes, totp, next, removed, stale>>
  BY DEF Directory!storeInMemory, Directory!credentials
<1>2. /\ op[k] \in DirCalls(n) /\ op[k].kind \in {"add", "remove", "rename", "suspend"}
      /\ op[k].id \in 1 .. minted /\ op[k].id \in 1 .. n /\ users[op[k].id] # None
      /\ users[op[k].id] \in User /\ op[k].id \in Living /\ minted' = minted
  BY <1>1, StoreFacts
<1>3. PICK id \in Living : id = op[k].id /\ id \in 1 .. minted /\ id \in 1 .. n  BY <1>2
<1>4. PICK u \in User : users[id] = u /\ u # None  BY <1>2, <1>3
<1>5. op[k].handle \in Spellings /\ None \notin User  BY <1>2 DEF DirCalls, Sentinel
<1>6. /\ op[k].kind = "remove" => users' = [users EXCEPT ![id] = None]
      /\ op[k].kind = "rename" => users' = [users EXCEPT ![id] = [u EXCEPT !.handle = op[k].handle]]
      /\ op[k].kind = "suspend" => users' = [users EXCEPT ![id] = [u EXCEPT !.active = FALSE]]
  BY <1>1, <1>2, <1>3, <1>4 DEF Directory!Changed
<1>7. [u EXCEPT !.handle = op[k].handle] \in User /\ [u EXCEPT !.active = FALSE] \in User
  BY <1>5 DEF User
<1>8. PICK v \in User \cup {None} :
        /\ users' = [users EXCEPT ![id] = v]
        /\ op[k].kind = "remove" => v = None
        /\ op[k].kind # "remove" => v # None
        /\ op[k].kind = "rename" => v = [u EXCEPT !.handle = op[k].handle]
        /\ op[k].kind = "suspend" => v = [u EXCEPT !.active = FALSE]
  <2>1. CASE op[k].kind = "remove"  BY <1>6, <2>1
  <2>2. CASE op[k].kind = "rename"  BY <1>5, <1>6, <1>7, <2>2
  <2>3. CASE op[k].kind = "suspend"  BY <1>5, <1>6, <1>7, <2>3
  <2>. QED  BY <1>2, <2>1, <2>2, <2>3
<1>9. op[k].kind \in {"remove", "rename", "suspend"}  BY <1>2
<1>10. UserChange(n, k, id, u, v)  BY <1>1, <1>2, <1>3, <1>4, <1>8, <1>9 DEF UserChange
<1>. QED  BY <1>10

\* The memory adapter renames a user, or suspends one: it stays indexed.
LEMMA MemoryUpdates ==
  ASSUME NEW s \in BOOLEAN, NEW n, Sentinel(n), DirInv(TRUE, s, n), NEW k \in Tasks,
         Directory(TRUE, s, n)!storeInMemory(k), op[k].kind \notin {"add", "remove"}
  PROVE  DirInv(TRUE, s, n)'
<1>. USE DEF DirInv
<1>0. op[k].kind # "add" /\ op[k].kind # "remove"  OBVIOUS
<1>24. PICK id \in Living, u \in User, v \in User \cup {None} : UserChange(n, k, id, u, v)
  BY <1>0, MemoryChanges
<1>1. /\ id = op[k].id /\ id \in 1 .. minted /\ id \in 1 .. n /\ users[id] = u /\ u # None
      /\ at[k] = "store" /\ minted' = minted /\ op[k] \in DirCalls(n)
      /\ UNCHANGED <<sessions, codes, totp, next, removed, stale>>
      /\ users' = [users EXCEPT ![id] = v]
      /\ op[k].kind \in {"rename", "suspend"} /\ v # None /\ v \in User
      /\ op[k].kind = "rename" => v = [u EXCEPT !.handle = op[k].handle]
      /\ op[k].kind = "suspend" => v = [u EXCEPT !.active = FALSE]
  BY <1>0, <1>24 DEF UserChange
<1>25. Directory(TRUE, s, n)!Leave(k) /\ byHandle' = Directory(TRUE, s, n)!Indexed(op[k], minted + 1)
  BY <1>0 DEF Directory!storeInMemory
<1>2. PICK h \in Spellings : h = op[k].handle /\ h.name \in Names  BY <1>1 DEF DirCalls, Names
<1>3. PICK g \in Names : g = u.handle.name /\ u.handle \in Spellings  BY DEF User, Names
<1>4. /\ op[k].kind = "rename" => v.handle = h /\ v.active = u.active
      /\ op[k].kind = "suspend" => v.handle = u.handle /\ v.active = FALSE
  BY <1>1, <1>2 DEF User
<1>5. users'[id] = v /\ \A i \in 1 .. n : i # id => users'[i] = users[i]  BY <1>1 DEF DirTyped
<1>6. minted \in 0 .. n /\ n \in Nat  BY DEF DirTyped, Sentinel
<1>7. /\ op[k].kind = "suspend" => byHandle' = byHandle
      /\ op[k].kind = "rename" => byHandle' = [[byHandle EXCEPT ![g] = None] EXCEPT ![h.name] = id]
  BY <1>1, <1>2, <1>3, <1>25 DEF Directory!Indexed
<1>8. /\ op[k].kind = "rename" =>
           /\ byHandle'[h.name] = id /\ (g # h.name => byHandle'[g] = None)
           /\ \A f \in Names : f \notin {g, h.name} => byHandle'[f] = byHandle[f]
      /\ byHandle' \in [Names -> (1 .. n) \cup {None}]
  BY <1>1, <1>2, <1>7 DEF DirTyped
<1>9. users' \in [1 .. n -> User \cup {None}]  BY <1>1 DEF DirTyped
<1>10. minted' \in 0 .. n /\ minted <= minted'  BY <1>1, <1>6
<1>11. /\ at'[k] = "idle" /\ \A j \in Tasks : j # k => at'[j] = at[j] /\ op'[j] = op[j]
       /\ at' \in [Tasks -> {"idle", "lookup", "store", "write", "answer"} \cup Cascade]
       /\ op' = [j \in Tasks |-> op'[j]] /\ (s => GateHeld')
  BY <1>10, <1>25, DirLeaves
<1>12. \A i \in 1 .. minted : (users[i] = None => users'[i] = None) /\ (IsClosed(i) => IsClosed(i)')
  <2>1. \A i \in 1 .. minted : i \in 1 .. n  BY <1>6
  <2>. QED  BY <1>1, <1>4, <1>5, <2>1 DEF IsClosed
<1>13. \A i \in 1 .. n : users'[i] # None <=> users[i] # None  BY <1>1, <1>5
<1>14. \A i \in 1 .. n : users'[i] # None => i \in 1 .. minted'
  BY <1>1, <1>13 DEF DirTyped, Living
<1>15. ASSUME NEW f \in Names, byHandle'[f] # None
       PROVE  byHandle'[f] \in 1 .. minted'
                /\ (users'[byHandle'[f]] # None => users'[byHandle'[f]].handle.name = f)
  <2>1. ASSUME byHandle'[f] = byHandle[f]
        PROVE  /\ byHandle[f] \in 1 .. minted /\ byHandle[f] \in 1 .. n
               /\ users'[byHandle[f]] # None => users[byHandle[f]].handle.name = f
    <3>1. byHandle[f] \in 1 .. minted /\ byHandle[f] \in 1 .. n  BY <1>6, <1>15, <2>1 DEF DirTyped
    <3>. QED  BY <1>13, <1>15, <2>1, <3>1 DEF IndexKept
  <2>2. CASE op[k].kind = "suspend"
    <3>1. byHandle'[f] = byHandle[f]  BY <1>7, <2>2
    <3>2. \A i \in 1 .. n : users'[i] # None => users'[i].handle = users[i].handle
      BY <1>1, <1>4, <1>5, <2>2
    <3>. QED  BY <1>1, <2>1, <3>1, <3>2
  <2>3. CASE op[k].kind = "rename"
    <3>1. CASE f = h.name
      <4>1. byHandle'[f] = id  BY <1>8, <2>3, <3>1
      <4>2. users'[id].handle.name = f  BY <1>4, <1>5, <2>3, <3>1
      <4>. QED  BY <1>1, <4>1, <4>2
    <3>2. CASE f # h.name
      <4>1. f # g /\ byHandle'[f] = byHandle[f]  BY <1>8, <1>15, <2>3, <3>2
      <4>2. byHandle[f] # id
        BY <1>1, <1>3, <1>15, <4>1 DEF IndexKept
      <4>. QED  BY <1>1, <1>5, <1>13, <2>1, <4>1, <4>2
    <3>. QED  BY <3>1, <3>2
  <2>. QED  BY <1>1, <2>2, <2>3
<1>16. \A i \in Living : i \in 1 .. n /\ users[i] \in User /\ users'[i] # None
  BY <1>13 DEF Living, DirTyped
<1>17. ASSUME s, NEW i \in 1 .. n, users'[i] # None  PROVE byHandle'[users'[i].handle.name] = i
  <2>1. i \in Living /\ users[i].handle.name \in Names /\ byHandle[users[i].handle.name] = i
    <3>1. i \in Living  BY <1>13, <1>17 DEF Living, DirTyped
    <3>2. users[i].handle.name \in Names  BY <1>16, <3>1 DEF User, Names
    <3>. QED  BY <1>17, <3>1, <3>2 DEF AllIndexed
  <2>2. CASE op[k].kind = "suspend"
    <3>1. users'[i].handle = users[i].handle  BY <1>1, <1>4, <1>5, <2>2
    <3>. QED  BY <1>7, <2>1, <2>2, <3>1
  <2>3. CASE op[k].kind = "rename"
    <3>1. CASE i = id  BY <1>4, <1>5, <1>8, <2>3, <3>1
    <3>2. CASE i # id
      <4>1. users'[i] = users[i]  BY <1>5, <3>2
      <4>2. users[i].handle.name # h.name
        BY <1>1, <1>2, <1>17, <2>1, <2>3, <3>2 DEF AllIndexed, Naming, NameFree
      <4>3. users[i].handle.name # g
        <5>1. byHandle[g] = id  BY <1>1, <1>3, <1>17 DEF AllIndexed
        <5>. QED  BY <2>1, <3>2, <5>1
      <4>. QED  BY <1>8, <2>1, <2>3, <4>1, <4>2, <4>3
    <3>. QED  BY <3>1, <3>2
  <2>. QED  BY <1>1, <2>2, <2>3
<1>18. ASSUME s, NEW f \in Names, NEW i \in Living, totp[f] = i, users[i].handle.name = f
       PROVE  SecretIn(i, f)'
  <2>1. i \in 1 .. n /\ i \in Living'  BY <1>9, <1>16 DEF Living
  <2>2. users'[i].handle = users[i].handle
    <3>1. CASE op[k].kind = "suspend"  BY <1>1, <1>4, <1>5, <2>1, <3>1
    <3>2. CASE op[k].kind = "rename"
      <4>1. i # id  BY <1>1, <1>18, <3>2 DEF LeftBehind, Renaming
      <4>. QED  BY <1>5, <2>1, <4>1
    <3>. QED  BY <1>1, <3>1, <3>2
  <2>. QED  BY <1>18, <2>1, <2>2 DEF SecretIn
<1>19. at[k] = "store" /\ UNCHANGED <<sessions, codes, totp, next, removed, stale>>  BY <1>1
<1>20. s => \A i \in 1 .. n : users'[i] # None => byHandle'[users'[i].handle.name] = i  BY <1>17
<1>21. \A i \in Living : users'[i] # None  BY <1>16
<1>. QED  BY <1>8, <1>9, <1>10, <1>11, <1>12, <1>14, <1>15, <1>18, <1>19, <1>20, <1>21, MemoryStores

\* The memory adapter deletes a user: the index forgets it, and the cascade goes on with the
\* handle it had.
LEMMA MemoryRemoves ==
  ASSUME NEW s \in BOOLEAN, NEW n, Sentinel(n), DirInv(TRUE, s, n), NEW k \in Tasks,
         Directory(TRUE, s, n)!storeInMemory(k), op[k].kind = "remove"
  PROVE  DirInv(TRUE, s, n)'
<1>. USE DEF DirInv
<1>0. op[k].kind # "add"  OBVIOUS
<1>26. PICK id \in Living, u \in User, v \in User \cup {None} : UserChange(n, k, id, u, v)
  BY <1>0, MemoryChanges
<1>1. /\ id = op[k].id /\ id \in 1 .. minted /\ id \in 1 .. n /\ users[id] = u /\ u # None
      /\ at[k] = "store" /\ minted' = minted /\ op[k] \in DirCalls(n)
      /\ UNCHANGED <<sessions, codes, totp, next, removed, stale>>
      /\ users' = [users EXCEPT ![id] = None]
  BY <1>26 DEF UserChange
<1>27. byHandle' = Directory(TRUE, s, n)!Indexed(op[k], minted + 1)  BY DEF Directory!storeInMemory
<1>2. /\ at' = [at EXCEPT ![k] = "sessions"] /\ gate' = gate
      /\ op' = [op EXCEPT ![k].handle = users[op[k].id].handle]
  BY DEF Directory!storeInMemory
<1>3. PICK g \in Names : g = u.handle.name /\ u.handle \in Spellings  BY DEF User, Names
<1>4. PICK c : c = [op[k] EXCEPT !.handle = u.handle]  OBVIOUS
<1>5. op' = [op EXCEPT ![k] = c]  BY <1>1, <1>2, <1>4
<1>6. c \in DirCalls(n) /\ c.handle = u.handle /\ c.id = id /\ c.closed = op[k].closed
  BY <1>1, <1>3, <1>4 DEF DirCalls
<1>7. users'[id] = None /\ \A i \in 1 .. n : i # id => users'[i] = users[i]  BY <1>1 DEF DirTyped
<1>8. minted \in 0 .. n /\ n \in Nat  BY DEF DirTyped, Sentinel
<1>9. byHandle' = [byHandle EXCEPT ![g] = None]
  BY <1>1, <1>3, <1>27 DEF Directory!Indexed
<1>10. /\ byHandle'[g] = None /\ \A f \in Names : f # g => byHandle'[f] = byHandle[f]
       /\ byHandle' \in [Names -> (1 .. n) \cup {None}] /\ users' \in [1 .. n -> User \cup {None}]
  BY <1>1, <1>9 DEF DirTyped
<1>11. minted' \in 0 .. n /\ minted <= minted'  BY <1>1, <1>8
<1>12. /\ at'[k] = "sessions" /\ op'[k] = c
       /\ \A j \in Tasks : j # k => at'[j] = at[j] /\ op'[j] = op[j]
  BY <1>2, <1>5 DEF DirTyped
<1>13. /\ at' \in [Tasks -> {"idle", "lookup", "store", "write", "answer"} \cup Cascade]
       /\ op' = [j \in Tasks |-> op'[j]]
  BY <1>2, <1>5 DEF DirTyped, Cascade
<1>14. s => GateHeld'
  <2>1. \A j \in Tasks : at'[j] # "idle" => at[j] # "idle"  BY <1>1, <1>12
  <2>. QED  BY <1>2, <2>1 DEF GateHeld
<1>15. CallTyped(n, "sessions", op'[k], minted')
  <2>1. c.closed \subseteq 1 .. minted  BY <1>1, <1>6 DEF DirTyped, CallTyped
  <2>. QED  BY <1>1, <1>6, <1>12, <2>1 DEF CallTyped
<1>16. users'[op'[k].id] = None /\ op'[k].closed = op[k].closed  BY <1>6, <1>7, <1>12
<1>17. \A i \in 1 .. minted : (users[i] = None => users'[i] = None) /\ (IsClosed(i) => IsClosed(i)')
  <2>1. \A i \in 1 .. minted : i \in 1 .. n  BY <1>8
  <2>. QED  BY <1>7, <2>1 DEF IsClosed
<1>18. \A i \in 1 .. n : users'[i] # None => i # id /\ users'[i] = users[i] /\ i \in 1 .. minted'
  BY <1>1, <1>7 DEF DirTyped, Living
<1>19. ASSUME NEW f \in Names, byHandle'[f] # None
       PROVE  byHandle'[f] \in 1 .. minted'
                /\ (users'[byHandle'[f]] # None => users'[byHandle'[f]].handle.name = f)
  <2>1. byHandle'[f] = byHandle[f] /\ byHandle[f] \in 1 .. minted  BY <1>10, <1>19 DEF DirTyped
  <2>2. byHandle[f] \in 1 .. n /\ byHandle[f] # None  BY <1>8, <1>19, <2>1
  <2>3. users'[byHandle[f]] # None => users'[byHandle[f]] = users[byHandle[f]]  BY <1>18, <2>2
  <2>4. users[byHandle[f]] # None => users[byHandle[f]].handle.name = f  BY <2>2 DEF IndexKept
  <2>. QED  BY <1>1, <2>1, <2>3, <2>4
<1>20. ASSUME s, NEW i \in 1 .. n, users'[i] # None  PROVE byHandle'[users'[i].handle.name] = i
  <2>1. i # id /\ users'[i] = users[i] /\ i \in Living  BY <1>18, <1>20 DEF Living, DirTyped
  <2>2. byHandle[users[i].handle.name] = i /\ byHandle[g] = id
    BY <1>1, <1>3, <1>20, <2>1 DEF AllIndexed
  <2>3. users[i].handle.name \in Names  BY <2>1 DEF DirTyped, Living, User, Names
  <2>. QED  BY <1>10, <2>1, <2>2, <2>3
<1>21. \A i \in Living : users'[i] # None \/ (at'[k] = "sessions" /\ op'[k].id = i)
  BY <1>6, <1>7, <1>12 DEF Living, DirTyped
<1>22. ASSUME s, NEW f \in Names, NEW i \in Living, totp[f] = i, users[i].handle.name = f
       PROVE  SecretIn(i, f)'
  <2>1. CASE i = id
    <3>1. at'[k] = "sessions" /\ op'[k].id = i /\ op'[k].handle.name = f
      BY <1>1, <1>6, <1>12, <1>22, <2>1
    <3>. QED  BY <3>1 DEF SecretIn
  <2>2. CASE i # id
    <3>1. i \in 1 .. n /\ users'[i] = users[i] /\ users[i] # None  BY <1>7, <2>2 DEF Living, DirTyped
    <3>2. i \in Living'  BY <1>10, <3>1 DEF Living
    <3>. QED  BY <1>22, <3>1, <3>2 DEF SecretIn
  <2>. QED  BY <2>1, <2>2
<1>23. at[k] = "store" /\ UNCHANGED <<sessions, codes, totp, next, removed, stale>>  BY <1>1
<1>24. s => \A i \in 1 .. n : users'[i] # None => byHandle'[users'[i].handle.name] = i  BY <1>20
<1>25. \A i \in 1 .. n : users'[i] # None => i \in 1 .. minted'  BY <1>18
<1>. QED  BY <1>10, <1>11, <1>12, <1>13, <1>14, <1>15, <1>16, <1>17, <1>19, <1>21, <1>22, <1>23,
          <1>24, <1>25, MemoryStores

\* The cascade of a deletion takes its next step: nobody is stored, and what it has dealt with
\* holds nothing of the removed user.
LEMMA CascadeMoves ==
  ASSUME NEW s \in BOOLEAN, NEW n, Sentinel(n), DirInv(TRUE, s, n), NEW k \in Tasks,
         at[k] \in Cascade, UNCHANGED <<users, byHandle, next, minted, stale>>,
         removed' \in {removed, removed \cup {op[k].id}}, totp' \in [Names -> (1 .. n) \cup {None}],
         at' \in [Tasks -> {"idle", "lookup", "store", "write", "answer"} \cup Cascade],
         op' = [j \in Tasks |-> op'[j]], at'[k] \in {"idle"} \cup Cascade,
         at'[k] # "idle" => op'[k] = op[k],
         \A j \in Tasks : j # k => at'[j] = at[j] /\ op'[j] = op[j],
         s => GateHeld' /\ LeftBehind'
  PROVE  DirInv(TRUE, s, n)'
<1>. USE DEF DirInv
<1>0. /\ users' = users /\ byHandle' = byHandle /\ minted' = minted /\ next' = next
      /\ stale' = stale
  OBVIOUS
<1>1. DirTyped(n)'
  <2>1. CallTyped(n, at[k], op[k], minted)  BY DEF DirTyped, Cascade
  <2>2. at'[k] # "idle" => CallTyped(n, at'[k], op'[k], minted')
    BY <1>0, <2>1 DEF CallTyped, Cascade
  <2>3. \A j \in Tasks : at'[j] # "idle" => CallTyped(n, at'[j], op'[j], minted')
    BY <1>0, <2>2 DEF DirTyped
  <2>. QED  BY <1>0, <2>3 DEF DirTyped, Living
<1>2. IndexKept'
  <2>1. op[k].id \in 1 .. minted /\ users[op[k].id] = None
    BY DEF IndexKept, DirTyped, CallTyped, Cascade
  <2>2. removed' \subseteq 1 .. minted' /\ \A i \in removed' : users'[i] = None
    BY <1>0, <2>1 DEF IndexKept
  <2>3. \A j \in Tasks : at'[j] \in Cascade => users'[op'[j].id] = None
    BY <1>0, <2>1 DEF IndexKept, Cascade
  <2>4. \A j \in Tasks : at'[j] # "idle" => at[j] # "idle" /\ op'[j] = op[j]
    BY DEF Cascade
  <2>5. \A j \in Tasks : at'[j] # "idle" => \A i \in op'[j].closed : IsClosed(i)'
    BY <1>0, <2>4 DEF IndexKept, IsClosed
  <2>6. \A j \in Tasks : at'[j] = "answer" => op'[j].id \notin op'[j].closed
    BY DEF IndexKept, Cascade
  <2>7. \A j \in Tasks : at'[j] # "write"  BY DEF IndexKept, Cascade
  <2>. QED  BY <1>0, <2>2, <2>3, <2>5, <2>6, <2>7 DEF IndexKept
<1>3. s => AllIndexed'
  <2>1. SUFFICES ASSUME s  PROVE AllIndexed'  OBVIOUS
  <2>2. \A j \in Tasks : Naming(j)' => Naming(j) /\ op'[j] = op[j]  BY DEF Naming, Cascade
  <2>. QED  BY <1>0, <2>1, <2>2 DEF AllIndexed, NameFree, Living
<1>. QED  BY <1>1, <1>2, <1>3

\* The sessions of the user are deleted.
LEMMA CascadeSessions ==
  ASSUME NEW s \in BOOLEAN, NEW n, Sentinel(n), DirInv(TRUE, s, n), NEW k \in Tasks,
         Directory(TRUE, s, n)!deleteUserSessions(k)
  PROVE  DirInv(TRUE, s, n)'
<1>. USE DEF DirInv
<1>1. /\ at[k] = "sessions" /\ at' = [at EXCEPT ![k] = "totp"] /\ sessions' = sessions \ {op[k].id}
      /\ UNCHANGED <<users, byHandle, codes, totp, op, next, gate, minted, removed, stale>>
  BY DEF Directory!deleteUserSessions
<1>2. at'[k] = "totp" /\ \A j \in Tasks : j # k => at'[j] = at[j]  BY <1>1 DEF DirTyped
<1>3. at' \in [Tasks -> {"idle", "lookup", "store", "write", "answer"} \cup Cascade]
  BY <1>1 DEF DirTyped, Cascade
<1>4. s => GateHeld'
  <2>1. \A j \in Tasks : at'[j] # "idle" => at[j] # "idle"  BY <1>1, <1>2
  <2>. QED  BY <1>1, <2>1 DEF GateHeld
<1>5. s => LeftBehind'
  <2>1. SUFFICES ASSUME s  PROVE LeftBehind'  OBVIOUS
  <2>2. \A j \in Tasks : j # k => at[j] = "idle"  BY <1>1, <2>1, GateAlone
  <2>3. Living' = Living /\ op' = op  BY <1>1 DEF Living
  <2>4. \A i : Removing(i, {"sessions"}) => i = op[k].id  BY <2>2 DEF Removing
  <2>5. \A i : Removing(i, Cascade) => Removing(i, Cascade)'  BY <1>1, <1>2 DEF Removing, Cascade
  <2>6. \A i, h : SecretIn(i, h) => SecretIn(i, h)'
    BY <1>1, <1>2, <2>3 DEF SecretIn
  <2>7. \A j \in Tasks : Renaming(j)' => Renaming(j)  BY <1>1, <1>2 DEF Renaming
  <2>8. \A i \in sessions' : i \in Living'  BY <1>1, <2>1, <2>3, <2>4 DEF LeftBehind
  <2>. QED  BY <1>1, <2>1, <2>3, <2>5, <2>6, <2>7, <2>8 DEF LeftBehind
<1>6. totp' \in [Names -> (1 .. n) \cup {None}] /\ op' = [j \in Tasks |-> op'[j]]
  BY <1>1 DEF DirTyped
<1>. QED  BY <1>1, <1>2, <1>3, <1>4, <1>5, <1>6, CascadeMoves DEF Cascade

\* The secret under the user's handle is deleted.
LEMMA CascadeSecret ==
  ASSUME NEW s \in BOOLEAN, NEW n, Sentinel(n), DirInv(TRUE, s, n), NEW k \in Tasks,
         Directory(TRUE, s, n)!deleteTOTPSecret(k)
  PROVE  DirInv(TRUE, s, n)'
<1>. USE DEF DirInv
<1>1. /\ at[k] = "totp" /\ at' = [at EXCEPT ![k] = "codes"]
      /\ totp' = [totp EXCEPT ![op[k].handle.name] = None]
      /\ UNCHANGED <<users, byHandle, sessions, codes, op, next, gate, minted, removed, stale>>
  BY DEF Directory!deleteTOTPSecret
<1>2. at'[k] = "codes" /\ \A j \in Tasks : j # k => at'[j] = at[j]  BY <1>1 DEF DirTyped
<1>3. at' \in [Tasks -> {"idle", "lookup", "store", "write", "answer"} \cup Cascade]
  BY <1>1 DEF DirTyped, Cascade
<1>4. s => GateHeld'
  <2>1. \A j \in Tasks : at'[j] # "idle" => at[j] # "idle"  BY <1>1, <1>2
  <2>. QED  BY <1>1, <2>1 DEF GateHeld
<1>5. \A h \in Names : totp'[h] = IF h = op[k].handle.name THEN None ELSE totp[h]
  BY <1>1 DEF DirTyped
<1>6. s => LeftBehind'
  <2>1. SUFFICES ASSUME s  PROVE LeftBehind'  OBVIOUS
  <2>2. \A j \in Tasks : j # k => at[j] = "idle"  BY <1>1, <2>1, GateAlone
  <2>3. Living' = Living /\ op' = op /\ users' = users  BY <1>1 DEF Living
  <2>4. \A i : ~Removing(i, {"sessions"})  BY <1>1, <2>2 DEF Removing
  <2>5. \A i : Removing(i, Cascade) => Removing(i, Cascade)'  BY <1>1, <1>2 DEF Removing, Cascade
  <2>6. ASSUME NEW h \in Names, totp'[h] # None
        PROVE  totp'[h] \in Living /\ users[totp'[h]].handle.name = h
    <3>1. h # op[k].handle.name /\ totp'[h] = totp[h]  BY <1>5, <2>6
    <3>2. SecretIn(totp[h], h)  BY <2>1, <2>6, <3>1 DEF LeftBehind
    <3>. QED  BY <1>1, <1>2, <2>2, <3>1, <3>2 DEF SecretIn
  <2>7. \A j \in Tasks : ~Renaming(j)'  BY <1>2, <2>2 DEF Renaming
  <2>8. \A i \in sessions' : i \in Living'  BY <1>1, <2>1, <2>3, <2>4 DEF LeftBehind
  <2>9. (\A h \in Names : totp[h] # None => SecretIn(totp[h], h))'
    BY <2>3, <2>6 DEF SecretIn
  <2>. QED  BY <1>1, <2>1, <2>3, <2>5, <2>7, <2>8, <2>9 DEF LeftBehind
<1>7. totp' \in [Names -> (1 .. n) \cup {None}] /\ op' = [j \in Tasks |-> op'[j]]
  BY <1>1 DEF DirTyped
<1>. QED  BY <1>1, <1>2, <1>3, <1>4, <1>6, <1>7, CascadeMoves DEF Cascade

\* The recovery codes of the user are deleted, and its removal is answered.
LEMMA CascadeCodes ==
  ASSUME NEW s \in BOOLEAN, NEW n, Sentinel(n), DirInv(TRUE, s, n), NEW k \in Tasks,
         Directory(TRUE, s, n)!deleteBackupCodes(k)
  PROVE  DirInv(TRUE, s, n)'
<1>. USE DEF DirInv
<1>1. /\ at[k] = "codes" /\ codes' = codes \ {op[k].id} /\ removed' = removed \cup {op[k].id}
      /\ Directory(TRUE, s, n)!Leave(k)
      /\ UNCHANGED <<users, byHandle, sessions, totp, next, minted, stale>>
  BY DEF Directory!deleteBackupCodes
<1>2. minted' \in 0 .. n /\ minted <= minted'  BY <1>1 DEF DirTyped, Sentinel
<1>3. /\ at'[k] = "idle" /\ \A j \in Tasks : j # k => at'[j] = at[j] /\ op'[j] = op[j]
      /\ at' \in [Tasks -> {"idle", "lookup", "store", "write", "answer"} \cup Cascade]
      /\ op' = [j \in Tasks |-> op'[j]] /\ (s => GateHeld')
  BY <1>1, <1>2, DirLeaves
<1>4. s => LeftBehind'
  <2>1. SUFFICES ASSUME s  PROVE LeftBehind'  OBVIOUS
  <2>2. \A j \in Tasks : j # k => at[j] = "idle"  BY <1>1, <2>1, GateAlone
  <2>3. Living' = Living /\ users' = users  BY <1>1 DEF Living
  <2>4. \A i : ~Removing(i, {"sessions"})  BY <1>1, <2>2 DEF Removing
  <2>5. \A i : Removing(i, Cascade) => i = op[k].id  BY <2>2 DEF Removing, Cascade
  <2>6. \A h \in Names : totp[h] # None => totp[h] \in Living /\ users[totp[h]].handle.name = h
    BY <1>1, <2>1, <2>2 DEF LeftBehind, SecretIn
  <2>7. \A j \in Tasks : ~Renaming(j)'  BY <1>3, <2>2 DEF Renaming
  <2>8. \A i \in sessions' : i \in Living'  BY <1>1, <2>1, <2>3, <2>4 DEF LeftBehind
  <2>9. \A i \in codes' : i \in Living'  BY <1>1, <2>1, <2>3, <2>5 DEF LeftBehind
  <2>10. (\A h \in Names : totp[h] # None => SecretIn(totp[h], h))'
    BY <1>1, <2>3, <2>6 DEF SecretIn
  <2>. QED  BY <2>7, <2>8, <2>9, <2>10 DEF LeftBehind
<1>5. totp' \in [Names -> (1 .. n) \cup {None}]  BY <1>1 DEF DirTyped
<1>6. at'[k] \in {"idle"} \cup Cascade /\ at[k] \in Cascade  BY <1>1, <1>3 DEF Cascade
<1>. QED  BY <1>1, <1>3, <1>4, <1>5, <1>6, CascadeMoves

\* A live user logs in or enrols while nobody holds the gate.
LEMMA DirProvisions ==
  ASSUME NEW m \in BOOLEAN, NEW s \in BOOLEAN, NEW n, Sentinel(n), DirInv(m, s, n),
         Directory(m, s, n)!Provision
  PROVE  DirInv(m, s, n)'
<1>. USE DEF DirInv
<1>1. /\ m /\ s /\ gate = None
      /\ UNCHANGED <<users, byHandle, at, op, next, gate, minted, removed, stale>>
  BY DEF Directory!Provision
<1>2. PICK i \in Living :
        \/ sessions' = sessions \cup {i} /\ UNCHANGED <<codes, totp>>
        \/ /\ totp' = [totp EXCEPT ![users[i].handle.name] = i] /\ codes' = codes \cup {i}
           /\ UNCHANGED sessions
  BY DEF Directory!Provision, Directory!Live, Directory!Ids, Living, DirTyped
<1>3. i \in 1 .. n /\ users[i] \in User /\ users[i].handle.name \in Names
  BY DEF Living, DirTyped, User, Names
<1>4. \A j \in Tasks : at[j] = "idle"  BY <1>1 DEF GateHeld, Sentinel
<1>5. totp' \in [Names -> (1 .. n) \cup {None}]  BY <1>2, <1>3 DEF DirTyped
<1>6. DirTyped(n)'
  <2>1. \A j \in Tasks : at'[j] = "idle"  BY <1>1, <1>4
  <2>. QED  BY <1>1, <1>5, <2>1 DEF DirTyped, Living
<1>7. IndexKept' /\ AllIndexed' /\ GateHeld'
  BY <1>1 DEF IndexKept, IsClosed, AllIndexed, GateHeld, Naming, NameFree, Living
<1>8. LeftBehind'
  <2>1. Living' = Living /\ users' = users /\ at' = at  BY <1>1 DEF Living
  <2>2. \A j \in Living : j \in Living'  BY <2>1
  <2>3. \A j : ~Removing(j, {"sessions"}) /\ ~Removing(j, Cascade)  BY <1>4 DEF Removing, Cascade
  <2>4. \A j \in sessions' : j \in Living'  BY <1>1, <1>2, <2>1, <2>3 DEF LeftBehind
  <2>5. \A j \in codes' : j \in Living'  BY <1>1, <1>2, <2>1, <2>3 DEF LeftBehind
  <2>6. ASSUME NEW h \in Names, totp'[h] # None
        PROVE  totp'[h] \in Living /\ users[totp'[h]].handle.name = h
    <3>1. CASE totp'[h] = totp[h]
      BY <1>1, <1>4, <2>6, <3>1 DEF LeftBehind, SecretIn
    <3>2. CASE totp'[h] # totp[h]
      <4>1. h = users[i].handle.name /\ totp'[h] = i  BY <1>2, <1>3, <3>2 DEF DirTyped
      <4>. QED  BY <4>1
    <3>. QED  BY <3>1, <3>2
  <2>7. (\A h \in Names : totp[h] # None => SecretIn(totp[h], h))'
    BY <2>1, <2>6 DEF SecretIn
  <2>8. \A j \in Tasks : ~Renaming(j)'  BY <1>4, <2>1 DEF Renaming
  <2>. QED  BY <2>4, <2>5, <2>7, <2>8 DEF LeftBehind
<1>. QED  BY <1>1, <1>6, <1>7, <1>8

\* The file adapter makes the change in the users it has read: spellings stay apart in them.
LEMMA FileChanges ==
  ASSUME NEW n, Sentinel(n), DirInv(FALSE, TRUE, n), NEW k \in Tasks,
         Directory(FALSE, TRUE, n)!readUsers(k)
  PROVE  \E d \in [1 .. n -> User \cup {None}] :
           /\ next' = [next EXCEPT ![k] = d] /\ Apart(d)
           /\ \A i \in 1 .. n : d[i] # None => i \in 1 .. minted'
<1>. USE DEF DirInv
<1>1. /\ at[k] = "store" /\ ~Directory(FALSE, TRUE, n)!Gone(op[k], users)
      /\ Directory(FALSE, TRUE, n)!Mint(op[k])
      /\ next' = [next EXCEPT ![k] = Directory(FALSE, TRUE, n)!Changed(op[k], users, minted + 1)]
  BY DEF Directory!readUsers
<1>2. PICK c : c = op[k]  OBVIOUS
<1>3. /\ c \in DirCalls(n) /\ c.kind \in {"add", "remove", "rename", "suspend"}
      /\ c.kind # "add" => /\ c.id \in 1 .. n /\ users[c.id] \in User
                           /\ c.id \in Living /\ minted' = minted
      /\ c.kind = "add" => /\ minted' = minted + 1 /\ minted + 1 \in 1 .. n
                           /\ minted + 1 \notin Living
      /\ 1 .. minted \subseteq 1 .. minted'
  BY <1>1, <1>2, StoreFacts
<1>4. /\ DOMAIN users = 1 .. n /\ users \in [1 .. n -> User \cup {None}] /\ None \notin User
      /\ Apart(users) /\ c.handle \in Spellings /\ minted \in Nat
      /\ \A i \in 1 .. n : users[i] # None => i \in Living /\ i \in 1 .. minted'
  BY <1>3 DEF DirTyped, Sentinel, SpelledApart, DirCalls, Living
<1>5. PICK d : d = Directory(FALSE, TRUE, n)!Changed(c, users, minted + 1)  OBVIOUS
<1>6. next' = [next EXCEPT ![k] = d]  BY <1>1, <1>2, <1>5
<1>7. \E i \in 1 .. minted', v \in User \cup {None} :
        /\ i \in 1 .. n /\ d = [users EXCEPT ![i] = v]
        /\ v # None => \A j \in Living : users[j].handle = v.handle => j = i
  <2>1. CASE c.kind = "add"
    <3>1. PICK v \in User : v = [handle |-> c.handle, active |-> TRUE]  BY <1>4 DEF User
    <3>2. d = [users EXCEPT ![minted + 1] = v]  BY <1>5, <2>1, <3>1 DEF Directory!Changed
    <3>3. \A j \in Living : users[j].handle # c.handle
      BY <1>1, <1>2, <2>1 DEF SpelledApart, Naming, SpellingFree
    <3>4. v.handle = c.handle /\ minted + 1 \in 1 .. minted'  BY <1>3, <1>4, <2>1, <3>1
    <3>5. \A j \in Living : users[j].handle = v.handle => j = minted + 1  BY <3>3, <3>4
    <3>6. minted + 1 \in 1 .. n  BY <1>3, <2>1
    <3>. QED  BY <3>2, <3>4, <3>5, <3>6
  <2>2. CASE c.kind = "remove"
    <3>1. d = [users EXCEPT ![c.id] = None]  BY <1>5, <2>2 DEF Directory!Changed
    <3>. QED  BY <1>3, <1>4, <2>2, <3>1
  <2>3. CASE c.kind = "rename"
    <3>1. PICK u \in User : u = users[c.id]  BY <1>3, <2>3
    <3>2. PICK v \in User : v = [u EXCEPT !.handle = c.handle]  BY <1>4 DEF User
    <3>3. d = [users EXCEPT ![c.id] = v]  BY <1>3, <1>5, <2>3, <3>1, <3>2 DEF Directory!Changed
    <3>4. \A j \in Living : users[j].handle = c.handle => j = c.id
      BY <1>1, <1>2, <2>3 DEF SpelledApart, Naming, SpellingFree
    <3>5. v.handle = c.handle  BY <3>2 DEF User
    <3>6. \A j \in Living : users[j].handle = v.handle => j = c.id  BY <3>4, <3>5
    <3>7. c.id \in 1 .. n /\ c.id \in 1 .. minted'  BY <1>3, <1>4, <2>3
    <3>. QED  BY <3>3, <3>6, <3>7
  <2>4. CASE c.kind = "suspend"
    <3>1. PICK u \in User : u = users[c.id]  BY <1>3, <2>4
    <3>2. PICK v \in User : v = [u EXCEPT !.active = FALSE]  BY DEF User
    <3>3. d = [users EXCEPT ![c.id] = v]  BY <1>3, <1>5, <2>4, <3>1, <3>2 DEF Directory!Changed
    <3>4. v.handle = users[c.id].handle  BY <3>1, <3>2 DEF User
    <3>5. \A j \in Living : users[j].handle = users[c.id].handle => j = c.id
      BY <1>3, <1>4, <2>4 DEF Apart, Living
    <3>6. \A j \in Living : users[j].handle = v.handle => j = c.id  BY <3>4, <3>5
    <3>7. c.id \in 1 .. n /\ c.id \in 1 .. minted'  BY <1>3, <1>4, <2>4
    <3>. QED  BY <3>3, <3>6, <3>7
  <2>. QED  BY <1>3, <2>1, <2>2, <2>3, <2>4
<1>8. PICK i \in 1 .. minted', v \in User \cup {None} :
        /\ i \in 1 .. n /\ d = [users EXCEPT ![i] = v]
        /\ v # None => \A j \in Living : users[j].handle = v.handle => j = i
  BY <1>7
<1>9. d \in [1 .. n -> User \cup {None}] /\ d[i] = v /\ DOMAIN d = 1 .. n
        /\ \A j \in 1 .. n : j # i => d[j] = users[j]
  BY <1>4, <1>8
<1>10. Apart(d)
  <2>1. SUFFICES ASSUME NEW a \in 1 .. n, NEW b \in 1 .. n,
                        d[a] # None, d[b] # None, d[a].handle = d[b].handle
                 PROVE  a = b
    BY <1>9 DEF Apart
  <2>2. CASE a # i /\ b # i  BY <1>4, <1>9, <2>1, <2>2 DEF Apart
  <2>3. CASE a = i /\ b # i  BY <1>4, <1>8, <1>9, <2>1, <2>3
  <2>4. CASE a # i /\ b = i  BY <1>4, <1>8, <1>9, <2>1, <2>4
  <2>. QED  BY <2>2, <2>3, <2>4
<1>11. \A j \in 1 .. n : d[j] # None => j \in 1 .. minted'  BY <1>4, <1>8, <1>9
<1>. QED  BY <1>6, <1>9, <1>10, <1>11

\* The file adapter has read the users and holds the change.
LEMMA FileReads ==
  ASSUME NEW n, Sentinel(n), DirInv(FALSE, TRUE, n), NEW k \in Tasks,
         Directory(FALSE, TRUE, n)!readUsers(k)
  PROVE  DirInv(FALSE, TRUE, n)'
<1>. USE DEF DirInv
<1>1. /\ at[k] = "store" /\ at' = [at EXCEPT ![k] = "write"] /\ op' = op /\ gate' = gate
      /\ UNCHANGED <<users, byHandle, sessions, codes, totp, removed, stale>>
      /\ ~Directory(FALSE, TRUE, n)!Gone(op[k], users) /\ Directory(FALSE, TRUE, n)!Mint(op[k])
  BY DEF Directory!readUsers, Directory!credentials
<1>2. PICK d \in [1 .. n -> User \cup {None}] :
        /\ next' = [next EXCEPT ![k] = d] /\ Apart(d)
        /\ \A i \in 1 .. n : d[i] # None => i \in 1 .. minted'
  BY FileChanges
<1>3. /\ CallTyped(n, "store", op[k], minted) /\ minted' \in 0 .. n
      /\ 1 .. minted \subseteq 1 .. minted'
  BY <1>1, StoreFacts
<1>4. at'[k] = "write" /\ \A j \in Tasks : j # k => at'[j] = at[j] /\ at[j] = "idle"
  BY <1>1, GateAlone DEF DirTyped
<1>5. next'[k] = d /\ next' \in [Tasks -> [1 .. n -> User \cup {None}]] /\ DOMAIN users = 1 .. n
  BY <1>2 DEF DirTyped
<1>6. DirTyped(n)'
  <2>1. CallTyped(n, "write", op[k], minted')  BY <1>3 DEF CallTyped, Cascade
  <2>2. \A j \in Tasks : at'[j] # "idle" => CallTyped(n, at'[j], op'[j], minted')
    BY <1>1, <1>4, <2>1
  <2>3. at' \in [Tasks -> {"idle", "lookup", "store", "write", "answer"} \cup Cascade]
    BY <1>1 DEF DirTyped
  <2>4. (Living \subseteq 1 .. minted)'  BY <1>1, <1>3 DEF DirTyped, Living
  <2>. QED  BY <1>1, <1>3, <1>5, <2>2, <2>3, <2>4 DEF DirTyped
<1>7. GateHeld'
  <2>1. \A j \in Tasks : at'[j] # "idle" => at[j] # "idle"  BY <1>1, <1>4
  <2>. QED  BY <1>1, <2>1 DEF GateHeld
<1>8. SpelledApart'
  <2>1. \A j \in Tasks : at'[j] = "write" => j = k  BY <1>4
  <2>2. (\A j \in Tasks : at[j] = "write" => Apart(next[j]))'  BY <1>2, <1>5, <2>1 DEF Apart
  <2>3. (\A j \in Tasks, i \in DOMAIN users : at[j] = "write" /\ next[j][i] # None => i \in 1 .. minted)'
    BY <1>1, <1>2, <1>5, <2>1
  <2>4. \A j \in Tasks : ~Naming(j)'  BY <1>4 DEF Naming
  <2>5. \A j \in Tasks : at'[j] \notin Cascade  BY <1>4 DEF Cascade
  <2>6. Apart(users)'  BY <1>1 DEF SpelledApart, Apart
  <2>. QED  BY <2>2, <2>3, <2>4, <2>5, <2>6 DEF SpelledApart
<1>. QED  BY <1>6, <1>7, <1>8

\* The file adapter writes them back.
LEMMA FileWrites ==
  ASSUME NEW n, Sentinel(n), DirInv(FALSE, TRUE, n), NEW k \in Tasks,
         Directory(FALSE, TRUE, n)!writeUsers(k)
  PROVE  DirInv(FALSE, TRUE, n)'
<1>. USE DEF DirInv
<1>1. /\ at[k] = "write" /\ users' = next[k] /\ Directory(FALSE, TRUE, n)!Leave(k)
      /\ UNCHANGED <<byHandle, sessions, codes, totp, minted, stale>>
      /\ next' = [next EXCEPT ![k] = [i \in 1 .. n |-> None]]
  BY DEF Directory!writeUsers, Directory!credentials, Directory!Ids
<1>2. minted' \in 0 .. n /\ minted <= minted'  BY <1>1 DEF DirTyped, Sentinel
<1>3. /\ at'[k] = "idle" /\ \A j \in Tasks : j # k => at'[j] = at[j] /\ op'[j] = op[j]
      /\ at' \in [Tasks -> {"idle", "lookup", "store", "write", "answer"} \cup Cascade]
      /\ op' = [j \in Tasks |-> op'[j]] /\ GateHeld'
      /\ \A j \in Tasks : at'[j] # "idle" => CallTyped(n, at'[j], op'[j], minted')
  BY <1>1, <1>2, DirLeaves
<1>4. \A j \in Tasks : at'[j] = "idle"  BY <1>1, <1>3, GateAlone
<1>5. /\ users' \in [1 .. n -> User \cup {None}] /\ DOMAIN users = 1 .. n /\ DOMAIN users' = 1 .. n
      /\ next' \in [Tasks -> [1 .. n -> User \cup {None}]]
  BY <1>1 DEF DirTyped
<1>6. \A i \in 1 .. n : users'[i] # None => i \in 1 .. minted'
  BY <1>1, <1>5 DEF SpelledApart
<1>7. DirTyped(n)'
  <2>1. (Living \subseteq 1 .. minted)'  BY <1>5, <1>6 DEF Living
  <2>. QED  BY <1>1, <1>2, <1>3, <1>5, <2>1 DEF DirTyped
<1>8. SpelledApart'
  <2>1. Apart(users)'  BY <1>1, <1>5 DEF SpelledApart, Apart
  <2>2. \A j \in Tasks : ~Naming(j)'  BY <1>4 DEF Naming
  <2>3. \A j \in Tasks : at'[j] \notin Cascade \cup {"write"}  BY <1>4 DEF Cascade
  <2>. QED  BY <2>1, <2>2, <2>3 DEF SpelledApart
<1>. QED  BY <1>3, <1>7, <1>8

\* The adapters start empty, and each step of each task keeps the invariant: over the memory
\* adapter whether calls are serialized or not, over the file adapter when they are.
LEMMA DirKept ==
  ASSUME NEW m \in BOOLEAN, NEW s \in BOOLEAN, m \/ s, NEW n, Sentinel(n)
  PROVE  /\ Directory(m, s, n)!Init => DirInv(m, s, n)
         /\ DirInv(m, s, n) /\ Directory(m, s, n)!Next => DirInv(m, s, n)'
<1>1. ASSUME Directory(m, s, n)!Init  PROVE DirInv(m, s, n)
  <2>1. /\ users = [i \in 1 .. n |-> None] /\ byHandle = [h \in Names |-> None] /\ sessions = {}
        /\ codes = {} /\ totp = [h \in Names |-> None] /\ at = [k \in Tasks |-> "idle"]
        /\ op = [k \in Tasks |-> None] /\ next = [k \in Tasks |-> users] /\ gate = None
        /\ minted = 0 /\ removed = {} /\ stale = {}
    BY <1>1 DEF Directory!Init, Directory!Ids, Directory!Names, Names
  <2>2. Living = {} /\ \A k \in Tasks : at[k] = "idle"  BY <2>1 DEF Living
  <2>3. DirTyped(n)  BY <2>1, <2>2 DEF DirTyped, Sentinel
  <2>4. IndexKept  BY <2>1, <2>2 DEF IndexKept, Cascade
  <2>5. AllIndexed /\ GateHeld  BY <2>2 DEF AllIndexed, GateHeld, Naming
  <2>6. LeftBehind  BY <2>1, <2>2 DEF LeftBehind, Renaming
  <2>7. SpelledApart
    <3>1. Apart(users)  BY <2>1 DEF Apart
    <3>. QED  BY <2>2, <3>1 DEF SpelledApart, Naming, Cascade
  <2>. QED  BY <2>3, <2>4, <2>5, <2>6, <2>7 DEF DirInv
<1>2. ASSUME DirInv(m, s, n), Directory(m, s, n)!Next  PROVE DirInv(m, s, n)'
  <2>1. CASE Directory(m, s, n)!Provision  BY <1>2, <2>1, DirProvisions
  <2>2. CASE ~Directory(m, s, n)!Provision
    <3>1. PICK k \in Tasks :
            \/ Directory(m, s, n)!Begin(k) \/ Directory(m, s, n)!lookup(k)
            \/ Directory(m, s, n)!validateHandle(k) \/ Directory(m, s, n)!storeInMemory(k)
            \/ Directory(m, s, n)!readUsers(k) \/ Directory(m, s, n)!notFound(k)
            \/ Directory(m, s, n)!writeUsers(k) \/ Directory(m, s, n)!deleteUserSessions(k)
            \/ Directory(m, s, n)!deleteTOTPSecret(k) \/ Directory(m, s, n)!deleteBackupCodes(k)
      BY <1>2, <2>2 DEF Directory!Next
    <3>2. CASE \/ Directory(m, s, n)!Begin(k) \/ Directory(m, s, n)!lookup(k)
               \/ Directory(m, s, n)!validateHandle(k) \/ Directory(m, s, n)!notFound(k)
      BY <1>2, <3>2, DirBegins, DirLooks, DirAnswers, DirMisses
    <3>3. CASE Directory(m, s, n)!storeInMemory(k)
      <4>1. m = TRUE  BY <3>3 DEF Directory!storeInMemory
      <4>. QED  BY <1>2, <3>3, <4>1, MemoryAdds, MemoryUpdates, MemoryRemoves
    <3>4. CASE Directory(m, s, n)!readUsers(k)
      <4>1. m = FALSE /\ s = TRUE  BY <3>4 DEF Directory!readUsers
      <4>. QED  BY <1>2, <3>4, <4>1, FileReads
    <3>5. CASE Directory(m, s, n)!writeUsers(k)
      <4>1. m = FALSE /\ s = TRUE  BY <1>2, <3>5 DEF Directory!writeUsers, DirInv, IndexKept
      <4>. QED  BY <1>2, <3>5, <4>1, FileWrites
    <3>6. CASE \/ Directory(m, s, n)!deleteUserSessions(k) \/ Directory(m, s, n)!deleteTOTPSecret(k)
               \/ Directory(m, s, n)!deleteBackupCodes(k)
      <4>1. at[k] \in Cascade
        BY <3>6 DEF Cascade, Directory!deleteUserSessions, Directory!deleteTOTPSecret,
           Directory!deleteBackupCodes
      <4>2. m = TRUE  BY <1>2, <4>1 DEF DirInv, SpelledApart
      <4>. QED  BY <1>2, <3>6, <4>2, CascadeSessions, CascadeSecret, CascadeCodes
    <3>. QED  BY <3>1, <3>2, <3>3, <3>4, <3>5, <3>6
  <2>. QED  BY <2>1, <2>2
<1>. QED  BY <1>1, <1>2

\* When nothing moves the invariant is kept.
LEMMA DirIdles ==
  ASSUME NEW m \in BOOLEAN, NEW s \in BOOLEAN, NEW n, DirInv(m, s, n), UNCHANGED directory
  PROVE  DirInv(m, s, n)'
<1>. USE DEF DirInv
<1>1. /\ users' = users /\ totp' = totp /\ codes' = codes /\ byHandle' = byHandle
      /\ sessions' = sessions /\ removed' = removed /\ stale' = stale /\ op' = op /\ next' = next
      /\ minted' = minted /\ at' = at /\ gate' = gate
  BY DEF directory, peopleVars, handleVars, callVars
<1>2. DirTyped(n)'  BY <1>1 DEF DirTyped, Living
<1>3. m => IndexKept'  BY <1>1 DEF IndexKept, IsClosed
<1>4. s => GateHeld'  BY <1>1 DEF GateHeld
<1>5. m /\ s => AllIndexed'  BY <1>1 DEF AllIndexed, Naming, NameFree, Living
<1>6. m /\ s => LeftBehind'  BY <1>1 DEF LeftBehind, Removing, SecretIn, Renaming, Living
<1>7. ~m => SpelledApart'  BY <1>1 DEF SpelledApart, Naming, SpellingFree, Living, Apart
<1>. QED  BY <1>2, <1>3, <1>4, <1>5, <1>6, <1>7

\* The memory adapter keeps it with a gate and without, the file adapter with one.
DirectoriesInv ==
  /\ running = "racing" => DirInv(TRUE, FALSE, MaxRacing)
  /\ running = "gated" => DirInv(TRUE, TRUE, MaxUsers)
  /\ running = "gatedFile" => DirInv(FALSE, TRUE, MaxUsers)

\* None is no task, no id and no user record.
LEMMA NoneApart == Sentinel(MaxRacing) /\ Sentinel(MaxUsers)
BY DirectoryAssumption DEF Sentinel, User, Directory!UserDirectoryAssumption

\* Every behaviour of the stores keeps it.
LEMMA DirectoriesKept == StoresSpec => []DirectoriesInv
<1>1. StoresInit => DirectoriesInv  BY DirKept, NoneApart DEF StoresInit, DirectoriesInv
<1>2. DirectoriesInv /\ [StoresNext]_storesVars => DirectoriesInv'
  <2>. SUFFICES ASSUME DirectoriesInv, [StoresNext]_storesVars PROVE DirectoriesInv'  OBVIOUS
  <2>1. CASE UNCHANGED storesVars
    <3>1. running' = running /\ UNCHANGED directory  BY <2>1 DEF storesVars
    <3>. QED  BY <3>1, DirIdles DEF DirectoriesInv
  <2>2. CASE StoresNext
    <3>1. running' = running  BY <2>2 DEF StoresNext
    <3>2. running = "racing" => Directory(TRUE, FALSE, MaxRacing)!Next  BY <2>2 DEF StoresNext
    <3>3. running = "gated" => Directory(TRUE, TRUE, MaxUsers)!Next  BY <2>2 DEF StoresNext
    <3>4. running = "gatedFile" => Directory(FALSE, TRUE, MaxUsers)!Next  BY <2>2 DEF StoresNext
    <3>. QED  BY <3>1, <3>2, <3>3, <3>4, DirKept, NoneApart DEF DirectoriesInv
  <2>. QED  BY <2>1, <2>2
<1>. QED  BY <1>1, <1>2, PTL DEF StoresSpec

\* Whoever races, the index of the memory adapter answers with nobody else's user, nobody
\* removed comes back and nobody closed validates; under the gate each user is found by its own
\* handle on both adapters, and nothing of a removed one is left to the next holder of the
\* handle (createUser, updateUser, deleteUser, getUserByHandle).
THEOREM DirectoryAlwaysSound == StoresSpec => []DirectorySound
<1>1. ASSUME NEW s \in BOOLEAN, NEW n, DirInv(TRUE, s, n)
      PROVE  /\ Directory(TRUE, s, n)!IndexSound /\ Directory(TRUE, s, n)!RemovedStaysGone
             /\ Directory(TRUE, s, n)!ClosedNeverValidates
  BY <1>1 DEF DirInv, IndexKept, Names, Directory!IndexSound, Directory!RemovedStaysGone,
     Directory!ClosedNeverValidates, Directory!Names
<1>2. ASSUME NEW m \in BOOLEAN, NEW s \in BOOLEAN, NEW n, Sentinel(n), DirInv(m, s, n)
      PROVE  s => Directory(m, s, n)!FoundByHandle
  <2>1. ASSUME NEW i \in Living
        PROVE  s => Directory(m, s, n)!getUserByHandle(users[i].handle) = i
    <3>1. users[i] \in User  BY <1>2, <2>1 DEF DirInv, DirTyped, Living
    <3>2. PICK h \in Spellings : h = users[i].handle  BY <3>1 DEF User
    <3>3. PICK r : r = Directory(m, s, n)!getUserByHandle(h)  OBVIOUS
    <3>4. /\ r # None => r \in 1 .. minted /\ users[r] # None
          /\ m /\ s => \A j \in Living : users[j].handle.name = h.name => r = j
          /\ ~m => \A j \in Living : users[j].handle = h => r = j
      BY <1>2, <3>3, LookupAnswers
    <3>. QED  BY <3>2, <3>3, <3>4
  <2>2. Directory(m, s, n)!Live \subseteq Living
    BY <1>2 DEF Directory!Live, Directory!Ids, Living, DirInv, DirTyped
  <2>. QED  BY <2>1, <2>2 DEF Directory!FoundByHandle
<1>3. ASSUME NEW n, Sentinel(n), DirInv(TRUE, TRUE, n)  PROVE Directory(TRUE, TRUE, n)!NothingLeft
  <2>1. SUFFICES ASSUME gate = None
                 PROVE  sessions \cup codes \cup ({totp[h] : h \in Names} \ {None}) \subseteq Living
    BY <1>3 DEF Directory!NothingLeft, Directory!Live, Directory!Ids, Directory!Names, Names,
       Living, DirInv, DirTyped
  <2>2. \A k \in Tasks : at[k] = "idle"  BY <1>3, <2>1 DEF DirInv, GateHeld, Sentinel
  <2>3. \A i : ~Removing(i, {"sessions"}) /\ ~Removing(i, Cascade)  BY <2>2 DEF Removing, Cascade
  <2>4. \A h \in Names : totp[h] # None => totp[h] \in Living
    BY <1>3, <2>2 DEF DirInv, LeftBehind, SecretIn
  <2>. QED  BY <1>3, <2>3, <2>4 DEF DirInv, LeftBehind
<1>4. DirectoriesInv => DirectorySound
  BY <1>1, <1>2, <1>3, NoneApart DEF DirectoriesInv, DirectorySound
<1>. QED  BY <1>4, DirectoriesKept, PTL
=============================================================================
