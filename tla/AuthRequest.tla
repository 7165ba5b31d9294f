---------------------------- MODULE AuthRequest ----------------------------
(***************************************************************************)
(* A request through createAuthHandle (adapters/sveltekit/hook.ts) and the *)
(* guards (guards.ts), while accounts change, sessions are revoked and     *)
(* expire, and the application projects an account into its session with   *)
(* updateSessionUser (core/session/index.ts).  Each storage call is one    *)
(* step; SessionStore shows that the session file's queue makes it so.     *)
(***************************************************************************)
EXTENDS Permissions

CONSTANTS
  People, Requests,
  None,
  Cookies,         \* bound: session ids
  RolesUsed,       \* roles accounts take
  Asked,           \* permissions guards ask for and accounts may be granted
  MaxAge,          \* config.maxAge
  RenewThreshold,  \* config.renewThreshold
  MaxNow,          \* bound: clock
  MaxChanges       \* bound: account changes

RequestAssumption ==
  /\ RolesUsed \subseteq ADMIN_ROLES /\ Asked \subseteq PERMISSIONS
  /\ MaxAge \in Nat /\ RenewThreshold \in Nat /\ MaxNow \in Nat /\ MaxChanges \in Nat
  /\ None \notin People \cup Cookies \cup RolesUsed \cup Asked

VARIABLES
  account,   \* the stored users
  store,     \* the stored sessions
  owner,     \* whom each session id was created for, kept after removal
  pc, sid,   \* each request: where it is, the cookie it carries
  locals,    \* event.locals: the session and the user it was given
  verdict,   \* what the guard decided: [by, ask, outcome]
  project,   \* an updateSessionUser under way: [sid, role, checked]
  now, changes,
  held,      \* per request: permissions its account had at some time since it began
  live,      \* per request: its session was in the store, not expired, when asked for
  had        \* per session: roles its account had since the session was created

request == <<pc, sid, locals, verdict>>
vars    == <<account, store, owner, request, project, now, changes, held, live, had>>

Exact(n)   == [name |-> n, exact |-> TRUE]
Accounts   == [role : {Exact(n) : n \in RolesUsed}, permissions : SUBSET Asked]
Sessions   == [userId : People, role : {Exact(n) : n \in RolesUsed}, expires : Nat]
Undecided  == [by |-> "none", ask |-> None, outcome |-> "none"]
NoLocals   == [session |-> None, user |-> None]
Where      == {"idle", "asked", "expired", "found", "loaded", "renew", "renewDrop", "guard", "done"}

TypeOK ==
  /\ account \in [People -> Accounts \cup {None}]
  /\ store \in [Cookies -> Sessions \cup {None}] /\ owner \in [Cookies -> People \cup {None}]
  /\ pc \in [Requests -> Where] /\ sid \in [Requests -> Cookies \cup {None}]
  /\ locals \in [Requests -> [session : Sessions \cup {None}, user : Accounts \cup {None}]]
  /\ project \in [sid : Cookies, role : {Exact(n) : n \in RolesUsed}, checked : BOOLEAN] \cup {None}
  /\ now \in 0 .. MaxNow /\ changes \in 0 .. MaxChanges

Init ==
  /\ account \in [People -> Accounts] /\ store = [s \in Cookies |-> None]
  /\ owner = [s \in Cookies |-> None] /\ pc = [q \in Requests |-> "idle"]
  /\ sid = [q \in Requests |-> None] /\ locals = [q \in Requests |-> NoLocals]
  /\ verdict = [q \in Requests |-> Undecided] /\ project = None
  /\ now = 0 /\ changes = 0 /\ held = [q \in Requests |-> {}]
  /\ live = [q \in Requests |-> FALSE] /\ had = [s \in Cookies |-> {}]

\* fault: an expired session is as good as any
LiveIfStored(s) == store[s] # None

Live(s) == store[s] # None /\ store[s].expires >= now

Grants(a)  == IF a = None THEN {} ELSE {p \in Asked : hasPermission(a, p)}

\* what is recorded of the past for the properties, in every step
Record ==
  /\ held' = [q \in Requests |->
       IF pc'[q] = "idle" THEN {}
       ELSE held[q] \cup (IF sid'[q] = None \/ owner'[sid'[q]] = None THEN {}
                          ELSE Grants(account'[owner'[sid'[q]]]))]
  /\ live' = [q \in Requests |->
       IF pc[q] = "asked" /\ pc'[q] # "asked"
       THEN store[sid[q]] # None /\ store[sid[q]].expires >= now
       ELSE live[q] /\ pc'[q] # "idle"]
  /\ had' = [s \in Cookies |->
       IF owner'[s] = None THEN {}
       ELSE had[s] \cup (IF account'[owner'[s]] = None THEN {}
                         ELSE {account'[owner'[s]].role})]

-----------------------------------------------------------------------------
(* everybody else                                                          *)

\* fault: a session without a role is an administrator's
LoginAsAdmin(u, s) ==
  /\ account[u] # None /\ owner[s] = None
  /\ owner' = [owner EXCEPT ![s] = u]
  /\ store' = [store EXCEPT ![s] =
                 [userId |-> u, role |-> Exact("admin"), expires |-> now + MaxAge]]
  /\ UNCHANGED <<account, request, project, now, changes>>

\* a login: the session carries the role the account has now
Login(u, s) ==
  /\ account[u] # None /\ owner[s] = None
  /\ owner' = [owner EXCEPT ![s] = u]
  /\ store' = [store EXCEPT ![s] =
                 [userId |-> u, role |-> account[u].role, expires |-> now + MaxAge]]
  /\ UNCHANGED <<account, request, project, now, changes>>

ChangeAccount(u) ==
  /\ changes < MaxChanges /\ changes' = changes + 1 /\ account[u] # None
  /\ \E a \in Accounts \cup {None} : a # account[u] /\ account' = [account EXCEPT ![u] = a]
  /\ UNCHANGED <<store, owner, request, project, now>>

removeSession(s) ==
  /\ store[s] # None /\ store' = [store EXCEPT ![s] = None]
  /\ UNCHANGED <<account, owner, request, project, now, changes>>

Tick == now < MaxNow /\ now' = now + 1 /\ UNCHANGED <<account, store, owner, request, project, changes>>

\* the application reads the account of a session it has, for updateSessionUser
ReadForProjection(s) ==
  /\ project = None /\ owner[s] # None /\ account[owner[s]] # None
  /\ project' = [sid |-> s, role |-> account[owner[s]].role, checked |-> FALSE]
  /\ UNCHANGED <<account, store, owner, request, now, changes>>

\* its getSession, which drops an expired session
updateSessionUser ==
  /\ project # None /\ ~project.checked
  /\ IF Live(project.sid) THEN project' = [project EXCEPT !.checked = TRUE] /\ UNCHANGED store
     ELSE project' = None /\ store' = [store EXCEPT ![project.sid] = None]
  /\ UNCHANGED <<account, owner, request, now, changes>>

\* its write, which rejects when the session is gone
WriteProjection ==
  /\ project # None /\ project.checked /\ project' = None
  /\ store' = IF store[project.sid] = None THEN store
              ELSE [store EXCEPT ![project.sid].role = project.role]
  /\ UNCHANGED <<account, owner, request, now, changes>>

-----------------------------------------------------------------------------
(* hook.ts                                                                 *)

Go(q, where)  == pc' = [pc EXCEPT ![q] = where]
Give(q, s, u) == locals' = [locals EXCEPT ![q] = [session |-> s, user |-> u]]

\* skipRoutes are not modelled: such a request has no locals and meets no guard
Begin(q) ==
  /\ pc[q] = "idle"
  /\ \E s \in Cookies \cup {None} :
       sid' = [sid EXCEPT ![q] = s] /\ Go(q, IF s = None THEN "guard" ELSE "asked")
  /\ UNCHANGED <<account, store, owner, locals, verdict, project, now, changes>>

\* sessionManager.getSession
getSession(q) ==
  /\ pc[q] = "asked" /\ Give(q, IF Live(sid[q]) THEN store[sid[q]] ELSE None, None)
  /\ Go(q, IF store[sid[q]] = None THEN "guard"
           ELSE IF Live(sid[q]) THEN "found" ELSE "expired")
  /\ UNCHANGED <<account, store, owner, sid, verdict, project, now, changes>>

\* its deletion of an expired session
DropExpired(q) ==
  /\ pc[q] \in {"expired", "renewDrop"} /\ store' = [store EXCEPT ![sid[q]] = None]
  /\ Give(q, None, locals[q].user) /\ Go(q, "guard")
  /\ UNCHANGED <<account, owner, sid, verdict, project, now, changes>>

\* fault: the user is made up from the session
UserFromSession(q) ==
  /\ pc[q] = "found" /\ Go(q, "loaded")
  /\ Give(q, locals[q].session, [role |-> locals[q].session.role, permissions |-> {}])
  /\ UNCHANGED <<account, store, owner, sid, verdict, project, now, changes>>

loadUser(q) ==
  /\ pc[q] = "found" /\ Give(q, locals[q].session, account[locals[q].session.userId])
  /\ Go(q, "loaded")
  /\ UNCHANGED <<account, store, owner, sid, verdict, project, now, changes>>

\* shouldRenewSession looks at the copy; refreshSession reads the session again
shouldRenewSession(q) == locals[q].session.expires - now < RenewThreshold

refreshSession(q) ==
  /\ pc[q] = "loaded"
  /\ IF ~shouldRenewSession(q) THEN Go(q, "guard") /\ UNCHANGED locals
     ELSE IF store[sid[q]] = None THEN Give(q, None, locals[q].user) /\ Go(q, "guard")
     ELSE UNCHANGED locals /\ Go(q, IF Live(sid[q]) THEN "renew" ELSE "renewDrop")
  /\ UNCHANGED <<account, store, owner, sid, verdict, project, now, changes>>

\* its updateSession: a session removed meanwhile rejects and the request fails
Renew(q) ==
  /\ pc[q] = "renew"
  /\ IF store[sid[q]] = None
     THEN /\ Give(q, None, None) /\ Go(q, "done") /\ UNCHANGED store
          /\ verdict' = [verdict EXCEPT ![q] = [by |-> "hook", ask |-> None, outcome |-> "error"]]
     ELSE /\ store' = [store EXCEPT ![sid[q]].expires = now + MaxAge]
          /\ Give(q, store'[sid[q]], locals[q].user) /\ Go(q, "guard") /\ UNCHANGED verdict
  /\ UNCHANGED <<account, owner, sid, project, now, changes>>

-----------------------------------------------------------------------------
(* guards.ts: decisions on locals alone.  An option that is not given is   *)
(* None; a refusal is "login" or "forbidden".                              *)

hasEqualOrHigherRole(s, r) == Rank(s) >= Rank(Exact(r))

requireAuth(l) == IF l.session = None THEN "login" ELSE "allowed"

requireRole(l, r) ==
  IF requireAuth(l) # "allowed" THEN requireAuth(l)
  ELSE IF hasEqualOrHigherRole(l.session.role, r) THEN "allowed" ELSE "forbidden"

requirePermission(l, p) ==
  IF requireAuth(l) # "allowed" THEN requireAuth(l)
  ELSE IF l.user # None /\ hasPermission(l.user, p) THEN "allowed" ELSE "forbidden"

canManageTargetRole(l, r) ==
  IF l.session # None /\ canManageRole(l.session.role, Exact(r)) THEN "allowed" ELSE "forbidden"

\* fault: a missing user passes the permission check
CheckWithoutUser(l, r, p) ==
  IF l.session = None THEN "login"
  ELSE IF r # None /\ ~hasEqualOrHigherRole(l.session.role, r) THEN "forbidden"
  ELSE IF p # None /\ l.user # None /\ ~hasPermission(l.user, p) THEN "forbidden"
  ELSE "allowed"

checkAuth(l, r, p) ==
  IF l.session = None THEN "login"
  ELSE IF r # None /\ ~hasEqualOrHigherRole(l.session.role, r) THEN "forbidden"
  ELSE IF p # None /\ (l.user = None \/ ~hasPermission(l.user, p)) THEN "forbidden"
  ELSE "allowed"

\* 401 in the place of the redirect
protectEndpoint(l, r, p) ==
  IF l.session = None THEN "login"
  ELSE IF /\ r = None \/ hasEqualOrHigherRole(l.session.role, r)
          /\ p = None \/ (l.user # None /\ hasPermission(l.user, p))
  THEN "allowed" ELSE "forbidden"

Decide(q, by, ask, outcome) ==
  verdict' = [verdict EXCEPT ![q] = [by |-> by, ask |-> ask, outcome |-> outcome]]

Guard(q) ==
  /\ pc[q] = "guard" /\ Go(q, "done")
  /\ \/ \E p \in Asked : Decide(q, "permission", p, requirePermission(locals[q], p))
     \/ \E r \in RolesUsed : Decide(q, "role", r, requireRole(locals[q], r))
     \/ \E r \in RolesUsed : Decide(q, "manage", r, canManageTargetRole(locals[q], r))
  /\ UNCHANGED <<account, store, owner, sid, locals, project, now, changes>>

Answer(q) ==
  /\ pc[q] = "done" /\ Go(q, "idle")
  /\ sid' = [sid EXCEPT ![q] = None] /\ locals' = [locals EXCEPT ![q] = NoLocals]
  /\ verdict' = [verdict EXCEPT ![q] = Undecided]
  /\ UNCHANGED <<account, store, owner, project, now, changes>>

RequestStep(q) ==
  \/ getSession(q) \/ DropExpired(q) \/ loadUser(q) \/ refreshSession(q) \/ Renew(q)
  \/ Guard(q) \/ Answer(q)

Next ==
  /\ \/ \E u \in People : ChangeAccount(u) \/ \E s \in Cookies : Login(u, s)
     \/ \E s \in Cookies : removeSession(s) \/ ReadForProjection(s)
     \/ updateSessionUser \/ WriteProjection \/ Tick
     \/ \E q \in Requests : Begin(q) \/ RequestStep(q)
  /\ Record

Spec == Init /\ [][Next]_vars

-----------------------------------------------------------------------------
Allowed(q, by) == verdict[q].by = by /\ verdict[q].outcome = "allowed"

\* A permission a guard grants was held by the stored account at some time during
\* that very request, however the account and the session changed around it
\* (loadUser in createAuthHandle, requirePermission).
PermissionIsCurrent ==
  \A q \in Requests : Allowed(q, "permission") => verdict[q].ask \in held[q]

\* Nothing is allowed to a request whose session was missing or expired when the
\* request asked for it: neither the renewal nor a concurrent request that renews
\* or drops it brings it back (getSession, refreshSession, requireAuth).
AllowedWasLive ==
  \A q \in Requests : verdict[q].outcome = "allowed" => live[q]

\* A decision by role rests on the session's copy of it: a role the account has
\* had since that login, never one it had before (newSession, updateSessionUser).
RoleWasHeld ==
  \A q \in Requests :
    /\ Allowed(q, "role") => \E s \in had[sid[q]] : hasEqualOrHigherRole(s, verdict[q].ask)
    /\ Allowed(q, "manage") => \E s \in had[sid[q]] : canManageRole(s, Exact(verdict[q].ask))

\* The three ways to guard a route decide alike on the same locals: checkAuth and
\* protectEndpoint allow what requireRole and requirePermission both allow.
GuardsAgree ==
  \A q \in Requests : \A r \in RolesUsed \cup {None}, p \in Asked \cup {None} :
    /\ checkAuth(locals[q], r, p) = protectEndpoint(locals[q], r, p)
    /\ (checkAuth(locals[q], r, p) = "allowed") <=>
      /\ requireAuth(locals[q]) = "allowed"
      /\ r # None => requireRole(locals[q], r) = "allowed"
      /\ p # None => requirePermission(locals[q], p) = "allowed"
=============================================================================
