---------------------------- MODULE Invitations ----------------------------
(***************************************************************************)
(* InvitationService (src/src/modules/invitation/index.ts) over the        *)
(* invitations of the memory adapter, whose calls are one step each, or of *)
(* the file adapter, which reads invites.json, changes the list and writes *)
(* it back.  Inviting is gated by canInviteForRole, as the service asks of *)
(* its callers; accepting reads the invitation, creates the account and    *)
(* marks the invitation used.                                              *)
(***************************************************************************)
EXTENDS Permissions

CONSTANTS
  Tasks, Tokens, None,
  Atomic,       \* memory adapter
  Serialized,   \* the application runs each call under one auth gate
  RolesUsed,    \* roles invitations are for
  Lifetime,     \* config.defaultExpiryHours; an extension adds as much
  MaxNow,       \* bound: clock
  MaxExpiry     \* bound: expiry an extension may reach

InvitationAssumption ==
  /\ Atomic \in BOOLEAN /\ Serialized \in BOOLEAN /\ RolesUsed \subseteq ADMIN_ROLES
  /\ Lifetime \in Nat \ {0} /\ MaxNow \in Nat /\ MaxExpiry \in Nat /\ None \notin Tokens \cup Tasks

VARIABLES
  invites,   \* the stored invitations
  accounts,  \* people: the founder is None, the others are named by their token
  at, op,    \* each task: idle, join, store, write; the call it makes
  next,      \* the list a file write is about to install
  gate,      \* the task holding the auth gate
  minted,    \* tokens drawn
  gone,      \* tokens revoked or cleaned up
  joins,     \* accounts created per token
  now

vars == <<invites, accounts, at, op, next, gate, minted, gone, joins, now>>

Exact(n)    == [name |-> n, exact |-> TRUE]
Invitation  == [role : RolesUsed, by : Tokens \cup {None}, expires : 0 .. MaxExpiry, used : BOOLEAN]
Stored      == [Tokens -> Invitation \cup {None}]
Call(k, t, i) == [kind |-> k, token |-> t, invitation |-> i]
NoCall      == Call("none", None, None)

TypeOK ==
  /\ invites \in Stored /\ next \in [Tasks -> Stored]
  /\ \A a \in accounts : a.person \in Tokens \cup {None} /\ a.role \in ADMIN_ROLES
  /\ at \in [Tasks -> {"idle", "join", "store", "write"}]
  /\ gate \in Tasks \cup {None} /\ minted \subseteq Tokens /\ gone \subseteq Tokens
  /\ joins \in [Tokens -> 0 .. Cardinality(Tasks)] /\ now \in 0 .. MaxNow

Empty == [t \in Tokens |-> None]

Init ==
  /\ invites = Empty /\ accounts = {[person |-> None, role |-> "super_admin", by |-> None]}
  /\ at = [k \in Tasks |-> "idle"] /\ op = [k \in Tasks |-> NoCall]
  /\ next = [k \in Tasks |-> Empty] /\ gate = None /\ minted = {} /\ gone = {}
  /\ joins = [t \in Tokens |-> 0] /\ now = 0

-----------------------------------------------------------------------------
Enter(k, where, call) ==
  /\ at[k] = "idle" /\ (Serialized => gate = None)
  /\ gate' = (IF Serialized THEN k ELSE None)
  /\ at' = [at EXCEPT ![k] = where] /\ op' = [op EXCEPT ![k] = call]
  /\ UNCHANGED <<invites, accounts, next, gone, joins, now>>

\* canInviteForRole, then createInvitation
createInvitation(k) ==
  \E t \in Tokens \ minted, a \in accounts, r \in RolesUsed :
    /\ canManageRole(Exact(a.role), Exact(r)) /\ minted' = minted \cup {t}
    /\ Enter(k, "store",
         Call("create", t, [role |-> r, by |-> a.person, expires |-> now + Lifetime, used |-> FALSE]))

\* fault: an invitation that was used is handed out again
GetUsed(t) == invites[t] # None /\ invites[t].expires >= now

getInvitation(t) == invites[t] # None /\ invites[t].expires >= now /\ ~invites[t].used

Accept(k) ==
  \E t \in minted : getInvitation(t) /\ UNCHANGED minted /\ Enter(k, "join", Call("used", t, invites[t]))

\* the application creates the account the invitation is for
Join(k) ==
  /\ at[k] = "join" /\ at' = [at EXCEPT ![k] = "store"]
  /\ accounts' = accounts \cup {[person |-> op[k].token, role |-> op[k].invitation.role,
                                 by |-> op[k].invitation.by]}
  /\ joins' = [joins EXCEPT ![op[k].token] = @ + 1]
  /\ UNCHANGED <<invites, op, next, gate, minted, gone, now>>

revokeInvitation(k) ==
  \E t \in minted : UNCHANGED minted /\ Enter(k, "store", Call("delete", t, None))

\* the memory adapter hides an expired invitation, the file adapter does not
extendInvitation(k) ==
  \E t \in minted :
    /\ invites[t] # None /\ (Atomic => invites[t].expires >= now) /\ ~invites[t].used
    /\ invites[t].expires + Lifetime <= MaxExpiry
    /\ UNCHANGED minted /\ Enter(k, "store", Call("extend", t, invites[t]))

cleanupExpired(k) == UNCHANGED minted /\ Enter(k, "store", Call("cleanup", None, None))

-----------------------------------------------------------------------------
(* the adapters                                                            *)

\* cleanupExpiredInvitations: memory drops used invitations, the file keeps them
Outdated(i) ==
  i # None /\ IF Atomic THEN i.expires < now \/ i.used ELSE i.expires <= now /\ ~i.used

markAsUsed(t, all) == [all EXCEPT ![t].used = TRUE]

\* fault: an extension writes back the whole invitation it has read
ExtendRewrites(c, all) ==
  CASE c.kind = "create" -> [all EXCEPT ![c.token] = c.invitation]
    [] c.kind = "used"   -> markAsUsed(c.token, all)
    [] c.kind = "extend" ->
         [all EXCEPT ![c.token] = [c.invitation EXCEPT !.expires = @ + Lifetime]]
    [] c.kind = "delete" -> [all EXCEPT ![c.token] = None]
    [] OTHER             -> [t \in Tokens |-> IF Outdated(all[t]) THEN None ELSE all[t]]

Changed(c, all) ==
  CASE c.kind = "create" -> [all EXCEPT ![c.token] = c.invitation]
    [] c.kind = "used"   -> markAsUsed(c.token, all)
    [] c.kind = "extend" -> [all EXCEPT ![c.token].expires = c.invitation.expires + Lifetime]
    [] c.kind = "delete" -> [all EXCEPT ![c.token] = None]
    [] OTHER             -> [t \in Tokens |-> IF Outdated(all[t]) THEN None ELSE all[t]]

\* updateInvitation and deleteInvitation of a token that is not there change nothing
Missing(c) == c.kind \in {"used", "extend", "delete"} /\ invites[c.token] = None

Install(k, all) ==
  /\ invites' = all
  /\ gone' = gone \cup {t \in Tokens : invites[t] # None /\ all[t] = None}
  /\ at' = [at EXCEPT ![k] = "idle"] /\ op' = [op EXCEPT ![k] = NoCall]
  /\ gate' = (IF gate = k THEN None ELSE gate)

\* fault: an update of a missing token stores it again
StoreUpserts(k) ==
  /\ at[k] = "store"
  /\ IF ~Atomic
     THEN next' = [next EXCEPT ![k] = Changed(op[k], invites)] /\ at' = [at EXCEPT ![k] = "write"]
          /\ UNCHANGED <<invites, op, gate, gone>>
     ELSE /\ Install(k, IF Missing(op[k]) THEN [invites EXCEPT ![op[k].token] = op[k].invitation]
                        ELSE Changed(op[k], invites))
          /\ UNCHANGED next
  /\ UNCHANGED <<accounts, minted, joins, now>>

Store(k) ==
  /\ at[k] = "store"
  /\ IF Missing(op[k]) THEN Install(k, invites) /\ UNCHANGED next
     ELSE IF Atomic THEN Install(k, Changed(op[k], invites)) /\ UNCHANGED next
     ELSE next' = [next EXCEPT ![k] = Changed(op[k], invites)] /\ at' = [at EXCEPT ![k] = "write"]
          /\ UNCHANGED <<invites, op, gate, gone>>
  /\ UNCHANGED <<accounts, minted, joins, now>>

Write(k) ==
  /\ at[k] = "write" /\ Install(k, next[k]) /\ next' = [next EXCEPT ![k] = Empty]
  /\ UNCHANGED <<accounts, minted, joins, now>>

Tick == now < MaxNow /\ now' = now + 1 /\ UNCHANGED <<invites, accounts, at, op, next, gate, minted, gone, joins>>

Next ==
  \/ \E k \in Tasks :
       \/ createInvitation(k) \/ Accept(k) \/ revokeInvitation(k) \/ extendInvitation(k)
       \/ cleanupExpired(k) \/ Join(k) \/ Store(k) \/ Write(k)
  \/ Tick

Spec == Init /\ [][Next]_vars

-----------------------------------------------------------------------------
\* Everybody who joined ranks strictly below the one who invited him, along every
\* chain of invitations: nobody is invited to the founder's role (canInviteForRole,
\* and no update changes the role of an invitation).
InvitedRankBelow ==
  \A a \in accounts : a.person # None =>
    \E b \in accounts : b.person = a.by /\ canManageRole(Exact(b.role), Exact(a.role))
                        /\ Rank(Exact(a.role)) < 100

\* An invitation once revoked or cleaned up is never stored again: a mark or an
\* extension that was under way does not bring it back (updateInvitation).
RevokedStaysGone == \A t \in gone : invites[t] = None

\* A used invitation is never usable again: an extension that began before it was
\* used changes its expiry only (extendInvitation, markAsUsed).
UsesKept ==
  \A t \in Tokens :
    (invites[t] # None /\ invites[t].used) => (invites'[t] = None \/ invites'[t].used)

\* Under the gate an invitation makes one account (getInvitation, markAsUsed).
AcceptedOnce == Serialized => \A t \in Tokens : joins[t] <= 1
=============================================================================
