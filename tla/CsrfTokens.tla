----------------------------- MODULE CsrfTokens -----------------------------
(***************************************************************************)
(* The page's CSRF store (src/src/adapters/sveltekit/stores/               *)
(* csrf.svelte.ts) and the server's double-submit check (createCSRFHandle  *)
(* in hook.ts).  A call of the store awaits the token endpoint, which is   *)
(* the application's: its answer sets the cookie when it arrives and the   *)
(* store reads its body in a later step.                                   *)
(***************************************************************************)
EXTENDS Integers

CONSTANTS
  Tasks, Roles, Tokens, None,
  Overlap,    \* the page starts a call while another one is awaiting its answer
  Lifetime,   \* cfg.tokenLifetimeMs
  Threshold,  \* cfg.refreshThresholdMs
  MaxNow      \* bound: clock

Whys    == {"fetch", "rotate", "refresh"}
Flights == [why : Whys, role : Roles \cup {None}, token : Tokens \cup {None}]

CsrfAssumption ==
  /\ Overlap \in BOOLEAN /\ Lifetime \in Nat \ {0} /\ Threshold \in Nat /\ MaxNow \in Nat
  /\ None \notin Roles \cup Tokens /\ None \notin Flights

VARIABLES
  state,   \* the store: [token, expiresAt, role]
  cookie,  \* document.cookie
  flight,  \* Task -> its request: [why, role, token]; token None: no answer yet
  issued,  \* tokens the endpoint has drawn
  torn,    \* a body was lost after its cookie had been set
  now

vars == <<state, cookie, flight, issued, torn, now>>

Cleared == [token |-> None, expiresAt |-> 0, role |-> None]

TypeOK ==
  /\ state \in [token : Tokens \cup {None}, expiresAt : 0 .. MaxNow + Lifetime, role : Roles \cup {None}]
  /\ cookie \in Tokens \cup {None} /\ issued \in SUBSET Tokens
  /\ flight \in [Tasks -> Flights \cup {None}]
  /\ torn \in BOOLEAN /\ now \in 0 .. MaxNow

\* the page may arrive with a cookie
Init ==
  /\ cookie \in Tokens \cup {None} /\ issued = {cookie} \ {None}
  /\ state = Cleared /\ flight = [k \in Tasks |-> None] /\ torn = FALSE /\ now = 0

-----------------------------------------------------------------------------
\* fault: a token the store has already is kept
KeepsToken(t, r) ==
  state' = [token |-> IF state.token = None THEN t ELSE state.token, expiresAt |-> now + Lifetime, role |-> r]

initialize(t, r) == state' = [token |-> t, expiresAt |-> now + Lifetime, role |-> r]

Idle(k) == flight[k] = None /\ (Overlap \/ \A j \in Tasks : flight[j] = None)

Send(k, why, r) == Idle(k) /\ flight' = [flight EXCEPT ![k] = [why |-> why, role |-> r, token |-> None]]

fetchToken(k) ==
  /\ Idle(k)
  /\ IF cookie # None THEN initialize(cookie, None) /\ UNCHANGED flight
     ELSE Send(k, "fetch", None) /\ UNCHANGED state
  /\ torn' = (torn /\ cookie = None) /\ UNCHANGED <<cookie, issued, now>>

rotateOnRoleChange(k, r) ==
  /\ state.role # r /\ Send(k, "rotate", r) /\ UNCHANGED <<state, cookie, issued, torn, now>>

\* a $derived value is one computed at some read since the state last changed:
\* what was true of the clock then is true now, what was false may not be
isExpiringSoon == state.token # None /\ now > state.expiresAt - Threshold

refreshIfNeeded(k) ==
  /\ isExpiringSoon /\ Send(k, "refresh", state.role) /\ UNCHANGED <<state, cookie, issued, torn, now>>

\* the endpoint's answer: its headers set the cookie
Answered(k) ==
  /\ flight[k] # None /\ flight[k].token = None
  /\ \E t \in Tokens \ issued :
       /\ flight' = [flight EXCEPT ![k].token = t] /\ cookie' = t /\ issued' = issued \cup {t}
  /\ UNCHANGED <<state, torn, now>>

\* the request fails, is refused, or its body cannot be read
Lost(k) ==
  /\ flight[k] # None /\ flight' = [flight EXCEPT ![k] = None]
  /\ torn' = (torn \/ flight[k].token # None) /\ UNCHANGED <<state, cookie, issued, now>>

\* fault: the role is the one the store had when the refresh was sent
RoleAsSent(k) == flight[k].role

\* rotate names the role it asked for, refresh the one the store has by now
answerRole(k) ==
  CASE flight[k].why = "rotate" -> flight[k].role [] flight[k].why = "refresh" -> state.role [] OTHER -> None

Resolve(k) ==
  /\ flight[k] # None /\ flight[k].token # None
  /\ initialize(flight[k].token, answerRole(k))
  /\ flight' = [flight EXCEPT ![k] = None]
  /\ torn' = FALSE /\ UNCHANGED <<cookie, issued, now>>

\* the application hands the store the token its page was rendered with
Provided(r) ==
  /\ cookie # None /\ (\A k \in Tasks : flight[k] = None) /\ initialize(cookie, r)
  /\ torn' = FALSE /\ UNCHANGED <<cookie, flight, issued, now>>

clear == state' = Cleared /\ UNCHANGED <<cookie, flight, issued, torn, now>>

setRole(r) == state' = [state EXCEPT !.role = r] /\ UNCHANGED <<cookie, flight, issued, torn, now>>

Tick == now < MaxNow /\ now' = now + 1 /\ UNCHANGED <<state, cookie, flight, issued, torn>>

Next ==
  \/ \E k \in Tasks :
       \/ fetchToken(k) \/ refreshIfNeeded(k) \/ Answered(k) \/ Lost(k) \/ Resolve(k)
       \/ \E r \in Roles : rotateOnRoleChange(k, r)
  \/ \E r \in Roles \cup {None} : setRole(r) \/ Provided(r)
  \/ clear \/ Tick

Spec == Init /\ [][Next]_vars

-----------------------------------------------------------------------------
\* what getHeaders may put in a request; isValid can be stale only in its favour
getHeaders ==
  IF state.token = None THEN {None}
  ELSE {state.token} \cup (IF now < state.expiresAt THEN {} ELSE {None})

createCSRFHandle(header) == header # None /\ cookie # None /\ header = cookie

\* On a page that runs one store call at a time, once the call has settled a request
\* made with the store's headers passes the server's double-submit check: the token
\* and the cookie move together through fetches, role changes, refreshes and failed
\* requests.  A body lost after its cookie arrived parts them until the next answer.
DoubleSubmitPasses ==
  (~Overlap /\ ~torn /\ state.token # None /\ now < state.expiresAt /\ \A k \in Tasks : flight[k] = None)
    => \A h \in getHeaders : createCSRFHandle(h)

\* A refresh renews the token and nothing else: the role set while it was waiting, by
\* a rotation or by the page, is still the store's role after its answer.
RefreshKept ==
  \A k \in Tasks : (flight[k] # None /\ flight[k].why = "refresh" /\ flight'[k] = None)
    => state'.role = state.role
=============================================================================
