------------------------------ MODULE SignedIn ------------------------------
(***************************************************************************)
(* What a request of a signed-in browser meets: MemorySessions in bounded  *)
(* mode (under its own names) and in single mode, AuthRequest, and         *)
(* CsrfTokens on a page whose calls overlap and on one whose calls do not. *)
(* The initial state chooses which of them a behaviour is about.           *)
(***************************************************************************)
EXTENDS MemorySessions

CONSTANTS
  SingleUsers,
  People, Requests, Cookies, RolesUsed, Asked, RenewThreshold, MaxClock, MaxChanges,  \* AuthRequest
  Calls, Roles, Tokens, Lifetime, Threshold, MaxPage                                  \* CsrfTokens

VARIABLES running, clock,
          account, store, owner, pc, sid, locals, verdict, project, changes, held, live, had,
          state, cookie, flight, issued, torn

Single == INSTANCE MemorySessions WITH Users <- SingleUsers, Strategy <- "single"

Hook == INSTANCE AuthRequest WITH MaxNow <- MaxClock, now <- clock

Page(overlap) ==
  INSTANCE CsrfTokens WITH Tasks <- Calls, Overlap <- overlap, MaxNow <- MaxPage, now <- clock

ASSUME SignedInAssumption ==
  Hook!RequestAssumption /\ Page(TRUE)!CsrfAssumption /\ Page(FALSE)!CsrfAssumption

hookOnly == <<account, store, owner, pc, sid, locals, verdict, project, changes, held, live, had>>
pageOnly == <<state, cookie, flight, issued, torn>>

\* the variables of the modules that do not run keep one value
NoHook ==
  /\ account = <<>> /\ store = <<>> /\ owner = <<>> /\ pc = <<>> /\ sid = <<>> /\ locals = <<>>
  /\ verdict = <<>> /\ project = None /\ changes = 0 /\ held = <<>> /\ live = <<>> /\ had = <<>>
NoPage == state = None /\ cookie = None /\ flight = <<>> /\ issued = {} /\ torn = FALSE

SignedInInit ==
  /\ Init
  /\ \/ running \in {"bounded", "single"} /\ NoHook /\ NoPage /\ clock = 0
     \/ running = "hook" /\ Hook!Init /\ NoPage
     \/ running = "overlapping" /\ Page(TRUE)!Init /\ NoHook
     \/ running = "serial" /\ Page(FALSE)!Init /\ NoHook

SignedInNext ==
  /\ running' = running
  /\ \/ running = "bounded" /\ Next /\ UNCHANGED <<clock, hookOnly, pageOnly>>
     \/ running = "single" /\ Single!Next /\ UNCHANGED <<clock, hookOnly, pageOnly>>
     \/ running = "hook" /\ Hook!Next /\ UNCHANGED <<vars, pageOnly>>
     \/ running = "overlapping" /\ Page(TRUE)!Next /\ UNCHANGED <<vars, hookOnly>>
     \/ running = "serial" /\ Page(FALSE)!Next /\ UNCHANGED <<vars, hookOnly>>

signedInVars == <<running, clock, vars, hookOnly, pageOnly>>

SignedInSpec == SignedInInit /\ [][SignedInNext]_signedInVars

-----------------------------------------------------------------------------
\* What a guard allows a request was right while that request ran, though accounts and
\* sessions change around it: its session was stored and unexpired when asked for, the
\* permission was held during the request, the role since the session's login; and
\* checkAuth, protectEndpoint and the require functions decide alike (hook.ts, guards.ts).
AllowedRightly ==
  running = "hook" =>
    Hook!AllowedWasLive /\ Hook!PermissionIsCurrent /\ Hook!RoleWasHeld /\ Hook!GuardsAgree

\* Token, role and cookie of a page stay in step: on a page that runs one store call at
\* a time a settled store's headers pass the double-submit check, and a refresh renews
\* the token and nothing else, also when its answer arrives after a rotation's
\* (csrf.svelte.ts, createCSRFHandle).
PageInStep ==
  [][/\ (running = "serial" => Page(FALSE)!DoubleSubmitPasses)'
     /\ running = "overlapping" => Page(TRUE)!RefreshKept]_<<running, clock, pageOnly>>
=============================================================================
