------------------------------ MODULE WebLogin ------------------------------
(***************************************************************************)
(* Signing in and out of the web server: handleLogin, handleAuthCallback,  *)
(* handleLogout and requireAuth (internal/app), OAuthManager.GetAuthURL    *)
(* and HandleCallback with the in-memory state and PKCE stores             *)
(* (internal/auth), and the in-memory session store (internal/session).    *)
(*                                                                         *)
(* The handlers serve one hard-coded user and generateRandomState returns  *)
(* one constant, so the state store holds one value or nothing and the     *)
(* PKCE store one verifier or nothing.  Every request runs in a goroutine  *)
(* of its own; each call of a store is one step, because each locks the    *)
(* store's mutex for its whole body.                                       *)
(*                                                                         *)
(* A login stands for the PKCE verifier it generates, and a callback for   *)
(* the random session ID it creates.                                       *)
(***************************************************************************)
EXTENDS Naturals, FiniteSets

CONSTANTS
  Logins,       \* requests for /login
  Callbacks,    \* requests for /auth/callback
  Requests,     \* requests for a page behind requireAuth
  Nothing,      \* no verifier, no token, no login
  SessionLife,  \* 24 hours
  MaxTime       \* bound on the clock

ASSUME LoginSets == IsFiniteSet(Logins) /\ IsFiniteSet(Callbacks)
ASSUME LoginNames == Nothing \notin Logins
ASSUME LoginTimes == SessionLife \in Nat \ {0} /\ MaxTime \in Nat \ {0}

VARIABLES
  started,    \* the logins redirected to the consent page
  stateHeld,  \* the state store has the user's state
  verifier,   \* the verifier the PKCE store has for that state
  cpc,        \* cpc[c]: where callback c is
  clogin,     \* clogin[c]: the login whose authorization code it carries
  cver,       \* cver[c]: the verifier it got from the PKCE store
  spent,      \* the logins whose code has been exchanged
  token,      \* the login whose token is stored
  sessions,   \* sessions[c]: when the session of callback c expires, 0 if none
  now,        \* the current time
  rpc,        \* rpc[r]: where request r is
  rsess,      \* rsess[r]: the session of its cookie
  loggedOut,  \* history: the sessions a logout has deleted
  crowded     \* history: a callback was in progress at the last login, or has
              \* been validated since

loginVars == <<started, stateHeld, verifier, cpc, clogin, cver, spent, token,
               sessions, now, rpc, rsess, loggedOut, crowded>>

CallbackPc == {"idle", "validated", "verified", "exchanged", "succeeding", "failing",
               "authenticated", "done", "failed", "rejected"}
RequestPc  == {"idle", "admitted", "served", "expired", "refused"}

TypeOK ==
  /\ started \subseteq Logins /\ spent \subseteq Logins
  /\ stateHeld \in BOOLEAN /\ crowded \in BOOLEAN
  /\ verifier \in Logins \cup {Nothing} /\ token \in Logins \cup {Nothing}
  /\ cpc \in [Callbacks -> CallbackPc]
  /\ clogin \in [Callbacks -> Logins \cup {Nothing}]
  /\ cver \in [Callbacks -> Logins \cup {Nothing}]
  /\ sessions \in [Callbacks -> 0..(MaxTime + SessionLife)]
  /\ now \in 1..MaxTime
  /\ rpc \in [Requests -> RequestPc]
  /\ rsess \in [Requests -> Callbacks \cup {Nothing}]
  /\ loggedOut \subseteq Callbacks

Init ==
  /\ started = {} /\ spent = {} /\ loggedOut = {}
  /\ stateHeld = FALSE /\ crowded = FALSE
  /\ verifier = Nothing /\ token = Nothing
  /\ cpc = [c \in Callbacks |-> "idle"]
  /\ clogin = [c \in Callbacks |-> Nothing]
  /\ cver = [c \in Callbacks |-> Nothing]
  /\ sessions = [c \in Callbacks |-> 0]
  /\ now = 1
  /\ rpc = [r \in Requests |-> "idle"]
  /\ rsess = [r \in Requests |-> Nothing]

(* HandleCallback of c is between ValidateState and its deferred call. *)
InCallback(c) == cpc[c] \in {"validated", "verified", "exchanged", "succeeding", "failing"}

-----------------------------------------------------------------------------
(* GetAuthURL generates the verifier, stores the state and returns the     *)
(* URL.  The verifier itself is dropped.                                   *)
GetAuthURL(l) ==
  /\ started' = started \cup {l}
  /\ stateHeld' = TRUE

handleLogin(l) ==
  /\ l \notin started
  /\ GetAuthURL(l)
  /\ crowded' = \E c \in Callbacks : InCallback(c)
  /\ UNCHANGED <<verifier, cpc, clogin, cver, spent, token, sessions, now, rpc, rsess, loggedOut>>

(* PKCEStore.StoreVerifier; nothing but the handlers' test calls it. *)
StoreVerifier(l) ==
  /\ l \in started
  /\ verifier' = l
  /\ UNCHANGED <<started, stateHeld, cpc, clogin, cver, spent, token, sessions, now, rpc,
                 rsess, loggedOut, crowded>>

-----------------------------------------------------------------------------
(* The stored state after ValidateState has compared it with the request's *)
(* and after it has found no match.                                        *)
StateKeptForReplay == stateHeld  \* mutant
StateAfterMatch == FALSE
StateDroppedOnMismatch == FALSE  \* mutant
StateAfterMismatch == stateHeld

(* handleAuthCallback with the code of login l: ValidateState takes the    *)
(* stored state if it is the request's; a missing code or state, or a      *)
(* wrong one, changes nothing.                                             *)
ValidateState(c, l, match) ==
  /\ cpc[c] = "idle" /\ l \in started
  /\ \/ /\ match /\ stateHeld
        /\ stateHeld' = StateAfterMatch
        /\ cpc' = [cpc EXCEPT ![c] = "validated"]
        /\ crowded' = TRUE
     \/ /\ ~(match /\ stateHeld)
        /\ stateHeld' = StateAfterMismatch
        /\ cpc' = [cpc EXCEPT ![c] = "rejected"]
        /\ UNCHANGED crowded
  /\ clogin' = [clogin EXCEPT ![c] = l]
  /\ UNCHANGED <<started, verifier, cver, spent, token, sessions, now, rpc, rsess, loggedOut>>

(* GetVerifier takes the verifier out of the store. *)
WaitsForVerifier == "validated"  \* mutant
NoVerifier == "failing"
GetVerifier(c) ==
  /\ cpc[c] = "validated"
  /\ cver' = [cver EXCEPT ![c] = verifier]
  /\ verifier' = Nothing
  /\ cpc' = [cpc EXCEPT ![c] = IF verifier = Nothing THEN NoVerifier ELSE "verified"]
  /\ UNCHANGED <<started, stateHeld, clogin, spent, token, sessions, now, rpc, rsess,
                 loggedOut, crowded>>

(* The provider trades a code for a token once, and only with the verifier *)
(* of the login that asked for the code; it may also refuse or not answer. *)
Exchange(c) ==
  /\ cpc[c] = "verified"
  /\ \/ /\ cver[c] = clogin[c] /\ clogin[c] \notin spent
        /\ spent' = spent \cup {clogin[c]}
        /\ cpc' = [cpc EXCEPT ![c] = "exchanged"]
     \/ /\ cpc' = [cpc EXCEPT ![c] = "failing"]
        /\ UNCHANGED spent
  /\ UNCHANGED <<started, stateHeld, verifier, clogin, cver, token, sessions, now, rpc,
                 rsess, loggedOut, crowded>>

AfterStoreIgnored(ok) == "succeeding"  \* mutant
AfterStore(ok) == IF ok THEN "succeeding" ELSE "failing"
StoreToken(c, ok) ==
  /\ cpc[c] = "exchanged"
  /\ token' = IF ok THEN clogin[c] ELSE token
  /\ cpc' = [cpc EXCEPT ![c] = AfterStore(ok)]
  /\ UNCHANGED <<started, stateHeld, verifier, clogin, cver, spent, sessions, now, rpc,
                 rsess, loggedOut, crowded>>

(* HandleCallback returns, and its deferred DeleteState removes whatever   *)
(* state is stored by then, a newer login's included.                      *)
DeleteState(c) ==
  /\ cpc[c] \in {"succeeding", "failing"}
  /\ stateHeld' = FALSE
  /\ cpc' = [cpc EXCEPT ![c] = IF @ = "succeeding" THEN "authenticated" ELSE "failed"]
  /\ UNCHANGED <<started, verifier, clogin, cver, spent, token, sessions, now, rpc, rsess,
                 loggedOut, crowded>>

(* SessionStore.Create and the cookie; rand.Read may fail. *)
ExpiryExtended == now + SessionLife + SessionLife  \* mutant
Expiry == now + SessionLife
CreateSession(c, ok) ==
  /\ cpc[c] = "authenticated"
  /\ sessions' = [sessions EXCEPT ![c] = IF ok THEN Expiry ELSE 0]
  /\ cpc' = [cpc EXCEPT ![c] = IF ok THEN "done" ELSE "failed"]
  /\ UNCHANGED <<started, stateHeld, verifier, clogin, cver, spent, token, now, rpc, rsess,
                 loggedOut, crowded>>

-----------------------------------------------------------------------------
(* handleLogout with the cookie of session c, live or not. *)
SessionsClearedCookie(c) == sessions  \* mutant
SessionsWithout(c) == [sessions EXCEPT ![c] = 0]
handleLogout(c) ==
  /\ cpc[c] = "done" /\ c \notin loggedOut
  /\ sessions' = SessionsWithout(c)
  /\ loggedOut' = loggedOut \cup {c}
  /\ UNCHANGED <<started, stateHeld, verifier, cpc, clogin, cver, spent, token, now, rpc,
                 rsess, crowded>>

(* SessionStore.Get: an expired session is refused and left in the store.  *)
Get(c) == IF sessions[c] = 0 THEN "refused"
          ELSE IF now > sessions[c] THEN "expired" ELSE "admitted"

(* requireAuth with the cookie of session c. *)
requireAuth(r, c) ==
  /\ rpc[r] = "idle" /\ cpc[c] = "done"
  /\ rsess' = [rsess EXCEPT ![r] = c]
  /\ rpc' = [rpc EXCEPT ![r] = Get(c)]
  /\ UNCHANGED <<started, stateHeld, verifier, cpc, clogin, cver, spent, token, sessions,
                 now, loggedOut, crowded>>

(* next.ServeHTTP. *)
Serve(r) ==
  /\ rpc[r] = "admitted"
  /\ rpc' = [rpc EXCEPT ![r] = "served"]
  /\ UNCHANGED <<started, stateHeld, verifier, cpc, clogin, cver, spent, token, sessions,
                 now, rsess, loggedOut, crowded>>

Tick ==
  /\ now < MaxTime
  /\ now' = now + 1
  /\ UNCHANGED <<started, stateHeld, verifier, cpc, clogin, cver, spent, token, sessions,
                 rpc, rsess, loggedOut, crowded>>

-----------------------------------------------------------------------------
CallbackStep(c) ==
  \/ GetVerifier(c) \/ Exchange(c) \/ DeleteState(c)
  \/ \E ok \in BOOLEAN : StoreToken(c, ok) \/ CreateSession(c, ok)

ServerNext ==
  \/ Tick
  \/ \E l \in Logins : handleLogin(l)
  \/ \E c \in Callbacks :
       \/ CallbackStep(c) \/ handleLogout(c)
       \/ \E l \in Logins, match \in BOOLEAN : ValidateState(c, l, match)
  \/ \E r \in Requests : Serve(r) \/ \E c \in Callbacks : requireAuth(r, c)

(* The server as it is, and with somebody storing verifiers. *)
ServerSpec == Init /\ [][ServerNext]_loginVars
LoginNext == ServerNext \/ \E l \in Logins : StoreVerifier(l)
LoginSpec == Init /\ [][LoginNext]_loginVars

(* A request goroutine runs to its end; the provider answers or times out. *)
FairLoginSpec == LoginSpec /\ \A c \in Callbacks : WF_loginVars(CallbackStep(c))

-----------------------------------------------------------------------------
(* A stored state lets one callback through: callbacks that race with the  *)
(* same state, or repeat it, are not all validated, since ValidateState    *)
(* compares and deletes under one lock.                                    *)
StateUsedOnce ==
  Cardinality({c \in Callbacks : cpc[c] \notin {"idle", "rejected"}})
    + (IF stateHeld THEN 1 ELSE 0) <= Cardinality(started)

(* A login in progress is disturbed only by a callback that was validated  *)
(* before it and has not returned, whose deferred DeleteState takes the    *)
(* new state with it; a rejected callback never ends a login.              *)
LoginUndisturbed == started # {} /\ ~stateHeld => crowded

(* A session exists only for a user whose token has been stored, however   *)
(* callbacks, failures and logouts interleave.                             *)
SessionHasToken == \A c \in Callbacks : sessions[c] # 0 => token # Nothing

(* requireAuth lets a request through only with a session that has not     *)
(* been logged out or expired at that moment, although its handler may run *)
(* after either.                                                           *)
AdmissionIsCurrent ==
  [][\A r \in Requests :
       rpc[r] = "idle" /\ rpc'[r] = "admitted" =>
         rsess'[r] \notin loggedOut /\ now <= sessions[rsess'[r]]]_loginVars

(* Every validated callback is answered. *)
CallbackAnswered ==
  \A c \in Callbacks : InCallback(c) ~> cpc[c] \in {"done", "failed"}

(* "It exchanges the authorization code for a token and stores it"         *)
(* (handlers.go:30): a validated callback does not fail for want of the    *)
(* verifier.  The code does not keep this: GetAuthURL never stores it.     *)
VerifierFound == \A c \in Callbacks : cpc[c] \in {"failing", "failed"} => cver[c] # Nothing
=============================================================================
