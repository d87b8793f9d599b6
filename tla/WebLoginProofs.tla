--------------------------- MODULE WebLoginProofs ---------------------------
(***************************************************************************)
(* What holds of signing in and out for any number of logins, callbacks    *)
(* and requests.                                                           *)
(***************************************************************************)
EXTENDS WebLogin, FiniteSetTheorems, TLAPS

(* The callbacks that ValidateState has let through. *)
LetThrough == {c \in Callbacks : cpc[c] \notin {"idle", "rejected"}}

(* What is known of callback c: its code belongs to a started login; a     *)
(* callback past StoreToken has left a token; only one that is done has a  *)
(* session, and only such a session can be logged out.                     *)
CallbackKnows(c) ==
  /\ cpc[c] # "idle" => clogin[c] \in started
  /\ cpc[c] \in {"succeeding", "authenticated", "done"} => token # Nothing
  /\ sessions[c] # 0 => cpc[c] = "done"
  /\ c \in loggedOut => cpc[c] = "done" /\ sessions[c] = 0

LoginInv ==
  /\ TypeOK
  /\ StateUsedOnce
  /\ LoginUndisturbed
  /\ \A c \in Callbacks : CallbackKnows(c)
  /\ \A c \in Callbacks : InCallback(c) => crowded

-----------------------------------------------------------------------------
(* The initial state satisfies the invariant. *)
LEMMA LoginInit == Init => LoginInv
  <1> SUFFICES ASSUME Init PROVE LoginInv
    OBVIOUS
  <1>1. TypeOK
    <2>1. 0 \in 0..(MaxTime + SessionLife) /\ 1 \in 1..MaxTime
      BY LoginTimes
    <2>2. QED
      BY <2>1 DEF Init, TypeOK, CallbackPc, RequestPc
  <1>2. StateUsedOnce
    <2>1. LetThrough = {} /\ started = {} /\ stateHeld = FALSE
      BY DEF Init, LetThrough
    <2>2. QED
      BY <2>1, FS_EmptySet DEF StateUsedOnce, LetThrough
  <1>3. QED
    BY <1>1, <1>2 DEF Init, LoginInv, LoginUndisturbed, CallbackKnows, InCallback

(* Both sides of StateUsedOnce count finite sets. *)
LEMMA CountedSets ==
  ASSUME TypeOK
  PROVE  /\ IsFiniteSet(LetThrough) /\ Cardinality(LetThrough) \in Nat
         /\ IsFiniteSet(started) /\ Cardinality(started) \in Nat
  BY LoginSets, FS_Subset, FS_CardinalityType DEF TypeOK, LetThrough

(* StateUsedOnce, when nobody starts a login or is let through. *)
LEMMA SameCount ==
  ASSUME LoginInv, TypeOK', started' = started, LetThrough' = LetThrough,
         stateHeld' => stateHeld
  PROVE  StateUsedOnce'
  <1>1. Cardinality(LetThrough) + (IF stateHeld THEN 1 ELSE 0) <= Cardinality(started)
    BY DEF LoginInv, StateUsedOnce, LetThrough
  <1>2. Cardinality(LetThrough) \in Nat /\ Cardinality(started) \in Nat
    BY CountedSets DEF LoginInv
  <1>3. Cardinality(LetThrough') + (IF stateHeld' THEN 1 ELSE 0) <= Cardinality(started')
    BY <1>1, <1>2
  <1>4. QED
    BY <1>3 DEF StateUsedOnce, LetThrough

(* A login stores the state: one more login, one more state at most. *)
LEMMA LoginStarts ==
  ASSUME LoginInv, NEW l \in Logins, handleLogin(l)
  PROVE  LoginInv'
  <1>1. /\ l \notin started /\ started' = started \cup {l} /\ stateHeld' = TRUE
        /\ crowded' = \E c \in Callbacks : InCallback(c)
        /\ UNCHANGED <<verifier, cpc, clogin, cver, spent, token, sessions, now, rpc, rsess,
                       loggedOut>>
    BY DEF handleLogin, GetAuthURL
  <1>2. TypeOK'
    BY <1>1 DEF LoginInv, TypeOK
  <1>3. StateUsedOnce'
    <2>1. Cardinality(LetThrough) + (IF stateHeld THEN 1 ELSE 0) <= Cardinality(started)
      BY DEF LoginInv, StateUsedOnce, LetThrough
    <2>2. Cardinality(LetThrough) \in Nat /\ IsFiniteSet(started) /\ Cardinality(started) \in Nat
      BY CountedSets DEF LoginInv
    <2>3. Cardinality(started') = Cardinality(started) + 1
      BY <1>1, <2>2, FS_AddElement
    <2>4. LetThrough' = LetThrough
      BY <1>1 DEF LetThrough
    <2>5. Cardinality(LetThrough') + 1 <= Cardinality(started')
      BY <2>1, <2>2, <2>3, <2>4
    <2>6. QED
      BY <1>1, <2>5 DEF StateUsedOnce, LetThrough
  <1>4. \A c \in Callbacks : CallbackKnows(c)'
    BY <1>1 DEF LoginInv, CallbackKnows
  <1>5. QED
    BY <1>1, <1>2, <1>3, <1>4 DEF LoginInv, LoginUndisturbed, InCallback

(* ValidateState trades the stored state for one callback, or rejects it.  *)
LEMMA CallbackValidated ==
  ASSUME LoginInv, NEW c \in Callbacks, NEW l \in Logins, NEW match \in BOOLEAN,
         ValidateState(c, l, match)
  PROVE  LoginInv'
  <1>1. /\ cpc[c] = "idle" /\ l \in started
        /\ clogin' = [clogin EXCEPT ![c] = l]
        /\ UNCHANGED <<started, verifier, cver, spent, token, sessions, now, rpc, rsess,
                       loggedOut>>
    BY DEF ValidateState
  <1>2. CASE /\ stateHeld /\ stateHeld' = FALSE
             /\ cpc' = [cpc EXCEPT ![c] = "validated"]
             /\ crowded' = TRUE
    <2>1. TypeOK'
      BY <1>1, <1>2 DEF LoginInv, TypeOK, CallbackPc
    <2>2. StateUsedOnce'
      <3>1. Cardinality(LetThrough) + 1 <= Cardinality(started)
        BY <1>2 DEF LoginInv, StateUsedOnce, LetThrough
      <3>2. LetThrough' = LetThrough \cup {c} /\ c \notin LetThrough
        BY <1>1, <1>2 DEF LoginInv, TypeOK, LetThrough
      <3>3. Cardinality(LetThrough') = Cardinality(LetThrough) + 1
        BY <3>2, CountedSets, FS_AddElement DEF LoginInv
      <3>4. QED
        BY <1>1, <1>2, <3>1, <3>3, CountedSets DEF StateUsedOnce, LetThrough, LoginInv
    <2>3. \A d \in Callbacks : CallbackKnows(d)'
      BY <1>1, <1>2 DEF LoginInv, TypeOK, CallbackKnows
    <2>4. QED
      BY <1>2, <2>1, <2>2, <2>3 DEF LoginInv, LoginUndisturbed
  <1>3. CASE /\ stateHeld' = stateHeld
             /\ cpc' = [cpc EXCEPT ![c] = "rejected"]
             /\ crowded' = crowded
    <2>1. TypeOK'
      BY <1>1, <1>3 DEF LoginInv, TypeOK, CallbackPc
    <2>2. LetThrough' = LetThrough
      BY <1>1, <1>3 DEF LoginInv, TypeOK, LetThrough
    <2>3. StateUsedOnce'
      BY <1>1, <1>3, <2>1, <2>2, SameCount
    <2>4. \A d \in Callbacks : CallbackKnows(d)'
      BY <1>1, <1>3 DEF LoginInv, TypeOK, CallbackKnows
    <2>5. QED
      BY <1>1, <1>3, <2>1, <2>3, <2>4 DEF LoginInv, TypeOK, LoginUndisturbed, InCallback
  <1>4. QED
    BY <1>2, <1>3 DEF ValidateState, StateAfterMatch, StateAfterMismatch

(* A step of a validated callback up to its deferred DeleteState. *)
LEMMA CallbackProceeds ==
  ASSUME LoginInv, NEW c \in Callbacks, NEW ok \in BOOLEAN,
         GetVerifier(c) \/ Exchange(c) \/ StoreToken(c, ok) \/ DeleteState(c)
  PROVE  LoginInv'
  <1>1. /\ InCallback(c) /\ crowded
        /\ UNCHANGED <<started, clogin, sessions, now, rpc, rsess, loggedOut, crowded>>
    BY DEF GetVerifier, Exchange, StoreToken, DeleteState, InCallback, LoginInv
  <1>2. clogin[c] \in Logins /\ clogin[c] # Nothing
    BY <1>1, LoginNames DEF LoginInv, TypeOK, CallbackKnows, InCallback
  <1>3. PICK p \in {"verified", "exchanged", "succeeding", "failing", "authenticated", "failed"} :
          /\ cpc' = [cpc EXCEPT ![c] = p]
          /\ p \in {"succeeding", "authenticated"} => token' # Nothing
    BY <1>2 DEF GetVerifier, NoVerifier, Exchange, StoreToken, AfterStore, DeleteState, LoginInv,
       TypeOK, CallbackKnows
  <1>4. token' = token \/ token' = clogin[c]
    BY DEF GetVerifier, Exchange, StoreToken, DeleteState
  <1>5. stateHeld' = stateHeld \/ stateHeld' = FALSE
    BY DEF GetVerifier, Exchange, StoreToken, DeleteState
  <1>6. TypeOK'
    <2>1. verifier' \in Logins \cup {Nothing} /\ cver' \in [Callbacks -> Logins \cup {Nothing}]
      BY DEF GetVerifier, Exchange, StoreToken, DeleteState, LoginInv, TypeOK
    <2>2. spent' \subseteq Logins
      BY <1>2 DEF GetVerifier, Exchange, StoreToken, DeleteState, LoginInv, TypeOK
    <2>3. QED
      BY <1>1, <1>2, <1>3, <1>4, <1>5, <2>1, <2>2 DEF LoginInv, TypeOK, CallbackPc
  <1>7. StateUsedOnce'
    <2>1. LetThrough' = LetThrough
      BY <1>1, <1>3 DEF LoginInv, TypeOK, LetThrough, InCallback
    <2>2. QED
      BY <1>1, <1>5, <1>6, <2>1, SameCount
  <1>8. \A d \in Callbacks : CallbackKnows(d)'
    BY <1>1, <1>2, <1>3, <1>4 DEF LoginInv, TypeOK, CallbackKnows, InCallback
  <1>9. QED
    BY <1>1, <1>6, <1>7, <1>8 DEF LoginInv, LoginUndisturbed

(* The session is created, after HandleCallback has returned its token. *)
LEMMA SessionCreated ==
  ASSUME LoginInv, NEW c \in Callbacks, NEW ok \in BOOLEAN, CreateSession(c, ok)
  PROVE  LoginInv'
  <1>1. /\ cpc[c] = "authenticated"
        /\ sessions' = [sessions EXCEPT ![c] = IF ok THEN now + SessionLife ELSE 0]
        /\ cpc' = [cpc EXCEPT ![c] = IF ok THEN "done" ELSE "failed"]
        /\ UNCHANGED <<started, stateHeld, verifier, clogin, cver, spent, token, now, rpc, rsess,
                       loggedOut, crowded>>
    BY DEF CreateSession, Expiry
  <1>2. now + SessionLife \in 0..(MaxTime + SessionLife)
    BY LoginTimes DEF LoginInv, TypeOK
  <1>3. TypeOK'
    <2>1. sessions' \in [Callbacks -> 0..(MaxTime + SessionLife)]
      BY <1>1, <1>2, LoginTimes DEF LoginInv, TypeOK
    <2>2. QED
      BY <1>1, <2>1 DEF LoginInv, TypeOK, CallbackPc
  <1>4. LetThrough' = LetThrough
    BY <1>1 DEF LoginInv, TypeOK, LetThrough
  <1>5. StateUsedOnce'
    BY <1>1, <1>3, <1>4, SameCount
  <1>6. \A d \in Callbacks : CallbackKnows(d)'
    BY <1>1 DEF LoginInv, TypeOK, CallbackKnows
  <1>7. QED
    BY <1>1, <1>3, <1>5, <1>6 DEF LoginInv, TypeOK, LoginUndisturbed, InCallback

(* Logout, requests, the clock and whoever stores a verifier. *)
LEMMA OthersProceed ==
  ASSUME LoginInv,
         \/ Tick
         \/ \E c \in Callbacks : handleLogout(c)
         \/ \E r \in Requests : Serve(r) \/ \E c \in Callbacks : requireAuth(r, c)
         \/ \E l \in Logins : StoreVerifier(l)
         \/ UNCHANGED loginVars
  PROVE  LoginInv'
  <1>1. UNCHANGED <<started, stateHeld, cpc, clogin, cver, spent, token, crowded>>
    BY DEF Tick, handleLogout, Serve, requireAuth, StoreVerifier, loginVars
  <1>2. TypeOK'
    <2>1. verifier' \in Logins \cup {Nothing}
      BY DEF Tick, handleLogout, Serve, requireAuth, StoreVerifier, loginVars, LoginInv, TypeOK
    <2>2. now' \in 1..MaxTime
      BY LoginTimes
      DEF Tick, handleLogout, Serve, requireAuth, StoreVerifier, loginVars, LoginInv, TypeOK
    <2>3. sessions' \in [Callbacks -> 0..(MaxTime + SessionLife)] /\ loggedOut' \subseteq Callbacks
      BY LoginTimes
      DEF Tick, handleLogout, SessionsWithout, Serve, requireAuth, StoreVerifier, loginVars,
          LoginInv, TypeOK
    <2>4. rpc' \in [Requests -> RequestPc] /\ rsess' \in [Requests -> Callbacks \cup {Nothing}]
      BY DEF Tick, handleLogout, Serve, requireAuth, Get, StoreVerifier, loginVars, LoginInv,
         TypeOK, RequestPc
    <2>5. QED
      BY <1>1, <2>1, <2>2, <2>3, <2>4 DEF LoginInv, TypeOK
  <1>3. StateUsedOnce'
    BY <1>1, <1>2, SameCount DEF LetThrough
  <1>4. \A d \in Callbacks : CallbackKnows(d)'
    <2>1. \/ UNCHANGED <<sessions, loggedOut>>
          \/ \E c \in Callbacks : /\ cpc[c] = "done"
                                  /\ sessions' = [sessions EXCEPT ![c] = 0]
                                  /\ loggedOut' = loggedOut \cup {c}
      BY DEF Tick, handleLogout, SessionsWithout, Serve, requireAuth, StoreVerifier, loginVars
    <2>2. QED
      BY <1>1, <2>1 DEF LoginInv, TypeOK, CallbackKnows
  <1>5. QED
    BY <1>1, <1>2, <1>3, <1>4 DEF LoginInv, LoginUndisturbed, InCallback

(* The invariant is inductive. *)
LEMMA LoginStep == LoginInv /\ [LoginNext]_loginVars => LoginInv'
  <1> SUFFICES ASSUME LoginInv, [LoginNext]_loginVars PROVE LoginInv'
    OBVIOUS
  <1>1. ASSUME NEW c \in Callbacks, CallbackStep(c) PROVE LoginInv'
    BY <1>1, CallbackProceeds, SessionCreated DEF CallbackStep
  <1>2. QED
    BY <1>1, LoginStarts, CallbackValidated, OthersProceed DEF LoginNext, ServerNext

(* LoginInv holds of every reachable state. *)
THEOREM LoginSafe == LoginSpec => []LoginInv
  BY LoginInit, LoginStep, PTL DEF LoginSpec

(* The stores, the callbacks and the requests keep their types. *)
THEOREM LoginTypeCorrect == LoginSpec => []TypeOK
  <1>1. LoginInv => TypeOK
    BY DEF LoginInv
  <1>2. QED
    BY <1>1, LoginSafe, PTL

(* However many callbacks race, ValidateState lets through no more than    *)
(* there have been logins.                                                 *)
THEOREM StateSafe == LoginSpec => []StateUsedOnce
  <1>1. LoginInv => StateUsedOnce
    BY DEF LoginInv
  <1>2. QED
    BY <1>1, LoginSafe, PTL

(* Only the deferred DeleteState of a callback validated earlier takes the *)
(* state of a login in progress.                                           *)
THEOREM UndisturbedSafe == LoginSpec => []LoginUndisturbed
  <1>1. LoginInv => LoginUndisturbed
    BY DEF LoginInv
  <1>2. QED
    BY <1>1, LoginSafe, PTL

(* handleAuthCallback creates no session before StoreToken has succeeded.  *)
THEOREM SessionSafe == LoginSpec => []SessionHasToken
  <1>1. LoginInv => SessionHasToken
    BY DEF LoginInv, SessionHasToken, CallbackKnows
  <1>2. QED
    BY <1>1, LoginSafe, PTL

(* requireAuth admits a request only with a session that is neither logged *)
(* out nor expired.                                                        *)
THEOREM AdmissionSafe == LoginSpec => AdmissionIsCurrent
  <1>1. ASSUME LoginInv, [LoginNext]_loginVars, NEW r \in Requests,
               rpc[r] = "idle", rpc'[r] = "admitted"
        PROVE  rsess'[r] \notin loggedOut /\ now <= sessions[rsess'[r]]
    <2>1. PICK q \in Requests, c \in Callbacks : requireAuth(q, c)
      <3>1. CASE \E q \in Requests : Serve(q)
        BY <1>1, <3>1 DEF Serve, LoginInv, TypeOK
      <3>2. CASE ~\E q \in Requests : Serve(q) \/ \E c \in Callbacks : requireAuth(q, c)
        <4>1. rpc' = rpc
          BY <1>1, <3>2 DEF LoginNext, ServerNext, CallbackStep, loginVars, Tick, handleLogin,
             handleLogout, GetVerifier, Exchange, DeleteState, StoreToken, CreateSession,
             ValidateState, StoreVerifier
        <4>2. QED
          BY <1>1, <4>1
      <3>3. QED
        BY <3>1, <3>2
    <2>2. q = r
      BY <1>1, <2>1 DEF requireAuth, LoginInv, TypeOK
    <2>3. Get(c) = "admitted" /\ rsess'[r] = c
      BY <1>1, <2>1, <2>2 DEF requireAuth, LoginInv, TypeOK
    <2>4. sessions[c] # 0 /\ ~(now > sessions[c])
      BY <2>3 DEF Get
    <2>5. sessions[c] \in Int /\ now \in Int
      BY <1>1, LoginTimes DEF LoginInv, TypeOK
    <2>6. QED
      BY <1>1, <2>3, <2>4, <2>5 DEF LoginInv, CallbackKnows
  <1>2. LoginInv /\ [LoginNext]_loginVars =>
          [\A r \in Requests :
             rpc[r] = "idle" /\ rpc'[r] = "admitted" =>
               rsess'[r] \notin loggedOut /\ now <= sessions[rsess'[r]]]_loginVars
    BY <1>1
  <1>3. QED
    BY <1>2, LoginSafe, PTL DEF LoginSpec, AdmissionIsCurrent

-----------------------------------------------------------------------------
(* The server as it is, where nobody calls StoreVerifier.                  *)

(* No callback ever holds a verifier, a token or a session. *)
Unverified ==
  /\ cpc \in [Callbacks -> {"idle", "validated", "failing", "failed", "rejected"}]
  /\ sessions = [c \in Callbacks |-> 0]
  /\ verifier = Nothing /\ token = Nothing

(* GetAuthURL drops the verifier it generates, so GetVerifier fails every  *)
(* callback: no token is ever stored and no session ever created.          *)
THEOREM NoLoginSucceeds == ServerSpec => []Unverified
  <1>1. Init => Unverified
    BY DEF Init, Unverified
  <1>2. Unverified /\ [ServerNext]_loginVars => Unverified'
    <2> SUFFICES ASSUME Unverified, [ServerNext]_loginVars PROVE Unverified'
      OBVIOUS
    <2>1. ASSUME NEW c \in Callbacks, CallbackStep(c) \/ handleLogout(c) PROVE Unverified'
      BY <2>1 DEF Unverified, CallbackStep, GetVerifier, NoVerifier, Exchange, DeleteState,
         StoreToken, CreateSession, handleLogout
    <2>2. ASSUME NEW c \in Callbacks, NEW l \in Logins, NEW match \in BOOLEAN,
                 ValidateState(c, l, match)
          PROVE  Unverified'
      BY <2>2 DEF Unverified, ValidateState
    <2>3. CASE \/ Tick
               \/ \E l \in Logins : handleLogin(l)
               \/ \E r \in Requests : Serve(r) \/ \E c \in Callbacks : requireAuth(r, c)
               \/ UNCHANGED loginVars
      BY <2>3 DEF Unverified, Tick, handleLogin, Serve, requireAuth, loginVars
    <2>4. QED
      BY <2>1, <2>2, <2>3 DEF ServerNext
  <1>3. QED
    BY <1>1, <1>2, PTL DEF ServerSpec
=============================================================================
