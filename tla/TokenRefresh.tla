---------------------------- MODULE TokenRefresh ----------------------------
(***************************************************************************)
(* The stored OAuth token of one user and everything that writes it:       *)
(* TokenRefreshService.refreshUserToken with OAuthManager.RefreshToken     *)
(* (internal/auth), TokenRefreshService.HandleTokenRefresh                 *)
(* (internal/scheduler), OAuthManager.HandleCallback and RevokeToken.      *)
(*                                                                         *)
(* TokenStore and SQLiteStorage lock nothing across a read and the write   *)
(* that follows it: a job reads the row, talks to the provider and         *)
(* replaces the row, and other jobs, logins and revocations fall between.  *)
(*                                                                         *)
(* A token is the grant (the login that authorised it) it belongs to, its  *)
(* expiry and whether it carries a refresh token.                          *)
(***************************************************************************)
EXTENDS Naturals

CONSTANTS
  Grants,     \* the logins that authorise the application
  AuthJobs,   \* runs of auth.TokenRefreshService.refreshUserToken
  SchedJobs,  \* runs of scheduler.TokenRefreshService.HandleTokenRefresh
  NoToken,    \* no row in the tokens table
  Life,       \* how long an access token lives
  Window,     \* the five minutes of refreshUserToken
  Delta,      \* the ten seconds Token.Valid takes off the expiry
  MaxTime     \* bound on the clock

Jobs == AuthJobs \cup SchedJobs
Tokens == [grant : Grants, exp : 0..(MaxTime + Life), refresh : BOOLEAN]

ASSUME JobKinds == AuthJobs \cap SchedJobs = {}
ASSUME RowNames == NoToken \notin Tokens
ASSUME TokenTimes ==
  /\ Life \in Nat /\ Window \in Nat /\ Delta \in Nat /\ MaxTime \in Nat
  /\ Delta < Window /\ Window < Life

VARIABLES
  row,      \* the user's row of the tokens table, decrypted
  now,      \* the current time
  jpc,      \* jpc[j]: where job j is
  jtok,     \* jtok[j]: the token it read last
  jnew,     \* jnew[j]: the token it is about to store
  gpc,      \* gpc[g]: where the callback of grant g is
  gtok,     \* gtok[g]: the token the provider gave it
  issued,   \* the provider's: the grants that came with a refresh token
  raced     \* history: raced[j]: the row was written since j read it last

tokenVars == <<row, now, jpc, jtok, jnew, gpc, gtok, issued, raced>>

JobPc == {"idle", "read", "due", "fetched", "stored", "current", "failed"}
GrantPc == {"idle", "exchanged", "stored", "failed"}

TypeOK ==
  /\ row \in Tokens \cup {NoToken}
  /\ now \in 0..MaxTime
  /\ jpc \in [Jobs -> JobPc]
  /\ jtok \in [Jobs -> Tokens \cup {NoToken}]
  /\ jnew \in [Jobs -> Tokens \cup {NoToken}]
  /\ gpc \in [Grants -> GrantPc]
  /\ gtok \in [Grants -> Tokens \cup {NoToken}]
  /\ issued \subseteq Grants
  /\ raced \in [Jobs -> BOOLEAN]

Init ==
  /\ row = NoToken
  /\ now = 0
  /\ jpc = [j \in Jobs |-> "idle"]
  /\ jtok = [j \in Jobs |-> NoToken]
  /\ jnew = [j \in Jobs |-> NoToken]
  /\ gpc = [g \in Grants |-> "idle"]
  /\ gtok = [g \in Grants |-> NoToken]
  /\ issued = {}
  /\ raced = [j \in Jobs |-> FALSE]

(* Token.Valid. *)
Valid(t) == t.exp >= now + Delta

(* StoreToken, DeleteToken: the row is replaced by t, or left on an error. *)
WriteRow(t, ok) ==
  /\ row' = IF ok THEN t ELSE row
  /\ raced' = IF ok THEN [j \in Jobs |-> TRUE] ELSE raced

-----------------------------------------------------------------------------
(* getToken of refreshUserToken, GetToken of HandleTokenRefresh. *)
Read(j, ok) ==
  /\ jpc[j] = "idle"
  /\ jtok' = [jtok EXCEPT ![j] = row]
  /\ jpc' = [jpc EXCEPT ![j] = IF ok /\ row # NoToken THEN "read" ELSE "failed"]
  /\ raced' = [raced EXCEPT ![j] = FALSE]
  /\ UNCHANGED <<row, now, jnew, gpc, gtok, issued>>

(* refreshUserToken leaves a token with more than five minutes to live     *)
(* alone.                                                                  *)
StillValid(j) ==
  /\ j \in AuthJobs /\ jpc[j] = "read"
  /\ jtok[j].exp > now + Window
  /\ jpc' = [jpc EXCEPT ![j] = "current"]
  /\ UNCHANGED <<row, now, jtok, jnew, gpc, gtok, issued, raced>>

(* RefreshToken reads the token again. *)
FirstRead(j) == jtok[j]  \* mutant
CurrentRow(j) == row
RefreshToken(j, ok) ==
  /\ j \in AuthJobs /\ jpc[j] = "read"
  /\ jtok[j].exp <= now + Window
  /\ jtok' = [jtok EXCEPT ![j] = CurrentRow(j)]
  /\ jpc' = [jpc EXCEPT ![j] = IF ok /\ row # NoToken /\ row.refresh THEN "due" ELSE "failed"]
  /\ raced' = [raced EXCEPT ![j] = FALSE]
  /\ UNCHANGED <<row, now, jnew, gpc, gtok, issued>>

(* HandleTokenRefresh leaves a valid token alone and refreshes the others. *)
CheckValid(j) ==
  /\ j \in SchedJobs /\ jpc[j] = "read"
  /\ jpc' = [jpc EXCEPT ![j] = IF Valid(jtok[j]) THEN "current" ELSE "due"]
  /\ UNCHANGED <<row, now, jtok, jnew, gpc, gtok, issued, raced>>

(* The token tokenSource.Token() answers with: the one it was made from    *)
(* while that is valid, and one from the provider afterwards.  The source  *)
(* that Config makes keeps the refresh token when the provider sends none; *)
(* one that SetTokenSource installs in the manager may not.                *)
Answers(j) ==
  IF Valid(jtok[j]) THEN {jtok[j]}
  ELSE IF ~jtok[j].refresh THEN {}
  ELSE {[grant |-> jtok[j].grant, exp |-> now + Life, refresh |-> r] :
          r \in IF j \in AuthJobs THEN BOOLEAN ELSE {TRUE}}

(* "Preserve the refresh token if the new token doesn't have one." *)
AsAnswered(j, t) == t  \* mutant
WithWindow(j, t) ==      \* mutant
  [grant |-> t.grant, exp |-> t.exp + Window, refresh |-> TRUE]
Preserved(j, t) ==
  [grant |-> t.grant, exp |-> t.exp,
   refresh |-> t.refresh \/ (j \in AuthJobs /\ jtok[j].refresh)]

Fetch(j) ==
  /\ jpc[j] = "due"
  /\ \/ \E t \in Answers(j) :
          /\ jnew' = [jnew EXCEPT ![j] = Preserved(j, t)]
          /\ jpc' = [jpc EXCEPT ![j] = "fetched"]
     \/ /\ jpc' = [jpc EXCEPT ![j] = "failed"]
        /\ UNCHANGED jnew
  /\ UNCHANGED <<row, now, jtok, gpc, gtok, issued, raced>>

StoreRefreshed(j, ok) ==
  /\ jpc[j] = "fetched"
  /\ WriteRow(jnew[j], ok)
  /\ jpc' = [jpc EXCEPT ![j] = IF ok THEN "stored" ELSE "failed"]
  /\ UNCHANGED <<now, jtok, jnew, gpc, gtok, issued>>

-----------------------------------------------------------------------------
(* HandleCallback: the provider's answer to the exchange, with a refresh   *)
(* token or without one, and its storing.                                  *)
Exchange(g, r) ==
  /\ gpc[g] = "idle"
  /\ gtok' = [gtok EXCEPT ![g] = [grant |-> g, exp |-> now + Life, refresh |-> r]]
  /\ issued' = IF r THEN issued \cup {g} ELSE issued
  /\ gpc' = [gpc EXCEPT ![g] = "exchanged"]
  /\ UNCHANGED <<row, now, jpc, jtok, jnew, raced>>

StoreToken(g, ok) ==
  /\ gpc[g] = "exchanged"
  /\ WriteRow(gtok[g], ok)
  /\ gpc' = [gpc EXCEPT ![g] = IF ok THEN "stored" ELSE "failed"]
  /\ UNCHANGED <<now, jpc, jtok, jnew, gtok, issued>>

RevokeToken ==
  /\ row # NoToken
  /\ WriteRow(NoToken, TRUE)
  /\ UNCHANGED <<now, jpc, jtok, jnew, gpc, gtok, issued>>

Tick ==
  /\ now < MaxTime
  /\ now' = now + 1
  /\ UNCHANGED <<row, jpc, jtok, jnew, gpc, gtok, issued, raced>>

-----------------------------------------------------------------------------
Next ==
  \/ \E j \in Jobs :
       \/ StillValid(j) \/ CheckValid(j) \/ Fetch(j)
       \/ \E ok \in BOOLEAN : Read(j, ok) \/ RefreshToken(j, ok) \/ StoreRefreshed(j, ok)
  \/ \E g \in Grants, b \in BOOLEAN : Exchange(g, b) \/ StoreToken(g, b)
  \/ RevokeToken \/ Tick

Spec == Init /\ [][Next]_tokenVars

-----------------------------------------------------------------------------
(* A refresh token is never lost, nor made up: through every interleaving  *)
(* of refreshes, logins and failures the stored token has one exactly if   *)
(* the provider gave one with its grant.                                   *)
RefreshTokenKept == row # NoToken => (row.refresh <=> row.grant \in issued)

(* A job that nobody raced since its last read only improves the row: it   *)
(* replaces a token of the same grant by one that expires no sooner, and   *)
(* brings no deleted token back.                                           *)
UnracedRefreshImproves ==
  [][\A j \in Jobs :
       jpc[j] = "fetched" /\ jpc'[j] = "stored" /\ ~raced[j] =>
         /\ row # NoToken
         /\ row'.grant = row.grant /\ row'.exp >= row.exp]_tokenVars
=============================================================================
