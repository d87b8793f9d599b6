------------------------- MODULE TokenRefreshProofs -------------------------
(***************************************************************************)
(* What holds of the stored token for any number of logins and refreshes   *)
(* and for any times.                                                      *)
(***************************************************************************)
EXTENDS TokenRefresh, TLAPS

(* A token that carries a refresh token exactly if its grant came with one.*)
Genuine(t) == t # NoToken => (t.refresh <=> t.grant \in issued)

(* What a job knows: it read a token before it went on, it refreshes only  *)
(* a token with a refresh token or a valid one, and the token it is about  *)
(* to store is of the grant it read and expires no sooner.                 *)
JobKnows(j) ==
  /\ jpc[j] \in {"read", "due", "fetched"} => jtok[j] \in Tokens
  /\ jpc[j] = "due" /\ j \in AuthJobs => jtok[j].refresh
  /\ jpc[j] = "fetched" =>
       /\ jnew[j] \in Tokens
       /\ jnew[j].grant = jtok[j].grant /\ jnew[j].exp >= jtok[j].exp
  /\ jpc[j] # "idle" /\ ~raced[j] => row = jtok[j]

(* A grant is known to the provider once its code has been exchanged, and  *)
(* only tokens of such grants are about.                                   *)
GrantKnows(g) ==
  /\ gpc[g] = "idle" => g \notin issued
  /\ gpc[g] = "exchanged" => gtok[g] \in Tokens

Exchanged(t) == t # NoToken => gpc[t.grant] # "idle"

TokenInv ==
  /\ TypeOK
  /\ Genuine(row) /\ Exchanged(row)
  /\ \A j \in Jobs : Genuine(jtok[j]) /\ Exchanged(jtok[j])
  /\ \A j \in Jobs : Genuine(jnew[j]) /\ Exchanged(jnew[j])
  /\ \A g \in Grants : Genuine(gtok[g]) /\ Exchanged(gtok[g])
  /\ \A j \in Jobs : JobKnows(j)
  /\ \A g \in Grants : GrantKnows(g)

-----------------------------------------------------------------------------
(* Answers of the token source: a token of the same grant, in range and    *)
(* expiring no sooner; once it has been through Preserved it has a refresh *)
(* token exactly if the job's token has.                                   *)
LEMMA AnswersAreFresh ==
  ASSUME TypeOK, NEW j \in Jobs, jtok[j] \in Tokens, NEW t \in Answers(j),
         j \in AuthJobs => jtok[j].refresh
  PROVE  /\ Preserved(j, t) \in Tokens
         /\ Preserved(j, t).grant = jtok[j].grant
         /\ Preserved(j, t).exp >= jtok[j].exp
         /\ Preserved(j, t).refresh <=> jtok[j].refresh
  <1>1. /\ jtok[j].grant \in Grants /\ jtok[j].exp \in 0..(MaxTime + Life)
        /\ jtok[j].refresh \in BOOLEAN /\ now \in 0..MaxTime
        /\ jtok[j] = [grant |-> jtok[j].grant, exp |-> jtok[j].exp, refresh |-> jtok[j].refresh]
    BY DEF TypeOK, Tokens
  <1>2. CASE Valid(jtok[j])
    <2>1. t = jtok[j]
      BY <1>2 DEF Answers
    <2>2. QED
      BY <2>1, <1>1, TokenTimes DEF Preserved, Tokens
  <1>3. CASE ~Valid(jtok[j])
    <2>1. jtok[j].refresh
      BY <1>3 DEF Answers
    <2>2. PICK r \in IF j \in AuthJobs THEN BOOLEAN ELSE {TRUE} :
            t = [grant |-> jtok[j].grant, exp |-> now + Life, refresh |-> r]
      BY <1>3, <2>1 DEF Answers
    <2>3. Preserved(j, t) = [grant |-> jtok[j].grant, exp |-> now + Life, refresh |-> TRUE]
      BY <2>1, <2>2 DEF Preserved
    <2>4. now + Life \in 0..(MaxTime + Life) /\ jtok[j].exp <= now + Life
      BY <1>1, <1>3, TokenTimes DEF Valid
    <2>5. QED
      BY <2>1, <2>3, <2>4, <1>1 DEF Tokens
  <1>4. QED
    BY <1>2, <1>3

(* The initial state satisfies the invariant. *)
LEMMA TokenInit == Init => TokenInv
  <1>1. 0 \in 0..MaxTime
    BY TokenTimes
  <1>2. QED
    BY <1>1, RowNames DEF Init, TokenInv, TypeOK, Genuine, Exchanged, JobKnows, GrantKnows,
       JobPc, GrantPc, Jobs

(* The two reads of a job preserve the invariant. *)
LEMMA JobReads ==
  ASSUME TokenInv, NEW j \in Jobs, NEW ok \in BOOLEAN, Read(j, ok) \/ RefreshToken(j, ok)
  PROVE  TokenInv'
  <1>1. /\ row' = row /\ now' = now /\ jnew' = jnew /\ gpc' = gpc /\ gtok' = gtok
        /\ issued' = issued
        /\ jtok' = [jtok EXCEPT ![j] = row] /\ raced' = [raced EXCEPT ![j] = FALSE]
    BY DEF Read, RefreshToken, CurrentRow
  <1>2. PICK l \in {"read", "due", "failed"} :
          /\ jpc' = [jpc EXCEPT ![j] = l]
          /\ l # "failed" => row # NoToken
          /\ l = "due" => row.refresh
    BY DEF Read, RefreshToken
  <1>3. TypeOK'
    BY <1>1, <1>2 DEF TokenInv, TypeOK, JobPc
  <1>4. \A i \in Jobs : JobKnows(i)'
    <2>1. SUFFICES ASSUME NEW i \in Jobs PROVE JobKnows(i)'
      OBVIOUS
    <2>2. CASE i = j
      BY <1>1, <1>2, <2>2 DEF TokenInv, TypeOK, JobKnows
    <2>3. CASE i # j
      BY <1>1, <1>2, <2>3 DEF TokenInv, TypeOK, JobKnows
    <2>4. QED
      BY <2>2, <2>3
  <1>5. \A i \in Jobs : Genuine(jtok[i])' /\ Exchanged(jtok[i])'
    BY <1>1 DEF TokenInv, TypeOK, Genuine, Exchanged
  <1>6. QED
    BY <1>1, <1>3, <1>4, <1>5 DEF TokenInv, Genuine, Exchanged, GrantKnows

(* So do the tests that let a job go on or stop. *)
LEMMA JobMoves ==
  ASSUME TokenInv, NEW j \in Jobs, StillValid(j) \/ CheckValid(j)
  PROVE  TokenInv'
  <1>1. UNCHANGED <<row, now, jtok, jnew, gpc, gtok, issued, raced>>
    BY DEF StillValid, CheckValid
  <1>2. PICK l \in {"current", "due"} :
          /\ jpc' = [jpc EXCEPT ![j] = l] /\ jpc[j] = "read"
          /\ l = "due" => j \notin AuthJobs
    BY JobKinds DEF StillValid, CheckValid
  <1>3. TypeOK'
    BY <1>1, <1>2 DEF TokenInv, TypeOK, JobPc
  <1>4. \A i \in Jobs : JobKnows(i)'
    BY <1>1, <1>2 DEF TokenInv, TypeOK, JobKnows
  <1>5. QED
    BY <1>1, <1>3, <1>4 DEF TokenInv, Genuine, Exchanged, GrantKnows

(* So does the answer of the token source, by AnswersAreFresh. *)
LEMMA JobFetches ==
  ASSUME TokenInv, NEW j \in Jobs, Fetch(j)
  PROVE  TokenInv'
  <1>1. UNCHANGED <<row, now, jtok, gpc, gtok, issued, raced>> /\ jpc[j] = "due"
    BY DEF Fetch
  <1>2. CASE jpc' = [jpc EXCEPT ![j] = "failed"] /\ jnew' = jnew
    <2>1. TypeOK'
      BY <1>1, <1>2 DEF TokenInv, TypeOK, JobPc
    <2>2. \A i \in Jobs : JobKnows(i)'
      BY <1>1, <1>2 DEF TokenInv, TypeOK, JobKnows
    <2>3. QED
      BY <1>1, <1>2, <2>1, <2>2 DEF TokenInv, Genuine, Exchanged, GrantKnows
  <1>3. CASE \E t \in Answers(j) :
               /\ jnew' = [jnew EXCEPT ![j] = Preserved(j, t)]
               /\ jpc' = [jpc EXCEPT ![j] = "fetched"]
    <2>1. PICK u : /\ jnew' = [jnew EXCEPT ![j] = u]
                   /\ jpc' = [jpc EXCEPT ![j] = "fetched"]
                   /\ u \in Tokens /\ u.grant = jtok[j].grant
                   /\ u.exp >= jtok[j].exp /\ (u.refresh <=> jtok[j].refresh)
      BY <1>1, <1>3, AnswersAreFresh DEF TokenInv, JobKnows
    <2>2. TypeOK'
      BY <1>1, <2>1 DEF TokenInv, TypeOK, JobPc
    <2>3. jtok[j] # NoToken
      BY <1>1, RowNames DEF TokenInv, JobKnows
    <2>4. \A i \in Jobs : Genuine(jnew[i])' /\ Exchanged(jnew[i])'
      <3>1. SUFFICES ASSUME NEW i \in Jobs PROVE Genuine(jnew[i])' /\ Exchanged(jnew[i])'
        OBVIOUS
      <3>2. CASE i = j
        <4>1. jnew'[i] = u
          BY <2>1, <3>2 DEF TokenInv, TypeOK
        <4>2. (jtok[j].refresh <=> jtok[j].grant \in issued) /\ gpc[jtok[j].grant] # "idle"
          BY <2>3 DEF TokenInv, Genuine, Exchanged
        <4>3. QED
          BY <1>1, <2>1, <4>1, <4>2 DEF Genuine, Exchanged
      <3>3. CASE i # j
        BY <1>1, <2>1, <3>3 DEF TokenInv, TypeOK, Genuine, Exchanged
      <3>4. QED
        BY <3>2, <3>3
    <2>5. \A i \in Jobs : JobKnows(i)'
      BY <1>1, <2>1 DEF TokenInv, TypeOK, JobKnows
    <2>6. QED
      BY <1>1, <2>2, <2>4, <2>5 DEF TokenInv, Genuine, Exchanged, GrantKnows
  <1>4. QED
    BY <1>2, <1>3 DEF Fetch

(* Replacing the row by a token that is in order, or by nothing, preserves *)
(* the invariant: every job has been raced then.                           *)
LEMMA JobStores ==
  ASSUME TokenInv, NEW j \in Jobs, NEW ok \in BOOLEAN, StoreRefreshed(j, ok)
  PROVE  TokenInv'
  <1>1. UNCHANGED <<now, jtok, jnew, gpc, gtok, issued>> /\ jpc[j] = "fetched"
    BY DEF StoreRefreshed
  <1>2. PICK l \in {"stored", "failed"} : jpc' = [jpc EXCEPT ![j] = l]
    BY DEF StoreRefreshed
  <1>3. (row' = row /\ raced' = raced) \/ (row' = jnew[j] /\ raced' = [i \in Jobs |-> TRUE])
    BY DEF StoreRefreshed, WriteRow
  <1>4. jnew[j] \in Tokens /\ Genuine(jnew[j]) /\ Exchanged(jnew[j])
    BY <1>1 DEF TokenInv, JobKnows
  <1>5. TypeOK'
    BY <1>1, <1>2, <1>3, <1>4 DEF TokenInv, TypeOK, JobPc
  <1>6. Genuine(row)' /\ Exchanged(row)'
    BY <1>1, <1>3, <1>4 DEF TokenInv, Genuine, Exchanged
  <1>7. \A i \in Jobs : JobKnows(i)'
    BY <1>1, <1>2, <1>3 DEF TokenInv, TypeOK, JobKnows
  <1>8. QED
    BY <1>1, <1>5, <1>6, <1>7 DEF TokenInv, Genuine, Exchanged, GrantKnows

(* So does an exchange: its grant is new to every token there is. *)
LEMMA LoginExchanges ==
  ASSUME TokenInv, NEW g \in Grants, NEW r \in BOOLEAN, Exchange(g, r)
  PROVE  TokenInv'
  <1>1. PICK u \in Tokens : /\ gtok' = [gtok EXCEPT ![g] = u]
                            /\ u.grant = g /\ u.refresh = r
    <2>1. now + Life \in 0..(MaxTime + Life)
      BY TokenTimes DEF TokenInv, TypeOK
    <2>2. [grant |-> g, exp |-> now + Life, refresh |-> r] \in Tokens
      BY <2>1 DEF Tokens
    <2>3. QED
      BY <2>2 DEF Exchange
  <1>2. /\ UNCHANGED <<row, now, jpc, jtok, jnew, raced>>
        /\ gpc[g] = "idle" /\ gpc' = [gpc EXCEPT ![g] = "exchanged"]
        /\ issued' = IF r THEN issued \cup {g} ELSE issued
    BY DEF Exchange
  <1>3. TypeOK'
    BY <1>1, <1>2 DEF TokenInv, TypeOK, GrantPc
  <1>4. ASSUME NEW t \in Tokens \cup {NoToken}, Genuine(t), Exchanged(t)
        PROVE  /\ t # NoToken => (t.refresh <=> t.grant \in issued')
               /\ t # NoToken => gpc'[t.grant] # "idle"
    <2>1. SUFFICES ASSUME t # NoToken
          PROVE (t.refresh <=> t.grant \in issued') /\ gpc'[t.grant] # "idle"
      OBVIOUS
    <2>2. t.grant \in Grants /\ t.grant # g
      BY <1>2, <1>4, <2>1 DEF Exchanged, Tokens
    <2>3. QED
      BY <1>2, <1>4, <2>1, <2>2 DEF Genuine, Exchanged, TokenInv, TypeOK
  <1>5. Genuine(row)' /\ Exchanged(row)'
    BY <1>2, <1>4 DEF TokenInv, TypeOK, Genuine, Exchanged
  <1>6. \A i \in Jobs : Genuine(jtok[i])' /\ Exchanged(jtok[i])'
    BY <1>2, <1>4 DEF TokenInv, TypeOK, Genuine, Exchanged
  <1>7. \A i \in Jobs : Genuine(jnew[i])' /\ Exchanged(jnew[i])'
    BY <1>2, <1>4 DEF TokenInv, TypeOK, Genuine, Exchanged
  <1>8. \A h \in Grants : Genuine(gtok[h])' /\ Exchanged(gtok[h])'
    <2>1. SUFFICES ASSUME NEW h \in Grants PROVE Genuine(gtok[h])' /\ Exchanged(gtok[h])'
      OBVIOUS
    <2>2. CASE h = g
      <3>1. gtok'[h] = u /\ gpc'[g] = "exchanged" /\ g \notin issued
        BY <1>1, <1>2, <2>2 DEF TokenInv, TypeOK, GrantKnows
      <3>2. QED
        BY <1>1, <1>2, <3>1 DEF Genuine, Exchanged
    <2>3. CASE h # g
      <3>1. gtok'[h] = gtok[h] /\ gtok[h] \in Tokens \cup {NoToken}
        BY <1>1, <2>3 DEF TokenInv, TypeOK
      <3>2. Genuine(gtok[h]) /\ Exchanged(gtok[h])
        BY DEF TokenInv
      <3>3. QED
        BY <1>4, <3>1, <3>2 DEF Genuine, Exchanged
    <2>4. QED
      BY <2>2, <2>3
  <1>9. \A i \in Jobs : JobKnows(i)'
    BY <1>2 DEF TokenInv, JobKnows
  <1>10. \A h \in Grants : GrantKnows(h)'
    BY <1>1, <1>2 DEF TokenInv, TypeOK, GrantKnows
  <1>11. QED
    BY <1>3, <1>5, <1>6, <1>7, <1>8, <1>9, <1>10 DEF TokenInv

(* So does the storing of a login's token. *)
LEMMA LoginStores ==
  ASSUME TokenInv, NEW g \in Grants, NEW ok \in BOOLEAN, StoreToken(g, ok)
  PROVE  TokenInv'
  <1>1. UNCHANGED <<now, jpc, jtok, jnew, gtok, issued>> /\ gpc[g] = "exchanged"
    BY DEF StoreToken
  <1>2. PICK l \in {"stored", "failed"} : gpc' = [gpc EXCEPT ![g] = l]
    BY DEF StoreToken
  <1>3. (row' = row /\ raced' = raced) \/ (row' = gtok[g] /\ raced' = [i \in Jobs |-> TRUE])
    BY DEF StoreToken, WriteRow
  <1>4. gtok[g] \in Tokens /\ Genuine(gtok[g]) /\ Exchanged(gtok[g])
    BY <1>1 DEF TokenInv, GrantKnows
  <1>6. TypeOK'
    BY <1>1, <1>2, <1>3, <1>4 DEF TokenInv, TypeOK, GrantPc
  <1>7. ASSUME NEW t \in Tokens \cup {NoToken}, Exchanged(t)
        PROVE  t # NoToken => gpc'[t.grant] # "idle"
    BY <1>2, <1>7 DEF Exchanged, Tokens, TokenInv, TypeOK
  <1>8. Genuine(row)' /\ Exchanged(row)'
    BY <1>1, <1>3, <1>4, <1>7 DEF TokenInv, TypeOK, Genuine, Exchanged
  <1>9. \A i \in Jobs : Genuine(jtok[i])' /\ Exchanged(jtok[i])'
    BY <1>1, <1>7 DEF TokenInv, TypeOK, Genuine, Exchanged
  <1>10. \A i \in Jobs : Genuine(jnew[i])' /\ Exchanged(jnew[i])'
    BY <1>1, <1>7 DEF TokenInv, TypeOK, Genuine, Exchanged
  <1>11. \A h \in Grants : Genuine(gtok[h])' /\ Exchanged(gtok[h])'
    BY <1>1, <1>7 DEF TokenInv, TypeOK, Genuine, Exchanged
  <1>12. \A i \in Jobs : JobKnows(i)'
    BY <1>1, <1>3 DEF TokenInv, TypeOK, JobKnows
  <1>13. \A h \in Grants : GrantKnows(h)'
    BY <1>1, <1>2 DEF TokenInv, TypeOK, GrantKnows
  <1>14. QED
    BY <1>6, <1>8, <1>9, <1>10, <1>11, <1>12, <1>13 DEF TokenInv

(* A revocation, a tick of the clock and a stuttering step preserve it. *)
LEMMA OthersPreserve ==
  ASSUME TokenInv, RevokeToken \/ Tick \/ UNCHANGED tokenVars
  PROVE  TokenInv'
  <1>1. CASE RevokeToken
    <2>1. /\ UNCHANGED <<now, jpc, jtok, jnew, gpc, gtok, issued>>
          /\ row' = NoToken /\ raced' = [i \in Jobs |-> TRUE]
      BY <1>1 DEF RevokeToken, WriteRow
    <2>2. TypeOK'
      BY <2>1 DEF TokenInv, TypeOK
    <2>3. \A i \in Jobs : JobKnows(i)'
      BY <2>1 DEF TokenInv, JobKnows
    <2>4. QED
      BY <2>1, <2>2, <2>3 DEF TokenInv, Genuine, Exchanged, GrantKnows
  <1>2. CASE Tick
    <2>1. UNCHANGED <<row, jpc, jtok, jnew, gpc, gtok, issued, raced>>
      BY <1>2 DEF Tick
    <2>2. now' \in 0..MaxTime
      BY <1>2, TokenTimes DEF Tick, TokenInv, TypeOK
    <2>3. TypeOK'
      BY <2>1, <2>2 DEF TokenInv, TypeOK
    <2>4. QED
      BY <2>1, <2>3 DEF TokenInv, Genuine, Exchanged, JobKnows, GrantKnows
  <1>3. CASE UNCHANGED tokenVars
    BY <1>3 DEF tokenVars, TokenInv, TypeOK, Genuine, Exchanged, JobKnows, GrantKnows
  <1>4. QED
    BY <1>1, <1>2, <1>3

(* Every step preserves the invariant. *)
LEMMA TokenStep == TokenInv /\ [Next]_tokenVars => TokenInv'
  BY JobReads, JobMoves, JobFetches, JobStores, LoginExchanges, LoginStores, OthersPreserve
  DEF Next

(* The invariant of the stored token, its readers and its writers. *)
THEOREM TokenInvariant == Spec => []TokenInv
  BY TokenInit, TokenStep, PTL DEF Spec

(* The token, the jobs and the logins keep their types. *)
THEOREM TokenTypeCorrect == Spec => []TypeOK
  <1>1. TokenInv => TypeOK
    BY DEF TokenInv
  <1>2. QED
    BY <1>1, TokenInvariant, PTL

(* No interleaving of refreshUserToken, HandleTokenRefresh, HandleCallback *)
(* and RevokeToken loses a refresh token or makes one up.                  *)
THEOREM RefreshTokenSafe == Spec => []RefreshTokenKept
  <1>1. TokenInv => RefreshTokenKept
    BY DEF TokenInv, Genuine, RefreshTokenKept
  <1>2. QED
    BY <1>1, TokenInvariant, PTL

(* A refresh that nobody raced improves the row it replaces. *)
THEOREM UnracedRefreshSafe == Spec => UnracedRefreshImproves
  <1>1. ASSUME TokenInv, [Next]_tokenVars, NEW j \in Jobs,
               jpc[j] = "fetched", jpc'[j] = "stored", ~raced[j]
        PROVE  row # NoToken /\ row'.grant = row.grant /\ row'.exp >= row.exp
    <2>1. StoreRefreshed(j, TRUE)
      <3>1. PICK i \in Jobs, ok \in BOOLEAN : StoreRefreshed(i, ok)
        BY <1>1 DEF Next, tokenVars, TokenInv, TypeOK, StillValid, CheckValid, Fetch, Read,
           RefreshToken, Exchange, StoreToken, RevokeToken, Tick
      <3>2. QED
        BY <1>1, <3>1 DEF StoreRefreshed, TokenInv, TypeOK
    <2>2. row' = jnew[j]
      BY <2>1 DEF StoreRefreshed, WriteRow
    <2>3. QED
      BY <1>1, <2>2, RowNames DEF TokenInv, JobKnows
  <1>2. TokenInv /\ [Next]_tokenVars =>
          [\A j \in Jobs :
             jpc[j] = "fetched" /\ jpc'[j] = "stored" /\ ~raced[j] =>
               /\ row # NoToken
               /\ row'.grant = row.grant /\ row'.exp >= row.exp]_tokenVars
    BY <1>1
  <1>3. QED
    BY <1>2, TokenInvariant, PTL DEF Spec, UnracedRefreshImproves
=============================================================================
