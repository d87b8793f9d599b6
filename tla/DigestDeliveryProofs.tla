------------------------ MODULE DigestDeliveryProofs ------------------------
(***************************************************************************)
(* What holds of digest runs for any number of runs and messages.          *)
(***************************************************************************)
EXTENDS DigestDelivery, TLAPS

(* A run that has not listed yet has nothing in hand; the message it is    *)
(* about to mark is in its digest.                                         *)
RunKnows(r) ==
  /\ pc[r] \in {"idle", "started", "authorized", "ready"} => digest[r] = {}
  /\ pc[r] = "marking" => cur[r] \in digest[r]

(* No run survives the process. *)
Process == ~up => \A r \in Runs : ~InProgress(r)

(* A message in a digest has been marked, could not be, or is about to be. *)
Marked(r) ==
  \A e \in digest[r] :
    \/ e \notin unread
    \/ e \in kept
    \/ cur[r] = e /\ pc[r] = "marking"

(* What a run that was over when r listed had fetched, r neither has nor   *)
(* will look at, unless it could not be marked.                            *)
Apart(q, r) ==
  q \in before[r] =>
    /\ Over(q)
    /\ digest[q] \cap (todo[r] \cup digest[r]) \subseteq kept

DigestInv ==
  /\ TypeOK
  /\ Process
  /\ ReadIsInADigest
  /\ \A r \in Runs : RunKnows(r) /\ Marked(r)
  /\ \A q, r \in Runs : Apart(q, r)

(* The chat of a run in progress is among those connected since it was     *)
(* requested, so what it read and where its digest went are as well.       *)
ChatKnown(r) ==
  /\ pc[r] = "idle" => rchat[r] = NoChat /\ inbox[r] = NoChat
  /\ InProgress(r) => chat \in during[r]
  /\ rchat[r] # NoChat => rchat[r] \in during[r]
  /\ inbox[r] # NoChat => inbox[r] \in during[r]

-----------------------------------------------------------------------------
(* The initial state satisfies the invariant. *)
LEMMA DigestInit == Init => DigestInv
  BY DEF Init, DigestInv, TypeOK, RunPc, Process, ReadIsInADigest, RunKnows,
     Marked, Apart, Over, InProgress

(* A step of r that moves it along, or ends it, and touches at most the    *)
(* chat it read: the stages before the list and after the fetch.           *)
LEMMA StageStep ==
  ASSUME DigestInv, NEW r \in Runs,
         handleDigestNow(r) \/ GetToken(r) \/ GetUserByID(r) \/ FetchReturns(r) \/ Summarize(r)
  PROVE  DigestInv'
  <1>1. /\ UNCHANGED <<up, token, chat, arrived, unread, todo, cur, digest, inbox, kept, before>>
        /\ rchat' = rchat \/ rchat' = [rchat EXCEPT ![r] = chat]
        /\ during' = during \/ during' = [during EXCEPT ![r] = {chat}]
    BY DEF handleDigestNow, GetToken, GetUserByID, ChatOf, FetchReturns, Summarize, Fail, World
  <1>2. PICK l \in {"started", "authorized", "ready", "fetched", "summarized", "failed"} :
          /\ pc' = [pc EXCEPT ![r] = l]
          /\ up \/ pc[r] # "idle"
          /\ ~Over(r) /\ pc[r] # "marking"
          /\ l \in {"started", "authorized", "ready"} =>
               pc[r] \in {"idle", "started", "authorized", "ready"}
    BY DEF handleDigestNow, GetToken, GetUserByID, FetchReturns, Summarize, Fail, To, Over
  <1>3. TypeOK'
    BY <1>1, <1>2 DEF DigestInv, TypeOK, RunPc
  <1>4. Process'
    BY <1>1, <1>2 DEF DigestInv, TypeOK, Process, Over, InProgress
  <1>5. \A q \in Runs : RunKnows(q)' /\ Marked(q)'
    BY <1>1, <1>2 DEF DigestInv, TypeOK, RunKnows, Marked, Over
  <1>6. \A p, q \in Runs : Apart(p, q)'
    BY <1>1, <1>2 DEF DigestInv, TypeOK, Apart, Over
  <1>7. QED
    BY <1>1, <1>3, <1>4, <1>5, <1>6 DEF DigestInv, ReadIsInADigest

(* The list: every run that is over has marked what it fetched, so nothing *)
(* of it is listed again.                                                  *)
LEMMA ListStep ==
  ASSUME DigestInv, NEW r \in Runs, ListUnread(r)
  PROVE  DigestInv'
  <1>1. /\ pc[r] = "ready" /\ up
        /\ UNCHANGED <<up, token, chat, arrived, unread, rchat, cur, digest, inbox, kept, during>>
    BY DEF ListUnread, Fail, World, DigestInv, Process, Over, InProgress
  <1>2. CASE Fail(r)
    <2>1. pc' = [pc EXCEPT ![r] = "failed"] /\ todo' = todo /\ before' = before
      BY <1>2 DEF Fail, To
    <2>2. TypeOK' /\ Process'
      BY <1>1, <2>1 DEF DigestInv, TypeOK, RunPc, Process, Over, InProgress
    <2>3. \A q \in Runs : RunKnows(q)' /\ Marked(q)'
      BY <1>1, <2>1 DEF DigestInv, TypeOK, RunKnows, Marked
    <2>4. \A p, q \in Runs : Apart(p, q)'
      BY <1>1, <2>1 DEF DigestInv, TypeOK, Apart, Over
    <2>5. QED
      BY <1>1, <2>2, <2>3, <2>4 DEF DigestInv, ReadIsInADigest
  <1>3. CASE /\ pc' = [pc EXCEPT ![r] = "fetching"]
             /\ todo' = [todo EXCEPT ![r] = unread]
             /\ before' = [before EXCEPT ![r] = {q \in Runs : Over(q)}]
    <2>1. digest[r] = {}
      BY <1>1 DEF DigestInv, RunKnows
    <2>2. TypeOK' /\ Process'
      BY <1>1, <1>3, <2>1 DEF DigestInv, TypeOK, RunPc, Process, Over, InProgress
    <2>3. \A q \in Runs : RunKnows(q)' /\ Marked(q)'
      BY <1>1, <1>3 DEF DigestInv, TypeOK, RunKnows, Marked
    <2>4. \A q \in Runs : Over(q) => digest[q] \cap unread \subseteq kept
      BY <1>1 DEF DigestInv, Marked, Process, Over, InProgress
    <2>5. ASSUME NEW p \in Runs, NEW q \in Runs PROVE Apart(p, q)'
      <3>1. CASE q = r
        BY <1>1, <1>3, <2>1, <2>4, <3>1 DEF DigestInv, TypeOK, Apart, Over
      <3>2. CASE q # r
        BY <1>1, <1>3, <3>2 DEF DigestInv, TypeOK, Apart, Over
      <3>3. QED
        BY <3>1, <3>2
    <2>6. QED
      BY <1>1, <2>2, <2>3, <2>5 DEF DigestInv, ReadIsInADigest
  <1>4. QED
    BY <1>2, <1>3 DEF ListUnread, To

(* A message of the list is got or left out. *)
LEMMA GetStep ==
  ASSUME DigestInv, NEW r \in Runs, NEW e \in Emails, NEW ok \in BOOLEAN, GetMessage(r, e, ok)
  PROVE  DigestInv'
  <1>1. /\ pc[r] = "fetching" /\ e \in todo[r]
        /\ todo' = [todo EXCEPT ![r] = todo[r] \ {e}]
        /\ UNCHANGED <<up, token, chat, arrived, unread, rchat, inbox, kept, before, during>>
    BY DEF GetMessage, Rest, UnreadAfterSkipped, World
  <1>2. CASE UNCHANGED <<pc, digest, cur>>
    <2>1. TypeOK'
      BY <1>1, <1>2 DEF DigestInv, TypeOK
    <2>2. \A q \in Runs : RunKnows(q)' /\ Marked(q)'
      BY <1>1, <1>2 DEF DigestInv, RunKnows, Marked
    <2>3. \A p, q \in Runs : Apart(p, q)'
      BY <1>1, <1>2 DEF DigestInv, TypeOK, Apart, Over
    <2>4. QED
      BY <1>1, <1>2, <2>1, <2>2, <2>3 DEF DigestInv, Process, Over, InProgress, ReadIsInADigest
  <1>3. CASE /\ pc' = [pc EXCEPT ![r] = "marking"]
             /\ digest' = [digest EXCEPT ![r] = @ \cup {e}]
             /\ cur' = [cur EXCEPT ![r] = e]
    <2>1. TypeOK'
      BY <1>1, <1>3 DEF DigestInv, TypeOK, RunPc
    <2>2. Process'
      BY <1>1, <1>3 DEF DigestInv, TypeOK, Process, Over, InProgress
    <2>3. \A q \in Runs : RunKnows(q)'
      BY <1>1, <1>3 DEF DigestInv, TypeOK, RunKnows
    <2>4. \A q \in Runs : Marked(q)'
      BY <1>1, <1>3 DEF DigestInv, TypeOK, Marked
    <2>5. ASSUME NEW p \in Runs, NEW q \in Runs PROVE Apart(p, q)'
      BY <1>1, <1>3 DEF DigestInv, TypeOK, Apart, Over
    <2>6. ReadIsInADigest'
      BY <1>1, <1>3 DEF DigestInv, TypeOK, ReadIsInADigest
    <2>7. QED
      BY <2>1, <2>2, <2>3, <2>4, <2>5, <2>6 DEF DigestInv
  <1>4. QED
    BY <1>2, <1>3 DEF GetMessage, To

(* It is marked as read, or that fails. *)
LEMMA MarkStep ==
  ASSUME DigestInv, NEW r \in Runs, NEW ok \in BOOLEAN, MarkRead(r, ok)
  PROVE  DigestInv'
  <1>1. /\ pc[r] = "marking"
        /\ pc' = [pc EXCEPT ![r] = "fetching"]
        /\ cur' = [cur EXCEPT ![r] = NoEmail]
        /\ UNCHANGED <<up, token, chat, arrived, rchat, todo, digest, inbox, before, during>>
    BY DEF MarkRead, To, World
  <1>2. /\ unread' = unread \ {cur[r]} \/ (~ok /\ unread' = unread)
        /\ kept' = IF ok THEN kept ELSE kept \cup {cur[r]}
    BY DEF MarkRead, WithoutUnreadLabel
  <1>3. cur[r] \in digest[r] /\ cur[r] \in arrived
    BY <1>1 DEF DigestInv, TypeOK, RunKnows
  <1>4. TypeOK'
    BY <1>1, <1>2, <1>3 DEF DigestInv, TypeOK, RunPc
  <1>5. Process'
    BY <1>1 DEF DigestInv, TypeOK, Process, Over, InProgress
  <1>6. \A q \in Runs : RunKnows(q)'
    BY <1>1 DEF DigestInv, TypeOK, RunKnows
  <1>7. \A q \in Runs : Marked(q)'
    BY <1>1, <1>2, <1>3 DEF DigestInv, TypeOK, Marked
  <1>8. \A p, q \in Runs : Apart(p, q)'
    BY <1>1, <1>2 DEF DigestInv, TypeOK, Apart, Over
  <1>9. ReadIsInADigest'
    BY <1>1, <1>2, <1>3 DEF DigestInv, ReadIsInADigest
  <1>10. QED
    BY <1>4, <1>5, <1>6, <1>7, <1>8, <1>9 DEF DigestInv

(* The message to the chat is sent, refused or not tried. *)
LEMMA SendStep ==
  ASSUME DigestInv, NEW r \in Runs, SendMessage(r)
  PROVE  DigestInv'
  <1>1. /\ pc[r] = "summarized"
        /\ UNCHANGED <<up, token, chat, arrived, unread, rchat, todo, cur, digest, kept, before, during>>
    BY DEF SendMessage, Fail, World
  <1>2. PICK l \in {"sent", "failed"} :
          /\ pc' = [pc EXCEPT ![r] = l]
          /\ inbox' = inbox \/ inbox' = [inbox EXCEPT ![r] = rchat[r]]
    BY DEF SendMessage, Fail, To
  <1>3. TypeOK'
    BY <1>1, <1>2 DEF DigestInv, TypeOK, RunPc
  <1>4. Process'
    BY <1>1, <1>2 DEF DigestInv, TypeOK, Process, Over, InProgress
  <1>5. ASSUME NEW q \in Runs PROVE RunKnows(q)' /\ Marked(q)'
    BY <1>1, <1>2 DEF DigestInv, TypeOK, RunKnows, Marked
  <1>6. \A p, q \in Runs : Apart(p, q)'
    BY <1>1, <1>2 DEF DigestInv, TypeOK, Apart, Over
  <1>7. QED
    BY <1>1, <1>3, <1>4, <1>5, <1>6 DEF DigestInv, ReadIsInADigest

(* The user's own actions, and the end of the process. *)
LEMMA WorldStep ==
  ASSUME DigestInv,
         \/ \E t \in Chats : handleTelegramConnect(t)
         \/ \E e \in Emails : Arrive(e)
         \/ Shutdown \/ Restart
  PROVE  DigestInv'
  <1>1. ASSUME NEW t \in Chats, handleTelegramConnect(t) PROVE DigestInv'
    BY <1>1 DEF handleTelegramConnect, DigestInv, TypeOK, Process, ReadIsInADigest, RunKnows,
       Marked, Apart, Over, InProgress
  <1>2. ASSUME NEW e \in Emails, Arrive(e) PROVE DigestInv'
    <2>1. TypeOK'
      BY <1>2 DEF Arrive, DigestInv, TypeOK
    <2>2. \A r \in Runs : RunKnows(r)' /\ Marked(r)'
      BY <1>2 DEF Arrive, DigestInv, TypeOK, RunKnows, Marked
    <2>3. QED
      BY <1>2, <2>1, <2>2 DEF Arrive, DigestInv, Process, ReadIsInADigest, Apart, Over, InProgress
  <1>3. CASE Restart
    BY <1>3 DEF Restart, DigestInv, TypeOK, Process, ReadIsInADigest, RunKnows, Marked, Apart, Over
  <1>4. CASE Shutdown
    <2>1. TypeOK'
      <3>1. pc' \in [Runs -> RunPc]
        BY <1>4 DEF Shutdown, DigestInv, TypeOK, RunPc
      <3>2. ASSUME NEW r \in Runs, pc[r] = "marking" PROVE cur[r] \in arrived
        BY <3>2 DEF DigestInv, TypeOK, RunKnows
      <3>3. kept' \subseteq arrived
        BY <1>4, <3>2 DEF Shutdown, DigestInv, TypeOK
      <3>4. up' \in BOOLEAN
        BY <1>4 DEF Shutdown
      <3>5. QED
        BY <1>4, <3>1, <3>3, <3>4 DEF Shutdown, DigestInv, TypeOK
    <2>2. Process'
      BY <1>4 DEF Shutdown, DigestInv, TypeOK, Process, Over, InProgress
    <2>3. \A r \in Runs : RunKnows(r)' /\ Marked(r)'
      BY <1>4 DEF Shutdown, DigestInv, TypeOK, RunKnows, Marked, Over, InProgress
    <2>4. \A q, r \in Runs : Apart(q, r)'
      BY <1>4 DEF Shutdown, DigestInv, TypeOK, Apart, Over, InProgress
    <2>5. QED
      BY <1>4, <2>1, <2>2, <2>3, <2>4 DEF Shutdown, DigestInv, ReadIsInADigest
  <1>5. QED
    BY <1>1, <1>2, <1>3, <1>4

(* The invariant is inductive. *)
LEMMA DigestStep == DigestInv /\ [Next]_digestVars => DigestInv'
  <1> SUFFICES ASSUME DigestInv, [Next]_digestVars PROVE DigestInv'
    OBVIOUS
  <1>1. CASE UNCHANGED digestVars
    BY <1>1 DEF digestVars, DigestInv, TypeOK, Process, ReadIsInADigest, RunKnows, Marked,
       Apart, Over, InProgress
  <1>2. ASSUME NEW r \in Runs, handleDigestNow(r) \/ Step(r) PROVE DigestInv'
    <2>1. CASE \E ok \in BOOLEAN : MarkRead(r, ok) \/ \E e \in Emails : GetMessage(r, e, ok)
      BY <2>1, GetStep, MarkStep
    <2>2. CASE ~\E ok \in BOOLEAN : MarkRead(r, ok) \/ \E e \in Emails : GetMessage(r, e, ok)
      BY <1>2, <2>2, StageStep, ListStep, SendStep DEF Step
    <2>3. QED
      BY <2>1, <2>2
  <1>3. QED
    BY <1>1, <1>2, WorldStep DEF Next

(* DigestInv holds of every reachable state. *)
THEOREM DigestSafe == Spec => []DigestInv
  BY DigestInit, DigestStep, PTL DEF Spec

(* The variables of DigestJob.Run and of the mailbox have their types; in  *)
(* particular no run looks at a message that is already in its digest.     *)
THEOREM DigestTypeCorrect == Spec => []TypeOK
  <1>1. DigestInv => TypeOK
    BY DEF DigestInv
  <1>2. QED
    BY <1>1, DigestSafe, PTL

(* A message that FetchUnreadEmails has marked as read is in the digest of *)
(* some run, however many runs overlap, fail or are killed.                *)
THEOREM ReadSafe == Spec => []ReadIsInADigest
  <1>1. DigestInv => ReadIsInADigest
    BY DEF DigestInv
  <1>2. QED
    BY <1>1, DigestSafe, PTL

(* Two runs of which one was over before the other listed share no message *)
(* that Gmail marked as asked.                                             *)
THEOREM RepeatSafe == Spec => []NoRepeatAfterwards
  <1>1. DigestInv => NoRepeatAfterwards
    BY DEF DigestInv, NoRepeatAfterwards, Apart
  <1>2. QED
    BY <1>1, DigestSafe, PTL

-----------------------------------------------------------------------------
(* Connecting a chat, requesting a run, reading the user record and        *)
(* sending keep what is known of the chats; nothing else touches them.     *)
LEMMA ChatStep ==
  ASSUME TypeOK, \A r \in Runs : ChatKnown(r), [Next]_digestVars
  PROVE  \A r \in Runs : ChatKnown(r)'
  <1> USE DEF TypeOK, ChatKnown, InProgress, Over
  <1>1. CASE UNCHANGED digestVars
    BY <1>1 DEF digestVars
  <1>2. ASSUME NEW t \in Chats, handleTelegramConnect(t) PROVE \A r \in Runs : ChatKnown(r)'
    BY <1>2 DEF handleTelegramConnect
  <1>3. ASSUME NEW e \in Emails, Arrive(e) PROVE \A r \in Runs : ChatKnown(r)'
    BY <1>3 DEF Arrive
  <1>4. CASE Shutdown \/ Restart
    BY <1>4 DEF Shutdown, Restart
  <1>5. ASSUME NEW r \in Runs, handleDigestNow(r) PROVE \A q \in Runs : ChatKnown(q)'
    BY <1>5 DEF handleDigestNow, To, World
  <1>6. ASSUME NEW r \in Runs, GetUserByID(r) PROVE \A q \in Runs : ChatKnown(q)'
    <2>1. /\ pc[r] = "authorized" /\ UNCHANGED <<chat, inbox, during>>
          /\ rchat' = rchat \/ rchat' = [rchat EXCEPT ![r] = chat]
          /\ \E l \in {"ready", "failed"} : pc' = [pc EXCEPT ![r] = l]
      BY <1>6 DEF GetUserByID, ChatOf, Fail, To, World
    <2>2. QED
      BY <2>1
  <1>7. ASSUME NEW r \in Runs, SendMessage(r) PROVE \A q \in Runs : ChatKnown(q)'
    <2>1. /\ pc[r] = "summarized" /\ UNCHANGED <<chat, rchat, during>>
          /\ inbox' = inbox \/ inbox' = [inbox EXCEPT ![r] = rchat[r]]
          /\ \E l \in {"sent", "failed"} : pc' = [pc EXCEPT ![r] = l]
      BY <1>7 DEF SendMessage, Fail, To, World
    <2>2. QED
      BY <2>1
  <1>8. ASSUME NEW r \in Runs,
               \/ GetToken(r) \/ ListUnread(r) \/ FetchReturns(r) \/ Summarize(r)
               \/ \E ok \in BOOLEAN : MarkRead(r, ok) \/ \E e \in Emails : GetMessage(r, e, ok)
        PROVE  \A q \in Runs : ChatKnown(q)'
    <2>1. UNCHANGED <<chat, rchat, inbox, during>>
      BY <1>8 DEF GetToken, ListUnread, FetchReturns, Summarize, MarkRead, GetMessage, Fail, World
    <2>2. pc[r] # "idle" /\ ~Over(r)
      BY <1>8 DEF GetToken, ListUnread, FetchReturns, Summarize, MarkRead, GetMessage
    <2>3. \E l \in RunPc \ {"idle"} : pc' = [pc EXCEPT ![r] = l]
      <3>1. pc' = pc \/ \E l \in RunPc \ {"idle"} : pc' = [pc EXCEPT ![r] = l]
        BY <1>8 DEF GetToken, ListUnread, FetchReturns, Summarize, MarkRead, GetMessage, Fail, To, RunPc
      <3>2. pc' = pc => pc' = [pc EXCEPT ![r] = pc[r]]
        OBVIOUS
      <3>3. QED
        BY <2>2, <3>1, <3>2
    <2>4. QED
      BY <2>1, <2>2, <2>3
  <1>9. QED
    BY <1>1, <1>2, <1>3, <1>4, <1>5, <1>6, <1>7, <1>8 DEF Next, Step

(* A digest is delivered only to a chat that was connected at some moment  *)
(* since its run was requested, however runs, connections and restarts     *)
(* interleave.                                                             *)
THEOREM ConnectedChatSafe == Spec => []SentToConnectedChat
  <1> DEFINE Known == \A r \in Runs : ChatKnown(r)
  <1>1. Init => Known
    BY DEF Init, ChatKnown, InProgress, Over
  <1>2. TypeOK /\ Known /\ [Next]_digestVars => Known'
    BY ChatStep
  <1>3. Known => SentToConnectedChat
    BY DEF ChatKnown, SentToConnectedChat
  <1> HIDE DEF Known
  <1>4. QED
    BY <1>1, <1>2, <1>3, DigestTypeCorrect, PTL DEF Spec
=============================================================================
