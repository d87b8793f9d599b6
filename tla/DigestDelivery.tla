--------------------------- MODULE DigestDelivery ---------------------------
(***************************************************************************)
(* Making and delivering a digest: DigestJob.Run (internal/scheduler) with *)
(* gmail.FetchUnreadEmails, summary.Summarize and telegram.SendMessage,    *)
(* started by handleDigestNow in a goroutine nobody waits for, while       *)
(* handleTelegramConnect changes the chat and mail keeps arriving, and     *)
(* across a shutdown and a new start of the process.                       *)
(*                                                                         *)
(* One user.  Of the summary only the fact that it was made is kept: what  *)
(* OpenAI answers, and so what a message says, is outside the model.  No   *)
(* remote call has a timeout, so nothing is claimed to happen eventually.  *)
(***************************************************************************)
EXTENDS Naturals, FiniteSets

CONSTANTS
  Emails,  \* messages
  Runs,    \* calls of DigestJob.Run
  Chats,   \* Telegram chats the user can connect
  NoChat,  \* TelegramChatID is not valid
  NoEmail  \* no message in hand

ASSUME DigestNames == NoChat \notin Chats /\ NoEmail \notin Emails

VARIABLES
  up,      \* the process is running
  token,   \* the user has a token
  chat,    \* the user's telegram_chat_id
  arrived, \* the messages that have arrived
  unread,  \* Gmail: the messages labelled UNREAD
  pc,      \* pc[r]: where run r is
  rchat,   \* rchat[r]: the chat in the user record it read
  todo,    \* todo[r]: the listed messages it has not looked at
  cur,     \* cur[r]: the message it is about to mark as read
  digest,  \* digest[r]: the emails it has fetched
  inbox,   \* inbox[r]: the chat its digest was delivered to
  kept,    \* history: fetched, but the call to mark it failed or was never made
  before,  \* history: before[r]: the runs that were over when r listed
  during   \* history: during[r]: the chats connected since r was requested

digestVars == <<up, token, chat, arrived, unread, pc, rchat, todo, cur, digest, inbox, kept,
                before, during>>

RunPc == {"idle", "started", "authorized", "ready", "fetching", "marking", "fetched",
          "summarized", "sent", "failed", "killed"}
Over(r) == pc[r] \in {"sent", "failed", "killed"}
InProgress(r) == pc[r] # "idle" /\ ~Over(r)

TypeOK ==
  /\ up \in BOOLEAN /\ token \in BOOLEAN
  /\ chat \in Chats \cup {NoChat}
  /\ arrived \subseteq Emails /\ unread \subseteq arrived /\ kept \subseteq arrived
  /\ pc \in [Runs -> RunPc]
  /\ rchat \in [Runs -> Chats \cup {NoChat}]
  /\ todo \in [Runs -> SUBSET arrived]
  /\ cur \in [Runs -> arrived \cup {NoEmail}]
  /\ digest \in [Runs -> SUBSET arrived]
  /\ inbox \in [Runs -> Chats \cup {NoChat}]
  /\ before \in [Runs -> SUBSET Runs]
  /\ during \in [Runs -> SUBSET (Chats \cup {NoChat})]
  /\ \A r \in Runs : todo[r] \cap digest[r] = {}

Init ==
  /\ up = TRUE /\ token \in BOOLEAN
  /\ chat = NoChat
  /\ arrived = {} /\ unread = {} /\ kept = {}
  /\ pc = [r \in Runs |-> "idle"]
  /\ rchat = [r \in Runs |-> NoChat]
  /\ todo = [r \in Runs |-> {}]
  /\ cur = [r \in Runs |-> NoEmail]
  /\ digest = [r \in Runs |-> {}]
  /\ inbox = [r \in Runs |-> NoChat]
  /\ before = [r \in Runs |-> {}] /\ during = [r \in Runs |-> {}]

To(r, label) == pc' = [pc EXCEPT ![r] = label]
Fail(r) == To(r, "failed") /\ UNCHANGED <<rchat, todo, cur, digest, inbox, unread, kept, before, during>>
World == <<up, token, chat, arrived>>

-----------------------------------------------------------------------------
(* handleDigestNow: each request starts a run of its own. *)
handleDigestNow(r) ==
  /\ up /\ pc[r] = "idle"
  /\ To(r, "started")
  /\ during' = [during EXCEPT ![r] = {chat}]
  /\ UNCHANGED <<World, unread, rchat, todo, cur, digest, inbox, kept, before>>

(* 1. the token. *)
GetToken(r) ==
  /\ pc[r] = "started"
  /\ \/ token /\ To(r, "authorized") /\ UNCHANGED <<rchat, todo, cur, digest, inbox, unread, kept, before, during>>
     \/ Fail(r)
  /\ UNCHANGED World

(* 2. and 3. the user record, of which the chat is used in step 7, and the *)
(* Gmail service.                                                          *)
ChatCached(r) ==  \* mutant
  LET known == {rchat[q] : q \in Runs} \ {NoChat}
  IN IF known = {} THEN chat ELSE CHOOSE c \in known : TRUE
ChatOf(r) == chat
GetUserByID(r) ==
  /\ pc[r] = "authorized"
  /\ \/ /\ To(r, "ready")
        /\ rchat' = [rchat EXCEPT ![r] = ChatOf(r)]
        /\ UNCHANGED <<todo, cur, digest, inbox, unread, kept, before, during>>
     \/ Fail(r)
  /\ UNCHANGED World

(* 4. FetchUnreadEmails: the list ... *)
ListUnread(r) ==
  /\ pc[r] = "ready"
  /\ \/ /\ To(r, "fetching")
        /\ todo' = [todo EXCEPT ![r] = unread]
        /\ before' = [before EXCEPT ![r] = {q \in Runs : Over(q)}]
        /\ UNCHANGED <<rchat, cur, digest, inbox, unread, kept, during>>
     \/ Fail(r)
  /\ UNCHANGED World

(* ... each of its messages, left out if it cannot be got or parsed ... *)
UnreadAfterSkippedMarked(e) == unread \ {e}  \* mutant
UnreadAfterSkipped(e) == unread
WithThisOne(r, e) == todo[r]  \* mutant
Rest(r, e) == todo[r] \ {e}
GetMessage(r, e, ok) ==
  /\ pc[r] = "fetching" /\ e \in todo[r]
  /\ todo' = [todo EXCEPT ![r] = Rest(r, e)]
  /\ \/ /\ ok
        /\ To(r, "marking")
        /\ digest' = [digest EXCEPT ![r] = @ \cup {e}]
        /\ cur' = [cur EXCEPT ![r] = e]
        /\ UNCHANGED unread
     \/ /\ ~ok
        /\ unread' = UnreadAfterSkipped(e)
        /\ UNCHANGED <<pc, digest, cur>>
  /\ UNCHANGED <<World, rchat, inbox, kept, before, during>>

(* ... and marked as read; an error is only logged, and may come after     *)
(* Gmail has removed the label.                                            *)
LabelsUnchanged(e) == unread  \* mutant
WithoutUnreadLabel(e) == unread \ {e}
MarkRead(r, ok) ==
  /\ pc[r] = "marking"
  /\ \/ unread' = WithoutUnreadLabel(cur[r])
     \/ ~ok /\ UNCHANGED unread
  /\ kept' = IF ok THEN kept ELSE kept \cup {cur[r]}
  /\ cur' = [cur EXCEPT ![r] = NoEmail]
  /\ To(r, "fetching")
  /\ UNCHANGED <<World, rchat, todo, digest, inbox, before, during>>

FetchReturns(r) ==
  /\ pc[r] = "fetching" /\ todo[r] = {}
  /\ To(r, "fetched")
  /\ UNCHANGED <<World, unread, rchat, todo, cur, digest, inbox, kept, before, during>>

(* 5. the summary; nothing is asked of OpenAI, and nothing can fail, when  *)
(* there are no emails.                                                    *)
Summarize(r) ==
  /\ pc[r] = "fetched"
  /\ \/ To(r, "summarized") /\ UNCHANGED <<rchat, todo, cur, digest, inbox, unread, kept, before, during>>
     \/ digest[r] # {} /\ Fail(r)
  /\ UNCHANGED World

(* 6. and 7. the chat, and the message to it, which may be delivered and   *)
(* the answer lost.                                                        *)
HasChat(r) == rchat[r] # NoChat
SendMessage(r) ==
  /\ pc[r] = "summarized"
  /\ \/ /\ HasChat(r)
        /\ \E result \in {"sent", "failed"} : To(r, result)
        /\ inbox' = [inbox EXCEPT ![r] = rchat[r]]
        /\ UNCHANGED <<rchat, todo, cur, digest, unread, kept, before, during>>
     \/ Fail(r)
  /\ UNCHANGED World

-----------------------------------------------------------------------------
(* handleTelegramConnect. *)
handleTelegramConnect(t) ==
  /\ up
  /\ chat' = t
  /\ during' = [r \in Runs |-> IF InProgress(r) THEN during[r] \cup {t} ELSE during[r]]
  /\ UNCHANGED <<up, token, arrived, unread, pc, rchat, todo, cur, digest, inbox, kept, before>>

(* A message arrives in the mailbox. *)
Arrive(e) ==
  /\ e \notin arrived
  /\ arrived' = arrived \cup {e}
  /\ unread' = unread \cup {e}
  /\ UNCHANGED <<up, token, chat, pc, rchat, todo, cur, digest, inbox, kept, before, during>>

(* Application.Shutdown stops the pool, the scheduler and the server, and  *)
(* the process exits under the runs that are in progress; a message that   *)
(* one of them has just fetched stays unmarked.                            *)
Shutdown ==
  /\ up
  /\ up' = FALSE
  /\ pc' = [r \in Runs |-> IF InProgress(r) THEN "killed" ELSE pc[r]]
  /\ kept' = kept \cup {cur[r] : r \in {q \in Runs : pc[q] = "marking"}}
  /\ UNCHANGED <<token, chat, arrived, unread, rchat, todo, cur, digest, inbox, before, during>>

(* main starts the program again: nothing of a run was stored, and new     *)
(* runs can be requested.                                                  *)
Restart ==
  /\ ~up
  /\ up' = TRUE
  /\ UNCHANGED <<token, chat, arrived, unread, pc, rchat, todo, cur, digest, inbox, kept, before, during>>

-----------------------------------------------------------------------------
(* The steps of Run. *)
Step(r) ==
  \/ GetToken(r) \/ GetUserByID(r) \/ ListUnread(r) \/ FetchReturns(r)
  \/ Summarize(r) \/ SendMessage(r)
  \/ \E ok \in BOOLEAN : MarkRead(r, ok) \/ \E e \in Emails : GetMessage(r, e, ok)

Next ==
  \/ \E r \in Runs : handleDigestNow(r) \/ Step(r)
  \/ \E t \in Chats : handleTelegramConnect(t)
  \/ \E e \in Emails : Arrive(e)
  \/ Shutdown \/ Restart

Spec == Init /\ [][Next]_digestVars

-----------------------------------------------------------------------------
(* A message stays unread, to be in a later digest, until some run has it  *)
(* in its digest: one that is in progress, has sent it, or has come to     *)
(* nothing.  No skipped message is marked, and none by a run that did not  *)
(* fetch it, whatever runs overlap.                                        *)
ReadIsInADigest == \A e \in arrived \ unread : \E r \in Runs : e \in digest[r]

(* A message is in the digests of two runs only if they overlapped, the    *)
(* call to mark it failed, or the process ended before the call: also when *)
(* a run was killed and the next one starts in a new process.              *)
NoRepeatAfterwards ==
  \A q, r \in Runs : q \in before[r] => digest[q] \cap digest[r] \subseteq kept

(* The chat a digest goes to is read early and used at the end of Run, and *)
(* the user may connect another one in between; but no digest is delivered *)
(* to a chat that had been replaced before its run was requested.          *)
SentToConnectedChat ==
  \A r \in Runs : inbox[r] # NoChat => inbox[r] \in during[r]
=============================================================================
