------------------------------ MODULE Storage ------------------------------
(***************************************************************************)
(* internal/storage on its SQLite file: the operations of SQLiteStorage    *)
(* and of its Transaction (sqlite.go, transaction.go), the cleanups        *)
(* (cleanup.go), the counts of metrics.go and Backup and Restore           *)
(* (backup.go), called by goroutines that share one database.              *)
(*                                                                         *)
(* SQLite is external and modelled from its use: a deferred BEGIN, so a    *)
(* transaction's snapshot is taken by its first statement; one writer at a *)
(* time; a transaction overtaken by another's commit cannot write; foreign *)
(* keys are not enforced, the DSN does not ask for it.  These are the      *)
(* snapshots of WAL, which OpenDatabase asks for; app.go opens the         *)
(* database with NewSQLiteStorage, in SQLite's default rollback journal,   *)
(* whose locks allow some of these interleavings and no others.  A call    *)
(* that fails and leaves everything as it was (a busy database, a violated *)
(* constraint, a bad argument) is stuttering.                              *)
(*                                                                         *)
(* The tables are those of the list in migration.go, which the statements  *)
(* and their tests are written for.  The files that Migrate is given       *)
(* instead create other columns and no processed_emails: on them many of   *)
(* the calls below just fail.  A user is a pair of a Telegram ID and a     *)
(* Gmail ID; contents of tokens, intervals and creation times are left     *)
(* out.                                                                    *)
(***************************************************************************)
EXTENDS Integers, Sequences, FiniteSets, TLC

CONSTANTS
  Users,
  Msgs,       \* Gmail message IDs
  Clients,    \* goroutines that call the storage
  Inactivity, \* CleanupInactiveUsers' period, in whole seconds
  Retention,  \* CleanupProcessedEmails' period, in whole seconds
  MaxTime,    \* bound on the clock
  MaxRows,    \* bound on the rows of one user or message in a table without keys
  Detaches,   \* what DETACH may answer in the transaction that used the file
  MaxCalls    \* bound on the calls of the storage's operations

ASSUME StorageSets == IsFiniteSet(Users) /\ IsFiniteSet(Msgs)

(* SQLite refuses it: {FALSE}.  With TRUE the scripts end as their callers *)
(* and the tests expect.                                                   *)
ASSUME DetachAnswers == Detaches \subseteq BOOLEAN

(* A period is positive, but below a second its whole seconds are zero. *)
ASSUME StorageNumbers ==
  /\ Inactivity \in Nat /\ Retention \in Nat
  /\ MaxTime \in Nat /\ MaxCalls \in Nat /\ MaxRows \in Nat \ {0}

VARIABLES
  db,    \* the committed database
  tx,    \* tx[c]: c's transaction
  file,  \* the file at the backup path
  pc,    \* pc[c]: where c is in a call of several statements
  seen,  \* seen[c]: what the call's earlier statements returned
  snap,  \* snap[c]: history: the database the Backup of c copied
  kept,  \* history: the database that the last successful Backup copied
  now,   \* the clock, in seconds
  calls  \* how many calls were made

storageVars == <<db, tx, file, pc, seen, snap, kept, now, calls>>

Null == -1
Tables == {"users", "tokens", "emails"}
Emails == Users \X Msgs
RowIds == 1 .. MaxRows  \* SQLite's rowid, which tells equal rows apart
Times == (0 .. MaxTime) \cup {Null}

(* The tables are sets of rows.  Under the schema of migration.go a user   *)
(* or an email has at most one row; the tables Restore makes ("copied")    *)
(* have no key, no default and no trigger.                                 *)
Rows ==
  [users |-> [user : Users, id : RowIds, updated : Times, defaults : BOOLEAN],
   tokens |-> [user : Users, id : RowIds],
   emails |-> [email : Emails, id : RowIds, processed : Times]]

Database ==
  [users : SUBSET Rows.users, tokens : SUBSET Rows.tokens, emails : SUBSET Rows.emails,
   shape : {"schema", "copied", "dropped"}]

EmptyDb == [users |-> {}, tokens |-> {}, emails |-> {}, shape |-> "schema"]

(* What a backup file may hold: the tables that were made, with their rows. *)
Copies ==
  [made : SUBSET Tables,
   users : SUBSET Rows.users, tokens : SUBSET Rows.tokens, emails : SUBSET Rows.emails]

Nothing == [made |-> {}, users |-> {}, tokens |-> {}, emails |-> {}]

Contents(d) == [made |-> Tables, users |-> d.users, tokens |-> d.tokens, emails |-> d.emails]

-----------------------------------------------------------------------------
(* The statements, as functions of a database. *)

OfUser(rows, u) == {r \in rows : r.user = u}
OfEmail(rows, p) == {r \in rows : r.email = p}

(* Whether the model has a row to spare beside those given, and its rowid. *)
HasRoom(rows) == \E i \in RowIds : \A r \in rows : r.id # i
FreeId(rows) == CHOOSE i \in RowIds : \A r \in rows : r.id # i

(* INSERT INTO users: without the schema's defaults updated_at and         *)
(* google_token_valid are NULL.                                            *)
InsertUser(d, u) ==
  [d EXCEPT !.users = @ \cup
     {[user |-> u, id |-> FreeId(OfUser(@, u)),
       updated |-> IF d.shape = "schema" THEN now ELSE Null, defaults |-> d.shape = "schema"]}]

(* UPDATE users SET digest_interval, updated_at. *)
UpdateUsers(d, u) ==
  [d EXCEPT !.users = {IF r.user = u THEN [r EXCEPT !.updated = now] ELSE r : r \in @}]

(* The rows that INSERT OR REPLACE leaves: it replaces only under a key. *)
Unreplaced(d, rows) == IF d.shape = "schema" THEN {} ELSE rows

(* INSERT OR REPLACE INTO tokens. *)
PutToken(d, u) ==
  LET left == Unreplaced(d, OfUser(d.tokens, u))
  IN [d EXCEPT !.tokens =
        (@ \ OfUser(@, u)) \cup left \cup {[user |-> u, id |-> FreeId(left)]}]

DropToken(d, u) == [d EXCEPT !.tokens = @ \ OfUser(@, u)]

(* INSERT OR REPLACE INTO processed_emails. *)
PutEmail(d, p) ==
  LET left == Unreplaced(d, OfEmail(d.emails, p))
  IN [d EXCEPT !.emails = (@ \ OfEmail(@, p)) \cup left \cup
        {[email |-> p, id |-> FreeId(left),
          processed |-> IF d.shape = "schema" THEN now ELSE Null]}]

(* A comparison with NULL is not true. *)
Before(time, limit) == time # Null /\ time < limit

(* DELETE FROM processed_emails WHERE processed_at < datetime('now', ?). *)
PurgeEmails(d) ==
  [d EXCEPT !.emails = {r \in @ : ~Before(r.processed, now - Retention)}]

(* DELETE FROM tokens of users with google_token_valid = FALSE: the        *)
(* default, which no statement of the program ever changes.                *)
PurgeInvalid(d) ==
  [d EXCEPT !.tokens = {r \in @ : ~\E s \in OfUser(d.users, r.user) : s.defaults}]

(* DELETE FROM tokens of users WHERE updated_at < datetime('now', ?), and  *)
(* DELETE FROM users WHERE the same, at the given time.                    *)
PurgeTokens(d, time) ==
  [d EXCEPT !.tokens =
     {r \in @ : ~\E s \in OfUser(d.users, r.user) : Before(s.updated, time - Inactivity)}]

PurgeUsers(d, time) ==
  [d EXCEPT !.users = {r \in @ : ~Before(r.updated, time - Inactivity)}]

-----------------------------------------------------------------------------
(* Transactions. *)

Transaction ==
  [open : BOOLEAN, own : BOOLEAN, begun : BOOLEAN, fresh : BOOLEAN, wrote : BOOLEAN,
   view : Database, copy : Copies, checked : SUBSET Emails, claimed : SUBSET Emails]

ClosedTx ==
  [open |-> FALSE, own |-> FALSE, begun |-> FALSE, fresh |-> TRUE, wrote |-> FALSE,
   view |-> EmptyDb, copy |-> Nothing, checked |-> {}, claimed |-> {}]

(* own: begun inside a method of SQLiteStorage, which also ends it. *)
NewTx(own) == [ClosedTx EXCEPT !.open = TRUE, !.own = own]

(* The places in a call of several statements. *)
CallPc ==
  {"idle", "cleanupUsers", "cleaned", "metricsEmails", "metricsTokens",
   "copy", "copied", "verify", "restore", "restored"}

TypeOK ==
  /\ db \in Database /\ now \in 0 .. MaxTime /\ calls \in 0 .. MaxCalls
  /\ tx \in [Clients -> Transaction]
  /\ file \in [there : BOOLEAN, tables : Copies]
  /\ file.tables # Nothing => file.there
  /\ pc \in [Clients -> CallPc]
  /\ seen \in [Clients -> Seq(Nat)]
  /\ snap \in [Clients -> Copies] /\ kept \in Copies
  /\ \A c \in Clients :
       /\ tx[c].claimed \subseteq tx[c].checked
       /\ tx[c].begun => tx[c].open
       /\ tx[c].wrote => tx[c].begun

Absent == [there |-> FALSE, tables |-> Nothing]

Init ==
  /\ db = EmptyDb
  /\ tx = [c \in Clients |-> ClosedTx]
  /\ file = Absent
  /\ pc = [c \in Clients |-> "idle"]
  /\ seen = [c \in Clients |-> <<>>]
  /\ snap = [c \in Clients |-> Nothing]
  /\ kept = Nothing
  /\ now = 0 /\ calls = 0

(* SQLite: the first statement of a transaction takes its snapshot. *)
Snapshot(t) == IF t.begun THEN t ELSE [t EXCEPT !.begun = TRUE, !.view = db]

(* SQLite: a transaction writes when no other has written and nothing was  *)
(* committed after its snapshot.                                           *)
CanWrite(c, t) == t.fresh /\ \A o \in Clients \ {c} : ~tx[o].wrote

(* SQLite: the transactions after the commit of d. *)
Overtaken(d) ==
  [o \in Clients |-> [tx[o] EXCEPT !.fresh = @ /\ (d = db \/ ~tx[o].begun)]]

(* Exec on s.db: a statement that commits by itself. *)
Exec(d) ==
  /\ \A c \in Clients : ~tx[c].wrote
  /\ db' = d
  /\ tx' = Overtaken(d)
  /\ UNCHANGED <<file, pc, seen, snap, kept, now>>

(* Exec on t.tx: what the transaction sees becomes d. *)
View(c) == Snapshot(tx[c]).view
InTx(c) == pc[c] = "idle" /\ tx[c].open
TxExec(c, d) ==
  /\ InTx(c) /\ CanWrite(c, tx[c])
  /\ tx' = [tx EXCEPT ![c] = [Snapshot(@) EXCEPT !.wrote = TRUE, !.view = d]]
  /\ UNCHANGED <<db, file, pc, seen, snap, kept, now>>

BeginTx(c) ==
  /\ pc[c] = "idle" /\ ~tx[c].open
  /\ tx' = [tx EXCEPT ![c] = NewTx(FALSE)]
  /\ UNCHANGED <<db, file, pc, seen, snap, kept, now>>

(* The tables of f, and of g where f has none. *)
Merged(f, g) ==
  [made |-> f.made \cup g.made,
   users |-> IF "users" \in f.made THEN f.users ELSE g.users,
   tokens |-> IF "tokens" \in f.made THEN f.tokens ELSE g.tokens,
   emails |-> IF "emails" \in f.made THEN f.emails ELSE g.emails]

(* What a commit publishes: the database, and the tables copied to the    *)
(* attached backup file.                                                  *)
CommitTx(c) ==
  LET d == IF tx[c].wrote THEN tx[c].view ELSE db
  IN /\ db' = d
     /\ tx' = [Overtaken(d) EXCEPT ![c] = ClosedTx]
     /\ file' = [file EXCEPT !.tables = Merged(tx[c].copy, @)]

(* Transaction.Commit. *)
Commit(c) == InTx(c) /\ CommitTx(c) /\ UNCHANGED <<pc, seen, snap, kept, now>>

(* A transaction after its end. *)
EndedHalf(t) == [t EXCEPT !.open = FALSE]  \* mutant
Ended(t) == ClosedTx

(* Transaction.Rollback, which is also what a failed Commit and the end of *)
(* the context amount to.                                                  *)
Rollback(c) ==
  /\ InTx(c)
  /\ tx' = [tx EXCEPT ![c] = Ended(@)]
  /\ UNCHANGED <<db, file, pc, seen, snap, kept, now>>

-----------------------------------------------------------------------------
(* Operations of one statement, on s and on t. *)

(* An INSERT violates the key if the key has a row. *)
Insertable(d, rows) == Unreplaced(d, rows) = rows /\ HasRoom(rows)
Puttable(d, rows) == HasRoom(Unreplaced(d, rows))

CreateUser(u) == Insertable(db, OfUser(db.users, u)) /\ Exec(InsertUser(db, u))
TxCreateUser(c, u) ==
  Insertable(View(c), OfUser(View(c).users, u)) /\ TxExec(c, InsertUser(View(c), u))

UpdateUser(u) == Exec(UpdateUsers(db, u))
TxUpdateUser(c, u) == TxExec(c, UpdateUsers(View(c), u))

StoreToken(u) == Puttable(db, OfUser(db.tokens, u)) /\ Exec(PutToken(db, u))

(* ON CONFLICT(user_id) is an error when user_id is not a key. *)
TxStoreToken(c, u) == View(c).shape = "schema" /\ TxExec(c, PutToken(View(c), u))

DeleteToken(u) == Exec(DropToken(db, u))

MarkEmailProcessed(p) == Puttable(db, OfEmail(db.emails, p)) /\ Exec(PutEmail(db, p))

(* claimed: history: the emails the transaction marked after it saw that  *)
(* they were not processed.                                               *)
TxMarkEmailProcessed(c, p) ==
  /\ InTx(c) /\ CanWrite(c, tx[c]) /\ Puttable(View(c), OfEmail(View(c).emails, p))
  /\ tx' = [tx EXCEPT ![c] =
       [Snapshot(tx[c]) EXCEPT !.wrote = TRUE, !.view = PutEmail(@, p),
                                !.claimed = @ \cup ({p} \cap tx[c].checked)]]
  /\ UNCHANGED <<db, file, pc, seen, snap, kept, now>>

(* A SELECT on t.tx. *)
TxRead(c) ==
  /\ InTx(c)
  /\ tx' = [tx EXCEPT ![c] = Snapshot(@)]
  /\ UNCHANGED <<db, file, pc, seen, snap, kept, now>>

TxGetUser(c) == TxRead(c)
TxGetToken(c) == TxRead(c)
TxGetUserMetrics(c) == TxRead(c)  \* two SELECTs of the same view
TxGetMigrationStatus(c) == TxRead(c)

(* IsEmailProcessed queries through t.tx. *)
AskedOutside(t) == IF t.begun THEN t ELSE [t EXCEPT !.view = db]  \* mutant
Asked(t) == Snapshot(t)

(* checked: history: the emails found not processed before the            *)
(* transaction's first write.                                             *)
TxIsEmailProcessed(c, p) ==
  /\ InTx(c)
  /\ LET t == Asked(tx[c])
     IN tx' = [tx EXCEPT ![c] =
          [t EXCEPT !.checked = IF ~t.wrote /\ OfEmail(t.view.emails, p) = {}
                                 THEN @ \cup {p} ELSE @]]
  /\ UNCHANGED <<db, file, pc, seen, snap, kept, now>>

CleanupProcessedEmails == Exec(PurgeEmails(db))
TxCleanupProcessedEmails(c) == TxExec(c, PurgeEmails(View(c)))

CleanupInvalidTokens == Exec(PurgeInvalid(db))
TxCleanupInvalidTokens(c) == TxExec(c, PurgeInvalid(View(c)))

-----------------------------------------------------------------------------
(* Operations of several statements: on t inside its transaction, on s in  *)
(* one of their own, except the queries of GetMetrics and verifyBackup.    *)

To(c, label) == pc' = [pc EXCEPT ![c] = label]
Current(c) == IF tx[c].open THEN tx[c] ELSE NewTx(TRUE)

(* CleanupInactiveUsers deletes the tokens first. *)
UsersFirst(d) == PurgeUsers(d, now)  \* mutant
DeletedFirst(d) == PurgeTokens(d, now)

DeleteTokens(c) ==
  /\ pc[c] = "idle" /\ CanWrite(c, tx[c])
  /\ tx' = [tx EXCEPT ![c] =
       [Snapshot(Current(c)) EXCEPT !.wrote = TRUE, !.view = DeletedFirst(@)]]
  /\ seen' = [seen EXCEPT ![c] = <<now>>]
  /\ To(c, "cleanupUsers")
  /\ UNCHANGED <<db, file, snap, kept, now>>

CleanupInactiveUsers(c) == ~tx[c].open /\ DeleteTokens(c)
TxCleanupInactiveUsers(c) == tx[c].open /\ DeleteTokens(c)

(* Second statement: the users, with a datetime('now') of its own. *)
CleanupUsers(c) ==
  /\ pc[c] = "cleanupUsers"
  /\ tx' = [tx EXCEPT ![c].view = PurgeUsers(@, now)]
  /\ IF tx[c].own
     THEN To(c, "cleaned") /\ seen' = [seen EXCEPT ![c] = Append(@, now)]
     ELSE To(c, "idle") /\ seen' = [seen EXCEPT ![c] = <<>>]
  /\ UNCHANGED <<db, file, snap, kept, now>>

(* The commit of CleanupInactiveUsers and of Restore. *)
OwnCommit(c) ==
  /\ pc[c] \in {"cleaned", "restored"}
  /\ CommitTx(c)
  /\ To(c, "idle")
  /\ seen' = [seen EXCEPT ![c] = <<>>]
  /\ UNCHANGED <<snap, kept, now>>

(* GetMetrics, one query after the other; on s each sees the database of   *)
(* its moment.  No google_token_valid is true, so the last one returns 0.  *)
Source(c) == IF tx[c].open THEN View(c) ELSE db
CountUsers(c) ==
  /\ pc[c] = "idle"
  /\ tx' = [tx EXCEPT ![c] = IF @.open THEN Snapshot(@) ELSE @]
  /\ seen' = [seen EXCEPT ![c] = <<Cardinality(Source(c).users)>>]
  /\ To(c, "metricsEmails")
  /\ UNCHANGED <<db, file, snap, kept, now>>

GetMetrics(c) == ~tx[c].open /\ CountUsers(c)
TxGetMetrics(c) == tx[c].open /\ CountUsers(c)

EmailsOutside(c) == db.emails  \* mutant
EmailsQuery(c) == Source(c).emails
MetricsEmails(c) ==
  /\ pc[c] = "metricsEmails"
  /\ seen' = [seen EXCEPT ![c] = Append(@, Cardinality(EmailsQuery(c)))]
  /\ To(c, "metricsTokens")
  /\ UNCHANGED <<db, tx, file, snap, kept, now>>

MetricsTokens(c) ==
  /\ pc[c] = "metricsTokens"
  /\ seen' = [seen EXCEPT ![c] = <<>>]
  /\ To(c, "idle")
  /\ UNCHANGED <<db, tx, file, snap, kept, now>>

(* The table after those in S, in the order of the script. *)
NextTable(S) ==
  IF "users" \notin S THEN "users" ELSE IF "tokens" \notin S THEN "tokens" ELSE "emails"

(* The PRAGMA creates the file.  An earlier copy by the same transaction   *)
(* would make the script fail at once.                                     *)
OpenBackup(c) ==
  /\ pc[c] = "idle" /\ tx[c].copy = Nothing
  /\ tx' = [tx EXCEPT ![c] = Current(c)]
  /\ file' = [file EXCEPT !.there = TRUE]
  /\ To(c, "copy")
  /\ UNCHANGED <<db, seen, snap, kept, now>>

Backup(c) == ~tx[c].open /\ OpenBackup(c)
TxBackup(c) == tx[c].open /\ OpenBackup(c)

(* The script reads through the transaction. *)
SelectedLive(t, table) == db[table]  \* mutant
Selected(t, table) == t.view[table]

(* The next CREATE TABLE ... AS SELECT of the script, on the file ATTACH  *)
(* opened: one writer at a time, and no table of that name.               *)
CopyTable(c) ==
  LET t == Snapshot(tx[c])
      table == NextTable(t.copy.made)
  IN /\ pc[c] = "copy" /\ tx[c].copy.made # Tables
     /\ table \notin file.tables.made
     /\ \A o \in Clients \ {c} : tx[o].copy = Nothing
     /\ tx' = [tx EXCEPT ![c] =
          [t EXCEPT !.copy.made = @ \cup {table}, !.copy[table] = Selected(t, table)]]
     /\ file' = [file EXCEPT !.there = TRUE]
     /\ UNCHANGED <<db, pc, seen, snap, kept, now>>

(* DETACH DATABASE, the last statement of the script. *)
Detach(c) ==
  /\ pc[c] = "copy" /\ tx[c].copy.made = Tables /\ TRUE \in Detaches
  /\ To(c, IF tx[c].own THEN "copied" ELSE "idle")
  /\ UNCHANGED <<db, tx, file, seen, snap, kept, now>>

BackupCommit(c) ==
  /\ pc[c] = "copied"
  /\ CommitTx(c)
  /\ snap' = [snap EXCEPT ![c] = Contents(tx[c].view)]
  /\ To(c, "verify")
  /\ UNCHANGED <<seen, kept, now>>

(* verifyBackup: the row counts of one table after the other, the copy's  *)
(* against those of the live database.                                    *)
Verified(c) == <<"users", "tokens", "emails">>[Len(seen[c]) + 1]
Agrees(c) ==
  /\ file.tables.made = Tables
  /\ Cardinality(db[Verified(c)]) = Cardinality(file.tables[Verified(c)])

verifyBackup(c) ==
  /\ pc[c] = "verify" /\ Agrees(c)
  /\ IF Verified(c) # "emails"
     THEN /\ seen' = [seen EXCEPT ![c] = Append(@, Cardinality(db[Verified(c)]))]
          /\ UNCHANGED <<pc, snap, kept>>
     ELSE /\ seen' = [seen EXCEPT ![c] = <<>>]
          /\ To(c, "idle")
          /\ kept' = snap[c]
          /\ snap' = [snap EXCEPT ![c] = Nothing]
  /\ UNCHANGED <<db, tx, file, now>>

(* Backup returns the error of verifyBackup and tries to remove the file. *)
Discard(c) ==
  /\ pc[c] = "verify"
  /\ file' \in {Absent, file}
  /\ seen' = [seen EXCEPT ![c] = <<>>]
  /\ snap' = [snap EXCEPT ![c] = Nothing]
  /\ To(c, "idle")
  /\ UNCHANGED <<db, tx, kept, now>>
VerifyMismatch(c) == ~Agrees(c) /\ Discard(c)
VerifyError(c) == Agrees(c) /\ Discard(c)  \* a query failed

(* Restore: the DROPs take the write lock and commit nothing yet. *)
Dropped == [EmptyDb EXCEPT !.shape = "dropped"]
DropsCommitted == Dropped  \* mutant
AfterDrops == db
RestoreDrop(c) ==
  /\ pc[c] = "idle" /\ ~tx[c].open /\ file.there /\ CanWrite(c, tx[c])
  /\ tx' = [tx EXCEPT ![c] =
       [Snapshot(NewTx(TRUE)) EXCEPT !.wrote = TRUE, !.view = Dropped]]
  /\ db' = AfterDrops
  /\ To(c, "restore")
  /\ UNCHANGED <<file, seen, snap, kept, now>>

(* CREATE TABLE ... AS SELECT keeps the rows and loses keys and defaults; *)
(* then DETACH DATABASE.                                                  *)
RestoreCopy(c) ==
  /\ pc[c] = "restore" /\ file.tables.made = Tables /\ TRUE \in Detaches
  /\ tx' = [tx EXCEPT ![c].view =
       [users |-> file.tables.users, tokens |-> file.tables.tokens,
        emails |-> file.tables.emails, shape |-> "copied"]]
  /\ To(c, "restored")
  /\ UNCHANGED <<db, file, seen, snap, kept, now>>

(* The call returns an error.  On s its own transaction is rolled back, on *)
(* t what was done stays in the open transaction.                          *)
Fails(c) ==
  /\ tx' = [tx EXCEPT ![c] = IF @.own THEN ClosedTx ELSE @]
  /\ seen' = [seen EXCEPT ![c] = <<>>]
  /\ To(c, "idle")
  /\ UNCHANGED <<db, snap, kept, now>>

(* A statement or the commit of a call fails.  Restore's ATTACH may have   *)
(* created the file anew.                                                  *)
CallFails(c) ==
  /\ pc[c] \notin {"idle", "verify"}
  /\ Fails(c)
  /\ file' \in {file} \cup (IF pc[c] = "restore" THEN {[file EXCEPT !.there = TRUE]} ELSE {})

(* DETACH DATABASE is refused: the transaction still uses the file. *)
DetachRefused(c) ==
  /\ FALSE \in Detaches
  /\ \/ pc[c] = "copy" /\ tx[c].copy.made = Tables
     \/ pc[c] = "restore" /\ file.tables.made = Tables
  /\ Fails(c)
  /\ UNCHANGED file

-----------------------------------------------------------------------------
(* The process dies: SQLite rolls back what was not committed. *)
Crash ==
  /\ tx' = [c \in Clients |-> ClosedTx]
  /\ pc' = [c \in Clients |-> "idle"]
  /\ seen' = [c \in Clients |-> <<>>]
  /\ snap' = [c \in Clients |-> Nothing]
  /\ UNCHANGED <<db, file, kept, now>>

Tick ==
  /\ now < MaxTime
  /\ now' = now + 1
  /\ UNCHANGED <<db, tx, file, pc, seen, snap, kept>>

OnUser(u) == CreateUser(u) \/ UpdateUser(u) \/ StoreToken(u) \/ DeleteToken(u)
TxOnUser(c, u) == TxCreateUser(c, u) \/ TxUpdateUser(c, u) \/ TxStoreToken(c, u)
TxCall(c) ==
  \/ BeginTx(c)
  \/ TxGetUser(c) \/ TxGetToken(c) \/ TxGetUserMetrics(c) \/ TxGetMigrationStatus(c)
  \/ TxCleanupInactiveUsers(c) \/ TxGetMetrics(c) \/ TxBackup(c)
  \/ TxCleanupProcessedEmails(c) \/ TxCleanupInvalidTokens(c)
  \/ \E u \in Users : TxOnUser(c, u)
  \/ \E p \in Emails : TxMarkEmailProcessed(c, p) \/ TxIsEmailProcessed(c, p)
LongCall(c) == CleanupInactiveUsers(c) \/ GetMetrics(c) \/ Backup(c) \/ RestoreDrop(c)

(* A call on s or t starts. *)
Call ==
  \/ \E u \in Users : OnUser(u)
  \/ \E p \in Emails : MarkEmailProcessed(p)
  \/ CleanupProcessedEmails \/ CleanupInvalidTokens
  \/ \E c \in Clients : TxCall(c) \/ LongCall(c)

(* A call goes on, with no failure but those the program brings about. *)
GoOn(c) ==
  \/ CleanupUsers(c) \/ OwnCommit(c) \/ MetricsEmails(c) \/ MetricsTokens(c)
  \/ CopyTable(c) \/ Detach(c) \/ DetachRefused(c)
  \/ BackupCommit(c) \/ verifyBackup(c) \/ VerifyMismatch(c)
  \/ RestoreCopy(c)

(* A call goes on or fails, or a transaction ends. *)
Continue(c) ==
  Commit(c) \/ Rollback(c) \/ GoOn(c) \/ VerifyError(c) \/ CallFails(c)

Next ==
  \/ calls < MaxCalls /\ calls' = calls + 1 /\ Call
  \/ UNCHANGED calls /\ ((\E c \in Clients : Continue(c)) \/ Crash \/ Tick)

Spec == Init /\ [][Next]_storageVars

(* One call after the other on a sound disk: no call starts beside another *)
(* one, nothing fails and nobody dies, and a call in progress goes on.     *)
CalmNext ==
  \/ /\ calls < MaxCalls /\ calls' = calls + 1
     /\ \A c \in Clients : pc[c] = "idle"
     /\ Call
  \/ UNCHANGED calls /\ \E c \in Clients : Commit(c) \/ Rollback(c) \/ GoOn(c)

CalmSpec ==
  /\ Init /\ [][CalmNext]_storageVars
  /\ \A c \in Clients : WF_storageVars(UNCHANGED calls /\ GoOn(c))

-----------------------------------------------------------------------------
(* An email that a transaction found unprocessed (IsEmailProcessed) and    *)
(* then marked (MarkEmailProcessed) has not been marked by anyone else by  *)
(* the time it commits: of two goroutines that check and mark the same     *)
(* email in transactions, at most one succeeds.                            *)
CheckedMarkIsExclusive ==
  \A c \in Clients : \A p \in tx[c].claimed : OfEmail(db.emails, p) = {}

(* SQLiteStorage.CleanupInactiveUsers takes users and tokens together: a   *)
(* user whose token it removed is removed, and a removed user leaves no    *)
(* token, unless the clock's second changed between its two DELETEs, each  *)
(* of which evaluates datetime('now').                                     *)
CleanupIsWhole ==
  [][\A c \in Clients : pc[c] = "cleaned" =>
       /\ \A r \in db.tokens \ db'.tokens : \E s \in db.users \ db'.users : s.user = r.user
       /\ seen[c][1] = seen[c][2] =>
            \A s \in db.users \ db'.users : OfUser(db'.tokens, s.user) = {}]_storageVars

(* The counts that Transaction.GetMetrics returns belong to one state, the *)
(* one the transaction sees, whatever others commit between its queries.   *)
TxMetricsAreOneState ==
  \A c \in Clients :
    pc[c] = "metricsTokens" /\ tx[c].open =>
      seen[c] = <<Cardinality(tx[c].view.users), Cardinality(tx[c].view.emails)>>

(* Once Backup has returned nil the file holds one committed state of the  *)
(* database in all its tables, that of the transaction that copied it, and *)
(* no later call to Backup, Restore or Transaction.Backup with that path,  *)
(* failing or not, changes or removes it.                                  *)
BackupIsSnapshot == kept # Nothing => file.tables = kept

(* The committed database has its tables: a Restore that fails or dies     *)
(* after its DROPs, on an empty or a partial file too, loses nothing.      *)
TablesPresent == db.shape # "dropped"

(* A Backup to a file without tables, with nobody else about and nothing   *)
(* failing, returns nil, as backup_test.go requires of it.                 *)
BackupReturnsNil ==
  \A c \in Clients :
    (pc[c] = "copy" /\ tx[c].own /\ file.tables = Nothing) ~> (kept # Nothing)

=============================================================================
