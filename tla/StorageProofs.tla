---------------------------- MODULE StorageProofs ----------------------------
(***************************************************************************)
(* What holds of the SQLite storage for any number of users, messages,     *)
(* goroutines and calls.                                                   *)
(***************************************************************************)
EXTENDS Storage, FiniteSetTheorems, SequenceTheorems, TLAPS

(* What is known of the transaction of c.  Who has written is not          *)
(* overtaken; who is not overtaken and has not written sees the committed  *)
(* database, and so do its checks; only a Restore that is about to copy    *)
(* sees no tables.                                                         *)
TxKnows(c) ==
  /\ tx[c].wrote => tx[c].fresh
  /\ ~tx[c].begun => tx[c].fresh /\ tx[c].checked = {}
  /\ ~tx[c].open => ~tx[c].own /\ tx[c].copy = Nothing
  /\ tx[c].begun /\ tx[c].fresh /\ ~tx[c].wrote => tx[c].view = db
  /\ tx[c].fresh => \A p \in tx[c].checked : OfEmail(db.emails, p) = {}
  /\ tx[c].claimed # {} => tx[c].wrote
  /\ tx[c].view.shape = "dropped" => pc[c] = "restore"

(* What is known of a cleanup between and after its two DELETEs. *)
CleanupKnows(c) ==
  /\ pc[c] = "cleanupUsers" =>
       /\ tx[c].wrote
       /\ Len(seen[c]) = 1 /\ seen[c][1] <= now
       /\ tx[c].own => tx[c].view = PurgeTokens(db, seen[c][1])
  /\ pc[c] = "cleaned" =>
       /\ tx[c].own /\ tx[c].wrote
       /\ Len(seen[c]) = 2 /\ seen[c][1] <= seen[c][2]
       /\ tx[c].view = PurgeUsers(PurgeTokens(db, seen[c][1]), seen[c][2])

(* What is known of the other calls of several statements. *)
CallKnows(c) ==
  /\ pc[c] = "idle" => seen[c] = <<>> /\ ~tx[c].own
  /\ pc[c] = "metricsEmails" =>
       /\ ~tx[c].own
       /\ tx[c].open => tx[c].begun /\ seen[c] = <<Cardinality(tx[c].view.users)>>
  /\ pc[c] = "metricsTokens" =>
       /\ ~tx[c].own
       /\ tx[c].open =>
            /\ tx[c].begun
            /\ seen[c] = <<Cardinality(tx[c].view.users), Cardinality(tx[c].view.emails)>>
  /\ pc[c] \in {"copy", "copied"} =>
       /\ tx[c].open /\ seen[c] = <<>>
       /\ tx[c].copy.made # {} => tx[c].begun
       /\ "users" \in tx[c].copy.made => tx[c].copy.users = tx[c].view.users
       /\ "tokens" \in tx[c].copy.made => tx[c].copy.tokens = tx[c].view.tokens
       /\ "emails" \in tx[c].copy.made => tx[c].copy.emails = tx[c].view.emails
  /\ pc[c] = "copied" => tx[c].own /\ tx[c].copy.made = Tables
  /\ pc[c] = "verify" => ~tx[c].open /\ Len(seen[c]) <= 2
  /\ pc[c] \in {"restore", "restored"} => tx[c].own /\ tx[c].wrote /\ seen[c] = <<>>

(* SQLite has one writer. *)
OneWriter == \A c, o \in Clients : tx[c].wrote /\ tx[o].wrote => c = o

(* What is known of the backup file: one transaction copies to it, and     *)
(* only while it is empty; one Backup verifies it, and finds there what it *)
(* copied; a backup that was kept is what the file holds.                  *)
FileKnows ==
  /\ "users" \notin file.tables.made => file.tables.made = {}
  /\ kept # Nothing => kept.made = Tables /\ file.tables = kept
  /\ \A c \in Clients :
       /\ "users" \notin tx[c].copy.made => tx[c].copy.made = {}
       /\ tx[c].copy # Nothing => file.there /\ file.tables.made = {}
       /\ pc[c] = "verify" =>
            file.tables = snap[c] /\ snap[c].made = Tables /\ kept = Nothing
  /\ \A c, o \in Clients :
       /\ tx[c].copy # Nothing /\ tx[o].copy # Nothing => c = o
       /\ pc[c] = "verify" /\ pc[o] = "verify" => c = o

StorageInv ==
  /\ TypeOK
  /\ TablesPresent
  /\ OneWriter
  /\ FileKnows
  /\ \A c \in Clients : TxKnows(c) /\ CleanupKnows(c) /\ CallKnows(c)

-----------------------------------------------------------------------------
(* The statements. *)

(* A free rowid, where there is one. *)
LEMMA FreeIdExists ==
  ASSUME NEW rows, HasRoom(rows)
  PROVE  FreeId(rows) \in RowIds
  BY DEF HasRoom, FreeId

(* Statements keep a database well formed and its tables where they are.   *)
LEMMA InsertsKeepType ==
  ASSUME TypeOK, NEW d \in Database, NEW u \in Users, Insertable(d, OfUser(d.users, u))
  PROVE  InsertUser(d, u) \in Database /\ InsertUser(d, u).shape = d.shape
  <1>1. FreeId(OfUser(d.users, u)) \in RowIds
    BY FreeIdExists DEF Insertable
  <1>2. now \in Times /\ Null \in Times
    BY DEF TypeOK, Times
  <1>3. (d.shape = "schema") \in BOOLEAN
    OBVIOUS
  <1>4. [user |-> u, id |-> FreeId(OfUser(d.users, u)),
         updated |-> IF d.shape = "schema" THEN now ELSE Null,
         defaults |-> d.shape = "schema"] \in Rows.users
    BY <1>1, <1>2, <1>3 DEF Rows
  <1>5. QED
    BY <1>4 DEF InsertUser, Database

LEMMA UpdatesKeepType ==
  ASSUME TypeOK, NEW d \in Database, NEW u \in Users
  PROVE  UpdateUsers(d, u) \in Database /\ UpdateUsers(d, u).shape = d.shape
  <1>1. now \in Times
    BY DEF TypeOK, Times
  <1>2. \A r \in Rows.users : [r EXCEPT !.updated = now] \in Rows.users
    BY <1>1 DEF Rows
  <1>3. QED
    BY <1>2 DEF UpdateUsers, Database

LEMMA PutsKeepType ==
  ASSUME TypeOK, NEW d \in Database
  PROVE  /\ \A u \in Users : Puttable(d, OfUser(d.tokens, u)) =>
              PutToken(d, u) \in Database /\ PutToken(d, u).shape = d.shape
         /\ \A p \in Emails : Puttable(d, OfEmail(d.emails, p)) =>
              PutEmail(d, p) \in Database /\ PutEmail(d, p).shape = d.shape
  <1>1. now \in Times /\ Null \in Times
    BY DEF TypeOK, Times
  <1>2. ASSUME NEW u \in Users, Puttable(d, OfUser(d.tokens, u))
        PROVE  PutToken(d, u) \in Database /\ PutToken(d, u).shape = d.shape
    <2> DEFINE left == Unreplaced(d, OfUser(d.tokens, u))
    <2>1. FreeId(left) \in RowIds
      BY <1>2, FreeIdExists DEF Puttable
    <2>2. [user |-> u, id |-> FreeId(left)] \in Rows.tokens
      BY <2>1 DEF Rows
    <2>3. left \subseteq d.tokens
      BY DEF Unreplaced, OfUser
    <2>4. QED
      BY <2>2, <2>3 DEF PutToken, Database
  <1>3. ASSUME NEW p \in Emails, Puttable(d, OfEmail(d.emails, p))
        PROVE  PutEmail(d, p) \in Database /\ PutEmail(d, p).shape = d.shape
    <2> DEFINE left == Unreplaced(d, OfEmail(d.emails, p))
    <2>1. FreeId(left) \in RowIds
      BY <1>3, FreeIdExists DEF Puttable
    <2>2. [email |-> p, id |-> FreeId(left),
           processed |-> IF d.shape = "schema" THEN now ELSE Null] \in Rows.emails
      BY <1>1, <2>1 DEF Rows
    <2>3. left \subseteq d.emails
      BY DEF Unreplaced, OfEmail
    <2>4. QED
      BY <2>2, <2>3 DEF PutEmail, Database
  <1>4. QED
    BY <1>2, <1>3

LEMMA DeletesKeepType ==
  ASSUME NEW d \in Database
  PROVE  /\ \A u \in Users : DropToken(d, u) \in Database /\ DropToken(d, u).shape = d.shape
         /\ PurgeEmails(d) \in Database /\ PurgeEmails(d).shape = d.shape
         /\ PurgeInvalid(d) \in Database /\ PurgeInvalid(d).shape = d.shape
         /\ \A t : PurgeTokens(d, t) \in Database /\ PurgeTokens(d, t).shape = d.shape
         /\ \A t : PurgeUsers(d, t) \in Database /\ PurgeUsers(d, t).shape = d.shape
  BY DEF DropToken, PurgeEmails, PurgeInvalid, PurgeTokens, PurgeUsers, Database

(* The rows that can exist are finitely many, so every count is a number.  *)
LEMMA RowsAreFinite ==
  IsFiniteSet(Rows.users) /\ IsFiniteSet(Rows.tokens) /\ IsFiniteSet(Rows.emails)
  <1> DEFINE U == Users \X (RowIds \X (Times \X BOOLEAN))
             T == Users \X RowIds
             E == Emails \X (RowIds \X Times)
             fu == [p \in U |-> [user |-> p[1], id |-> p[2][1], updated |-> p[2][2][1],
                                 defaults |-> p[2][2][2]]]
             ft == [p \in T |-> [user |-> p[1], id |-> p[2]]]
             fe == [p \in E |-> [email |-> p[1], id |-> p[2][1], processed |-> p[2][2]]]
  <1>1. IsFiniteSet(RowIds)
    <2>1. 1 \in Int /\ MaxRows \in Int
      BY StorageNumbers
    <2>2. QED
      BY <2>1, FS_Interval DEF RowIds
  <1>2. IsFiniteSet(Times)
    <2>1. 0 \in Int /\ MaxTime \in Int
      BY StorageNumbers
    <2>2. IsFiniteSet(0 .. MaxTime)
      BY <2>1, FS_Interval
    <2>3. QED
      BY <2>2, FS_AddElement DEF Times
  <1>3. IsFiniteSet(BOOLEAN)
    <2>1. IsFiniteSet({TRUE})
      BY FS_Singleton
    <2>2. IsFiniteSet({TRUE} \cup {FALSE})
      BY <2>1, FS_AddElement
    <2>3. BOOLEAN = {TRUE} \cup {FALSE}
      OBVIOUS
    <2>4. QED
      BY <2>2, <2>3
  <1>4. IsFiniteSet(Emails)
    BY StorageSets, FS_Product DEF Emails
  <1>5. IsFiniteSet(U) /\ IsFiniteSet(T) /\ IsFiniteSet(E)
    <2>1. IsFiniteSet(Times \X BOOLEAN)
      BY <1>2, <1>3, FS_Product
    <2>2. IsFiniteSet(RowIds \X (Times \X BOOLEAN)) /\ IsFiniteSet(RowIds \X Times)
      BY <1>1, <1>2, <2>1, FS_Product
    <2>3. QED
      BY <1>1, <1>4, <2>2, StorageSets, FS_Product
  <1>6. fu \in Surjection(U, Rows.users)
    <2>1. fu \in [U -> Rows.users]
      BY DEF Rows
    <2>2. ASSUME NEW r \in Rows.users PROVE \E p \in U : fu[p] = r
      <3>1. <<r.user, <<r.id, <<r.updated, r.defaults>>>>>> \in U
        BY DEF Rows
      <3>2. fu[<<r.user, <<r.id, <<r.updated, r.defaults>>>>>>] = r
        BY <3>1 DEF Rows
      <3>3. QED
        BY <3>1, <3>2
    <2>3. QED
      BY <2>1, <2>2 DEF Surjection
  <1>7. ft \in Surjection(T, Rows.tokens)
    <2>1. ft \in [T -> Rows.tokens]
      BY DEF Rows
    <2>2. ASSUME NEW r \in Rows.tokens PROVE \E p \in T : ft[p] = r
      <3>1. <<r.user, r.id>> \in T
        BY DEF Rows
      <3>2. ft[<<r.user, r.id>>] = r
        BY <3>1 DEF Rows
      <3>3. QED
        BY <3>1, <3>2
    <2>3. QED
      BY <2>1, <2>2 DEF Surjection
  <1>8. fe \in Surjection(E, Rows.emails)
    <2>1. fe \in [E -> Rows.emails]
      BY DEF Rows
    <2>2. ASSUME NEW r \in Rows.emails PROVE \E p \in E : fe[p] = r
      <3>1. <<r.email, <<r.id, r.processed>>>> \in E
        BY DEF Rows
      <3>2. fe[<<r.email, <<r.id, r.processed>>>>] = r
        BY <3>1 DEF Rows
      <3>3. QED
        BY <3>1, <3>2
    <2>3. QED
      BY <2>1, <2>2 DEF Surjection
  <1>9. QED
    BY <1>5, <1>6, <1>7, <1>8, FS_Surjection

(* A second number after the first. *)
LEMMA AppendToOne ==
  ASSUME NEW a \in Nat, NEW b \in Nat
  PROVE  Append(<<a>>, b) = <<a, b>>
  <1>1. <<a>> \in Seq(Nat) /\ <<a, b>> \in Seq(Nat)
    OBVIOUS
  <1>2. /\ Append(<<a>>, b) \in Seq(Nat) /\ Len(Append(<<a>>, b)) = 2
        /\ Append(<<a>>, b)[1] = a /\ Append(<<a>>, b)[2] = b
    BY <1>1, AppendProperties
  <1>3. Len(<<a, b>>) = 2 /\ <<a, b>>[1] = a /\ <<a, b>>[2] = b
    OBVIOUS
  <1>4. \A i \in 1 .. 2 : Append(<<a>>, b)[i] = <<a, b>>[i]
    BY <1>2, <1>3
  <1>5. QED
    BY <1>1, <1>2, <1>3, <1>4, SeqEqual

LEMMA AppendToFew ==
  ASSUME NEW s \in Seq(Nat), Len(s) \in {0, 1}, NEW n \in Nat
  PROVE  Append(s, n) \in Seq(Nat) /\ Len(Append(s, n)) <= 2
  <1>1. Append(s, n) \in Seq(Nat) /\ Len(Append(s, n)) = Len(s) + 1
    BY AppendProperties
  <1>2. \A i \in {0, 1} : i + 1 <= 2
    OBVIOUS
  <1>3. QED
    BY <1>1, <1>2

LEMMA CountsAreNumbers ==
  ASSUME NEW d \in Database
  PROVE  /\ Cardinality(d.users) \in Nat /\ Cardinality(d.tokens) \in Nat
         /\ Cardinality(d.emails) \in Nat
  BY RowsAreFinite, FS_Subset, FS_CardinalityType DEF Database

-----------------------------------------------------------------------------
(* Steps. *)

(* The initial state satisfies the invariant. *)
LEMMA StorageInit == Init => StorageInv
  <1> SUFFICES ASSUME Init PROVE StorageInv
    OBVIOUS
  <1>1. EmptyDb \in Database /\ Nothing \in Copies
    BY DEF EmptyDb, Database, Nothing, Copies
  <1>2. ClosedTx \in Transaction
    BY <1>1 DEF ClosedTx, Transaction
  <1>3. TypeOK
    <2>1. 0 \in 0 .. MaxTime /\ 0 \in 0 .. MaxCalls
      BY StorageNumbers
    <2>2. file \in [there : BOOLEAN, tables : Copies] /\ file.tables = Nothing
      BY <1>1 DEF Init, Absent
    <2>3. QED
      BY <1>1, <1>2, <2>1, <2>2 DEF Init, TypeOK, CallPc, ClosedTx
  <1>4. FileKnows
    BY DEF Init, FileKnows, Absent, ClosedTx, Nothing
  <1>5. ASSUME NEW c \in Clients PROVE TxKnows(c) /\ CleanupKnows(c) /\ CallKnows(c)
    BY DEF Init, TxKnows, CleanupKnows, CallKnows, ClosedTx, EmptyDb
  <1>6. TablesPresent /\ OneWriter
    BY DEF Init, TablesPresent, OneWriter, EmptyDb, ClosedTx
  <1>7. QED
    BY <1>3, <1>4, <1>5, <1>6 DEF StorageInv

(* A client that does nothing while others do: its call stays where it is, *)
(* and its transaction is overtaken if the database changes, which it does *)
(* not while the client holds the write lock.                              *)
Bystander(o) ==
  /\ pc'[o] = pc[o] /\ seen'[o] = seen[o]
  /\ \/ tx'[o] = tx[o] /\ db' = db
     \/ /\ tx'[o] = [tx[o] EXCEPT !.fresh = @ /\ (db' = db \/ ~tx[o].begun)]
        /\ db' # db => ~tx[o].wrote

LEMMA BystanderKeeps ==
  ASSUME StorageInv, NEW o \in Clients, Bystander(o), now' \in Int, now' >= now
  PROVE  /\ TxKnows(o)' /\ CleanupKnows(o)' /\ CallKnows(o)'
         /\ tx'[o].wrote = tx[o].wrote /\ tx'[o].copy = tx[o].copy
  <1>1. tx[o] \in Transaction /\ seen[o] \in Seq(Nat) /\ now \in Int
    BY StorageNumbers DEF StorageInv, TypeOK
  <1>2. CASE tx'[o] = tx[o] /\ db' = db
    <2>1. TxKnows(o)'
      BY <1>2 DEF StorageInv, Bystander, TxKnows
    <2>2. CleanupKnows(o)'
      BY <1>1, <1>2 DEF StorageInv, Bystander, CleanupKnows
    <2>3. CallKnows(o)'
      BY <1>2 DEF StorageInv, Bystander, CallKnows
    <2>4. QED
      BY <1>2, <2>1, <2>2, <2>3
  <1>3. CASE /\ tx'[o] = [tx[o] EXCEPT !.fresh = @ /\ (db' = db \/ ~tx[o].begun)]
             /\ db' # db => ~tx[o].wrote
    <2>1. /\ tx'[o].open = tx[o].open /\ tx'[o].own = tx[o].own /\ tx'[o].begun = tx[o].begun
          /\ tx'[o].wrote = tx[o].wrote /\ tx'[o].view = tx[o].view /\ tx'[o].copy = tx[o].copy
          /\ tx'[o].checked = tx[o].checked /\ tx'[o].claimed = tx[o].claimed
          /\ tx'[o].fresh <=> tx[o].fresh /\ (db' = db \/ ~tx[o].begun)
      BY <1>1, <1>3 DEF Transaction
    <2>2. TxKnows(o)'
      BY <1>3, <2>1 DEF StorageInv, Bystander, TxKnows
    <2>3. CleanupKnows(o)'
      BY <1>1, <1>3, <2>1 DEF StorageInv, Bystander, CleanupKnows
    <2>4. CallKnows(o)'
      BY <1>3, <2>1 DEF StorageInv, Bystander, CallKnows
    <2>5. QED
      BY <2>1, <2>2, <2>3, <2>4
  <1>4. QED
    BY <1>2, <1>3 DEF Bystander

(* A step of c, from its parts. *)
LEMMA ClientStep ==
  ASSUME StorageInv, NEW c \in Clients, \A o \in Clients \ {c} : Bystander(o), now' = now,
         TypeOK', TablesPresent', FileKnows',
         TxKnows(c)', CleanupKnows(c)', CallKnows(c)',
         tx'[c].wrote => \A o \in Clients \ {c} : ~tx[o].wrote
  PROVE  StorageInv'
  <1>1. now' \in Int /\ now' >= now
    BY StorageNumbers DEF StorageInv, TypeOK
  <1>2. ASSUME NEW o \in Clients \ {c}
        PROVE  /\ TxKnows(o)' /\ CleanupKnows(o)' /\ CallKnows(o)'
               /\ tx'[o].wrote = tx[o].wrote
    BY <1>1, <1>2, BystanderKeeps
  <1>3. OneWriter'
    BY <1>2 DEF StorageInv, OneWriter
  <1>4. QED
    BY <1>2, <1>3 DEF StorageInv

(* A step of nobody's call. *)
LEMMA NobodysStep ==
  ASSUME StorageInv, \A o \in Clients : Bystander(o), now' \in Int, now' >= now,
         TypeOK', TablesPresent', FileKnows'
  PROVE  StorageInv'
  <1>1. ASSUME NEW o \in Clients
        PROVE  /\ TxKnows(o)' /\ CleanupKnows(o)' /\ CallKnows(o)'
               /\ tx'[o].wrote = tx[o].wrote
    BY <1>1, BystanderKeeps
  <1>2. OneWriter'
    BY <1>1 DEF StorageInv, OneWriter
  <1>3. QED
    BY <1>1, <1>2 DEF StorageInv

(* The backup file, when nobody copies, verifies or keeps anew. *)
LEMMA FileStays ==
  ASSUME FileKnows, file.there => file'.there, file'.tables = file.tables, kept' = kept,
         \A c \in Clients :
           /\ tx'[c].copy = tx[c].copy \/ tx'[c].copy = Nothing
           /\ pc'[c] = "verify" => pc[c] = "verify" /\ snap'[c] = snap[c]
  PROVE  FileKnows'
  BY DEF FileKnows, Nothing

(* A step of c that leaves the database and the tables of the backup file  *)
(* alone, and what the transaction of c, its place and what it has seen    *)
(* become.                                                                 *)
Becomes(c, t, l, q) ==
  /\ tx' = [tx EXCEPT ![c] = t] /\ pc' = [pc EXCEPT ![c] = l] /\ seen' = [seen EXCEPT ![c] = q]
  /\ UNCHANGED <<db, snap, kept, now>>
  /\ file' = file \/ file' = [file EXCEPT !.there = TRUE]

LEMMA LocalStep ==
  ASSUME StorageInv, NEW c \in Clients, NEW t \in Transaction, NEW l \in CallPc,
         NEW q \in Seq(Nat), calls' \in 0 .. MaxCalls, Becomes(c, t, l, q),
         t.copy = tx[c].copy \/ t.copy = Nothing, l # "verify",
         t.claimed \subseteq t.checked, t.begun => t.open, t.wrote => t.begun,
         t.wrote => \A o \in Clients \ {c} : ~tx[o].wrote,
         TxKnows(c)', CleanupKnows(c)', CallKnows(c)'
  PROVE  StorageInv'
  <1>1. /\ tx'[c] = t /\ pc'[c] = l /\ now' = now
        /\ \A o \in Clients \ {c} : Bystander(o) /\ tx'[o] = tx[o]
    BY DEF Becomes, StorageInv, TypeOK, Bystander
  <1>2. /\ file' \in [there : BOOLEAN, tables : Copies]
        /\ file'.tables = file.tables /\ (file.there => file'.there)
    BY DEF Becomes, StorageInv, TypeOK
  <1>3. TypeOK'
    <2>1. file'.tables # Nothing => file'.there
      BY <1>2 DEF StorageInv, TypeOK
    <2>2. /\ tx' \in [Clients -> Transaction] /\ pc' \in [Clients -> CallPc]
          /\ seen' \in [Clients -> Seq(Nat)]
      BY DEF Becomes, StorageInv, TypeOK
    <2>3. \A o \in Clients :
            /\ tx'[o].claimed \subseteq tx'[o].checked
            /\ tx'[o].begun => tx'[o].open
            /\ tx'[o].wrote => tx'[o].begun
      BY <1>1 DEF StorageInv, TypeOK
    <2>4. QED
      BY <1>2, <2>1, <2>2, <2>3 DEF Becomes, StorageInv, TypeOK
  <1>4. FileKnows'
    <2>1. \A o \in Clients :
            /\ tx'[o].copy = tx[o].copy \/ tx'[o].copy = Nothing
            /\ pc'[o] = "verify" => pc[o] = "verify" /\ snap'[o] = snap[o]
      BY <1>1 DEF Becomes, Bystander
    <2>2. QED
      BY <1>2, <2>1, FileStays DEF StorageInv, Becomes
  <1>5. TablesPresent'
    BY DEF StorageInv, TablesPresent, Becomes
  <1>6. QED
    BY <1>1, <1>3, <1>4, <1>5, ClientStep

(* A new transaction, and a closed one. *)
LEMMA NewTransactions ==
  /\ ClosedTx \in Transaction
  /\ \A own \in BOOLEAN : NewTx(own) \in Transaction
  BY DEF ClosedTx, NewTx, Transaction, EmptyDb, Database, Nothing, Copies

(* Snapshot changes a transaction only before its first statement. *)
LEMMA SnapshotFacts ==
  ASSUME TypeOK, NEW t \in Transaction
  PROVE  LET s == Snapshot(t)
         IN /\ s \in Transaction /\ s.begun = TRUE
            /\ s.view = IF t.begun THEN t.view ELSE db
            /\ s.open = t.open /\ s.own = t.own /\ s.fresh = t.fresh /\ s.wrote = t.wrote
            /\ s.copy = t.copy /\ s.checked = t.checked /\ s.claimed = t.claimed
  BY DEF Snapshot, Transaction, TypeOK

(* What a transaction sees, when it may go on at all. *)
LEMMA ViewFacts ==
  ASSUME StorageInv, NEW c \in Clients
  PROVE  /\ View(c) \in Database
         /\ tx[c].fresh /\ ~tx[c].wrote => View(c) = db
         /\ pc[c] # "restore" => View(c).shape # "dropped"
  <1>1. tx[c] \in Transaction /\ TypeOK
    BY DEF StorageInv, TypeOK
  <1>2. View(c) = IF tx[c].begun THEN tx[c].view ELSE db
    BY <1>1, SnapshotFacts DEF View
  <1>3. QED
    BY <1>1, <1>2 DEF StorageInv, TypeOK, Transaction, TxKnows, TablesPresent

(* Beginning a transaction. *)
LEMMA BeginStep ==
  ASSUME StorageInv, NEW c \in Clients, BeginTx(c), calls' \in 0 .. MaxCalls
  PROVE  StorageInv'
  <1>1. /\ tx' = [tx EXCEPT ![c] = NewTx(FALSE)]
        /\ pc' = [pc EXCEPT ![c] = "idle"] /\ seen' = [seen EXCEPT ![c] = <<>>]
        /\ pc[c] = "idle" /\ UNCHANGED <<db, file, snap, kept, now>>
    BY DEF BeginTx, StorageInv, TypeOK, CallKnows
  <1> DEFINE n == NewTx(FALSE)
  <1>2. n \in Transaction
    BY NewTransactions
  <1>3. /\ n.open = TRUE /\ n.own = FALSE /\ n.begun = FALSE /\ n.fresh = TRUE /\ n.wrote = FALSE
        /\ n.view.shape = "schema" /\ n.copy = Nothing /\ n.checked = {} /\ n.claimed = {}
    BY DEF NewTx, ClosedTx, EmptyDb
  <1> HIDE DEF n
  <1>4. /\ tx'[c] = n /\ pc'[c] = "idle" /\ seen'[c] = <<>>
        /\ "idle" \in CallPc /\ <<>> \in Seq(Nat)
    BY <1>1 DEF StorageInv, TypeOK, CallPc, n
  <1>5. TxKnows(c)'
    BY <1>3, <1>4 DEF TxKnows
  <1>6. CleanupKnows(c)' /\ CallKnows(c)'
    BY <1>3, <1>4 DEF CleanupKnows, CallKnows
  <1>7. tx' = [tx EXCEPT ![c] = n]
    BY <1>1 DEF n
  <1>8. Becomes(c, n, "idle", <<>>)
    BY <1>1, <1>7 DEF Becomes
  <1>9. QED
    BY <1>2, <1>3, <1>4, <1>5, <1>6, <1>8, LocalStep

(* Ending one without a trace. *)
LEMMA RollbackStep ==
  ASSUME StorageInv, NEW c \in Clients, Rollback(c), calls' \in 0 .. MaxCalls
  PROVE  StorageInv'
  <1>1. /\ tx' = [tx EXCEPT ![c] = ClosedTx]
        /\ pc' = [pc EXCEPT ![c] = "idle"] /\ seen' = [seen EXCEPT ![c] = <<>>]
        /\ pc[c] = "idle" /\ UNCHANGED <<db, file, snap, kept, now>>
    BY DEF Rollback, Ended, InTx, StorageInv, TypeOK, CallKnows
  <1>2. /\ tx'[c] = ClosedTx /\ pc'[c] = "idle" /\ seen'[c] = <<>>
        /\ "idle" \in CallPc /\ <<>> \in Seq(Nat)
    BY <1>1 DEF StorageInv, TypeOK, CallPc
  <1>3. TxKnows(c)' /\ CleanupKnows(c)' /\ CallKnows(c)'
    BY <1>1, <1>2 DEF TxKnows, CleanupKnows, CallKnows, ClosedTx, EmptyDb
  <1>4. ClosedTx.copy = Nothing /\ ClosedTx.claimed \subseteq ClosedTx.checked
        /\ ~ClosedTx.begun /\ ~ClosedTx.wrote
    BY DEF ClosedTx
  <1>5. Becomes(c, ClosedTx, "idle", <<>>)
    BY <1>1 DEF Becomes
  <1>6. QED
    BY <1>2, <1>3, <1>4, <1>5, NewTransactions, LocalStep

(* A statement on t.tx between calls makes the transaction of c into t:    *)
(* what it sees becomes something else, if it writes; the emails it checks *)
(* are not in what it sees.                                                *)
Statement(c, t) ==
  /\ InTx(c) /\ tx' = [tx EXCEPT ![c] = t] /\ UNCHANGED <<db, file, pc, seen, snap, kept, now>>
  /\ t.open /\ t.begun /\ t.own = tx[c].own /\ t.fresh = tx[c].fresh
  /\ t.copy = tx[c].copy /\ t.view.shape # "dropped"
  /\ t.wrote => tx[c].fresh /\ \A o \in Clients \ {c} : ~tx[o].wrote
  /\ ~t.wrote => ~tx[c].wrote /\ t.view = View(c)
  /\ \A p \in t.checked :
       p \in tx[c].checked \/ (OfEmail(View(c).emails, p) = {} /\ ~tx[c].wrote)
  /\ t.claimed \subseteq t.checked
  /\ t.claimed # {} => t.wrote

LEMMA StatementStep ==
  ASSUME StorageInv, NEW c \in Clients, NEW t \in Transaction, calls' \in 0 .. MaxCalls,
         Statement(c, t)
  PROVE  StorageInv'
  <1>1. /\ pc' = [pc EXCEPT ![c] = "idle"] /\ seen' = [seen EXCEPT ![c] = <<>>]
        /\ pc[c] = "idle" /\ ~tx[c].own
        /\ tx'[c] = t /\ pc'[c] = "idle" /\ seen'[c] = <<>>
        /\ "idle" \in CallPc /\ <<>> \in Seq(Nat)
    BY DEF Statement, InTx, StorageInv, TypeOK, CallKnows, CallPc
  <1>2. TxKnows(c)'
    BY <1>1, ViewFacts DEF Statement, StorageInv, TxKnows
  <1>3. CleanupKnows(c)' /\ CallKnows(c)'
    BY <1>1 DEF Statement, CleanupKnows, CallKnows
  <1>4. Becomes(c, t, "idle", <<>>)
    BY <1>1 DEF Statement, Becomes
  <1>5. QED
    BY <1>1, <1>2, <1>3, <1>4, LocalStep DEF Statement

(* The operations that read in a transaction. *)
LEMMA TxReadStep ==
  ASSUME StorageInv, NEW c \in Clients, TxRead(c), calls' \in 0 .. MaxCalls
  PROVE  StorageInv'
  <1> DEFINE s == Snapshot(tx[c])
  <1>1. tx[c] \in Transaction /\ TypeOK /\ TxKnows(c)
    BY DEF StorageInv, TypeOK
  <1>2. /\ s \in Transaction /\ s.begun = TRUE /\ s.view = View(c)
        /\ s.open = tx[c].open /\ s.own = tx[c].own /\ s.fresh = tx[c].fresh
        /\ s.wrote = tx[c].wrote /\ s.copy = tx[c].copy
        /\ s.checked = tx[c].checked /\ s.claimed = tx[c].claimed
    BY <1>1, SnapshotFacts DEF View
  <1>3. InTx(c) /\ tx' = [tx EXCEPT ![c] = s] /\ UNCHANGED <<db, file, pc, seen, snap, kept, now>>
    BY DEF TxRead
  <1>4. s.open = TRUE /\ s.view.shape # "dropped"
    BY <1>1, <1>2, <1>3, ViewFacts DEF InTx, Transaction
  <1>5. s.wrote => tx[c].fresh /\ \A o \in Clients \ {c} : ~tx[o].wrote
    BY <1>1, <1>2 DEF StorageInv, TxKnows, OneWriter
  <1>6. s.claimed \subseteq s.checked /\ (s.claimed # {} => s.wrote)
    BY <1>1, <1>2 DEF TypeOK, TxKnows
  <1> HIDE DEF s
  <1>7. Statement(c, s)
    BY <1>2, <1>3, <1>4, <1>5, <1>6 DEF Statement
  <1>8. QED
    BY <1>2, <1>7, StatementStep

(* IsEmailProcessed in a transaction. *)
LEMMA TxCheckStep ==
  ASSUME StorageInv, NEW c \in Clients, NEW p \in Emails, TxIsEmailProcessed(c, p),
         calls' \in 0 .. MaxCalls
  PROVE  StorageInv'
  <1> DEFINE s == Snapshot(tx[c])
             found == IF ~s.wrote /\ OfEmail(s.view.emails, p) = {}
                      THEN s.checked \cup {p} ELSE s.checked
             t == [s EXCEPT !.checked = found]
  <1>1. tx[c] \in Transaction /\ TypeOK /\ TxKnows(c)
    BY DEF StorageInv, TypeOK
  <1>2. /\ s \in Transaction /\ s.begun = TRUE /\ s.view = View(c)
        /\ s.open = tx[c].open /\ s.own = tx[c].own /\ s.fresh = tx[c].fresh
        /\ s.wrote = tx[c].wrote /\ s.copy = tx[c].copy
        /\ s.checked = tx[c].checked /\ s.claimed = tx[c].claimed
    BY <1>1, SnapshotFacts DEF View
  <1>3. InTx(c) /\ tx' = [tx EXCEPT ![c] = t] /\ UNCHANGED <<db, file, pc, seen, snap, kept, now>>
    BY DEF TxIsEmailProcessed, Asked
  <1> HIDE DEF s
  <1>4. /\ t \in Transaction /\ t.begun = TRUE /\ t.view = View(c)
        /\ t.open = tx[c].open /\ t.own = tx[c].own /\ t.fresh = tx[c].fresh
        /\ t.wrote = tx[c].wrote /\ t.copy = tx[c].copy
        /\ t.checked = found /\ t.claimed = tx[c].claimed
    BY <1>2 DEF Transaction
  <1>5. \A e \in found :
          e \in tx[c].checked \/ (OfEmail(View(c).emails, e) = {} /\ ~tx[c].wrote)
    BY <1>2
  <1>6. tx[c].claimed \subseteq found /\ (tx[c].claimed # {} => tx[c].wrote)
    BY <1>1, <1>2 DEF TypeOK, TxKnows
  <1>7. tx[c].wrote => tx[c].fresh /\ \A o \in Clients \ {c} : ~tx[o].wrote
    BY <1>1 DEF StorageInv, TxKnows, OneWriter
  <1>8. t.open = TRUE /\ t.view.shape # "dropped"
    BY <1>1, <1>3, <1>4, ViewFacts DEF InTx, Transaction
  <1> HIDE DEF t, found
  <1>9. Statement(c, t)
    BY <1>3, <1>4, <1>5, <1>6, <1>7, <1>8 DEF Statement
  <1>10. QED
    BY <1>4, <1>9, StatementStep

(* A statement that writes in a transaction. *)
LEMMA TxExecStep ==
  ASSUME StorageInv, NEW c \in Clients, NEW d \in Database, d.shape # "dropped", TxExec(c, d),
         calls' \in 0 .. MaxCalls
  PROVE  StorageInv'
  <1> DEFINE s == Snapshot(tx[c])
             t == [s EXCEPT !.wrote = TRUE, !.view = d]
  <1>1. tx[c] \in Transaction /\ TypeOK /\ TxKnows(c)
    BY DEF StorageInv, TypeOK
  <1>2. /\ s \in Transaction /\ s.begun = TRUE
        /\ s.open = tx[c].open /\ s.own = tx[c].own /\ s.fresh = tx[c].fresh
        /\ s.copy = tx[c].copy /\ s.checked = tx[c].checked /\ s.claimed = tx[c].claimed
    BY <1>1, SnapshotFacts
  <1>3. /\ InTx(c) /\ CanWrite(c, tx[c]) /\ tx' = [tx EXCEPT ![c] = t]
        /\ UNCHANGED <<db, file, pc, seen, snap, kept, now>>
    BY DEF TxExec
  <1> HIDE DEF s
  <1>4. /\ t \in Transaction /\ t.begun = TRUE /\ t.wrote = TRUE /\ t.view = d
        /\ t.open = tx[c].open /\ t.own = tx[c].own /\ t.fresh = tx[c].fresh
        /\ t.copy = tx[c].copy /\ t.checked = tx[c].checked /\ t.claimed = tx[c].claimed
    BY <1>2 DEF Transaction
  <1>5. t.open = TRUE /\ tx[c].claimed \subseteq tx[c].checked
    BY <1>1, <1>3, <1>4 DEF InTx, Transaction, TypeOK
  <1> HIDE DEF t
  <1>6. Statement(c, t)
    BY <1>3, <1>4, <1>5 DEF Statement, CanWrite
  <1>7. QED
    BY <1>4, <1>6, StatementStep

(* MarkEmailProcessed in a transaction. *)
LEMMA TxMarkStep ==
  ASSUME StorageInv, NEW c \in Clients, NEW p \in Emails, TxMarkEmailProcessed(c, p),
         calls' \in 0 .. MaxCalls
  PROVE  StorageInv'
  <1> DEFINE s == Snapshot(tx[c])
             d == PutEmail(s.view, p)
             t == [s EXCEPT !.wrote = TRUE, !.view = PutEmail(@, p),
                            !.claimed = @ \cup ({p} \cap tx[c].checked)]
  <1>1. tx[c] \in Transaction /\ TypeOK /\ TxKnows(c)
    BY DEF StorageInv, TypeOK
  <1>2. /\ s \in Transaction /\ s.begun = TRUE /\ s.view = View(c)
        /\ s.open = tx[c].open /\ s.own = tx[c].own /\ s.fresh = tx[c].fresh
        /\ s.copy = tx[c].copy /\ s.checked = tx[c].checked /\ s.claimed = tx[c].claimed
    BY <1>1, SnapshotFacts DEF View
  <1>3. /\ InTx(c) /\ CanWrite(c, tx[c]) /\ tx' = [tx EXCEPT ![c] = t]
        /\ UNCHANGED <<db, file, pc, seen, snap, kept, now>>
        /\ Puttable(View(c), OfEmail(View(c).emails, p))
    BY DEF TxMarkEmailProcessed
  <1>4. d \in Database /\ d.shape # "dropped"
    BY <1>1, <1>2, <1>3, ViewFacts, PutsKeepType DEF InTx
  <1> HIDE DEF s
  <1>5. /\ t \in Transaction /\ t.begun = TRUE /\ t.wrote = TRUE /\ t.view = d
        /\ t.open = tx[c].open /\ t.own = tx[c].own /\ t.fresh = tx[c].fresh
        /\ t.copy = tx[c].copy /\ t.checked = tx[c].checked
        /\ t.claimed = tx[c].claimed \cup ({p} \cap tx[c].checked)
    <2>1. t = [s EXCEPT !.wrote = TRUE, !.view = d,
                        !.claimed = s.claimed \cup ({p} \cap tx[c].checked)]
      OBVIOUS
    <2> HIDE DEF d, t
    <2>2. QED
      BY <1>2, <1>4, <2>1 DEF Transaction
  <1>6. t.open = TRUE /\ t.claimed \subseteq t.checked
    BY <1>1, <1>3, <1>5 DEF InTx, Transaction, TypeOK
  <1> HIDE DEF d, t
  <1>7. Statement(c, t)
    BY <1>3, <1>4, <1>5, <1>6 DEF Statement, CanWrite
  <1>8. QED
    BY <1>5, <1>7, StatementStep

(* A statement on s.db. *)
LEMMA ExecStep ==
  ASSUME StorageInv, NEW d \in Database, d.shape # "dropped", Exec(d), calls' \in 0 .. MaxCalls
  PROVE  StorageInv'
  <1>1. /\ db' = d /\ tx' = Overtaken(d) /\ UNCHANGED <<file, pc, seen, snap, kept, now>>
        /\ \A c \in Clients : ~tx[c].wrote
    BY DEF Exec
  <1>2. ASSUME NEW c \in Clients
        PROVE  /\ Bystander(c) /\ tx'[c] \in Transaction /\ tx'[c].copy = tx[c].copy
               /\ tx'[c].claimed = tx[c].claimed /\ tx'[c].checked = tx[c].checked
               /\ tx'[c].begun = tx[c].begun /\ tx'[c].open = tx[c].open
               /\ tx'[c].wrote = tx[c].wrote
    <2>1. tx[c] \in Transaction
      BY DEF StorageInv, TypeOK
    <2>2. tx'[c] = [tx[c] EXCEPT !.fresh = @ /\ (db' = db \/ ~tx[c].begun)]
      BY <1>1 DEF Overtaken
    <2>3. Bystander(c)
      BY <1>1, <2>2 DEF Bystander
    <2>4. QED
      BY <2>1, <2>2, <2>3 DEF Transaction
  <1>3. tx' \in [Clients -> Transaction]
    BY <1>1, <1>2 DEF Overtaken
  <1>4. TypeOK'
    BY <1>1, <1>2, <1>3 DEF StorageInv, TypeOK
  <1>5. FileKnows'
    BY <1>1, <1>2, FileStays DEF StorageInv
  <1>6. TablesPresent'
    BY <1>1 DEF TablesPresent
  <1>7. now' \in Int /\ now' >= now
    BY <1>1, StorageNumbers DEF StorageInv, TypeOK
  <1>8. QED
    BY <1>2, <1>4, <1>5, <1>6, <1>7, NobodysStep

(* The clock. *)
LEMMA TickStep ==
  ASSUME StorageInv, Tick, calls' \in 0 .. MaxCalls
  PROVE  StorageInv'
  <1>1. now' \in 0 .. MaxTime /\ now' \in Int /\ now' >= now
    BY StorageNumbers DEF Tick, StorageInv, TypeOK
  <1>2. \A c \in Clients : Bystander(c)
    BY DEF Tick, Bystander
  <1>3. TypeOK' /\ TablesPresent'
    BY <1>1 DEF Tick, StorageInv, TypeOK, TablesPresent
  <1>4. FileKnows'
    BY FileStays DEF Tick, StorageInv
  <1>5. QED
    BY <1>1, <1>2, <1>3, <1>4, NobodysStep

(* The death of the process. *)
LEMMA CrashStep ==
  ASSUME StorageInv, Crash, calls' \in 0 .. MaxCalls
  PROVE  StorageInv'
  <1>1. \A c \in Clients :
          tx'[c] = ClosedTx /\ pc'[c] = "idle" /\ seen'[c] = <<>> /\ snap'[c] = Nothing
    BY DEF Crash
  <1>2. /\ ClosedTx.copy = Nothing /\ ClosedTx.claimed = {} /\ ClosedTx.checked = {}
        /\ ~ClosedTx.begun /\ ~ClosedTx.wrote /\ ~ClosedTx.open /\ ~ClosedTx.own
        /\ ClosedTx.fresh /\ ClosedTx.view.shape = "schema"
    BY DEF ClosedTx, EmptyDb
  <1>3. TypeOK'
    <2>1. Nothing \in Copies
      BY DEF Nothing, Copies
    <2>2. tx' \in [Clients -> Transaction]
      BY NewTransactions DEF Crash
    <2>3. /\ pc' \in [Clients -> CallPc] /\ seen' \in [Clients -> Seq(Nat)]
          /\ snap' \in [Clients -> Copies]
      BY <2>1 DEF Crash, CallPc
    <2>4. QED
      BY <1>1, <1>2, <2>2, <2>3 DEF Crash, StorageInv, TypeOK
  <1>4. FileKnows'
    BY <1>1, <1>2, FileStays DEF Crash, StorageInv
  <1>5. TablesPresent' /\ OneWriter'
    BY <1>1, <1>2 DEF Crash, StorageInv, TablesPresent, OneWriter
  <1>6. ASSUME NEW c \in Clients PROVE TxKnows(c)' /\ CleanupKnows(c)' /\ CallKnows(c)'
    BY <1>1, <1>2 DEF TxKnows, CleanupKnows, CallKnows
  <1>7. QED
    BY <1>3, <1>4, <1>5, <1>6 DEF StorageInv

(* The transaction that a call of several statements works in. *)
LEMMA CurrentFacts ==
  ASSUME StorageInv, NEW c \in Clients, pc[c] = "idle"
  PROVE  LET t == Current(c)
         IN /\ t \in Transaction /\ t.open = TRUE
            /\ t.own <=> ~tx[c].open
            /\ ~tx[c].open => ~t.begun /\ ~t.wrote /\ t.fresh /\ t.checked = {} /\ t.claimed = {}
                              /\ t.copy = Nothing /\ t.view.shape = "schema"
            /\ tx[c].open => t = tx[c]
  <1>1. tx[c] \in Transaction /\ ~tx[c].own
    BY DEF StorageInv, TypeOK, CallKnows
  <1>2. CASE tx[c].open
    BY <1>1, <1>2 DEF Current, Transaction
  <1>3. CASE ~tx[c].open
    <2>1. NewTx(TRUE) \in Transaction
      BY NewTransactions
    <2>2. LET n == NewTx(TRUE)
          IN /\ n.open = TRUE /\ n.own = TRUE /\ n.begun = FALSE /\ n.fresh = TRUE
             /\ n.wrote = FALSE /\ n.view.shape = "schema" /\ n.copy = Nothing
             /\ n.checked = {} /\ n.claimed = {}
      BY DEF NewTx, ClosedTx, EmptyDb
    <2>3. Current(c) = NewTx(TRUE)
      BY <1>3 DEF Current
    <2>4. QED
      BY <1>3, <2>1, <2>2, <2>3
  <1>4. QED
    BY <1>2, <1>3

(* The first DELETE of CleanupInactiveUsers. *)
LEMMA DeleteTokensStep ==
  ASSUME StorageInv, NEW c \in Clients, DeleteTokens(c), calls' \in 0 .. MaxCalls
  PROVE  StorageInv'
  <1> DEFINE k == Current(c)
             s == Snapshot(k)
             d == PurgeTokens(s.view, now)
             t == [s EXCEPT !.wrote = TRUE, !.view = d]
  <1>1. /\ pc[c] = "idle" /\ CanWrite(c, tx[c]) /\ TypeOK /\ TxKnows(c)
        /\ tx[c] \in Transaction
    BY DEF DeleteTokens, StorageInv, TypeOK
  <1>2. /\ k \in Transaction /\ k.open = TRUE /\ (k.own <=> ~tx[c].open)
        /\ ~tx[c].open => /\ ~k.begun /\ k.fresh /\ k.checked = {} /\ k.claimed = {}
                          /\ k.copy = Nothing
        /\ tx[c].open => k = tx[c]
    BY <1>1, CurrentFacts
  <1>3. /\ s \in Transaction /\ s.begun = TRUE /\ s.open = k.open /\ s.own = k.own
        /\ s.view = (IF k.begun THEN k.view ELSE db) /\ s.fresh = k.fresh
        /\ s.copy = k.copy /\ s.checked = k.checked /\ s.claimed = k.claimed
    BY <1>1, <1>2, SnapshotFacts
  <1>4. Becomes(c, t, "cleanupUsers", <<now>>)
    BY DEF DeleteTokens, DeletedFirst, To, Becomes
  <1> HIDE DEF k, s
  <1>5. s.view \in Database /\ s.view.shape # "dropped"
    BY <1>1, <1>2, <1>3 DEF StorageInv, TypeOK, TxKnows, TablesPresent, Transaction
  <1>6. d \in Database /\ d.shape # "dropped"
    BY <1>5, DeletesKeepType
  <1>7. k.own => d = PurgeTokens(db, now)
    BY <1>2, <1>3
  <1> HIDE DEF d
  <1>8. /\ t \in Transaction /\ t.begun = TRUE /\ t.wrote = TRUE /\ t.view = d
        /\ t.open = TRUE /\ t.own = k.own /\ t.fresh = k.fresh
        /\ t.copy = k.copy /\ t.checked = k.checked /\ t.claimed = k.claimed
    BY <1>2, <1>3, <1>6 DEF Transaction
  <1> HIDE DEF t
  <1>9. /\ tx'[c] = t /\ pc'[c] = "cleanupUsers" /\ seen'[c] = <<now>>
        /\ db' = db /\ now' = now
        /\ "cleanupUsers" \in CallPc /\ <<now>> \in Seq(Nat) /\ now \in Nat
    BY <1>1, <1>4, StorageNumbers DEF Becomes, TypeOK, CallPc, StorageInv
  <1>10. TxKnows(c)'
    BY <1>1, <1>2, <1>6, <1>8, <1>9 DEF TxKnows, CanWrite
  <1>11. CleanupKnows(c)'
    BY <1>7, <1>8, <1>9 DEF CleanupKnows
  <1>12. CallKnows(c)'
    BY <1>9 DEF CallKnows
  <1>13. /\ t.copy = tx[c].copy \/ t.copy = Nothing
         /\ t.claimed \subseteq t.checked
         /\ \A o \in Clients \ {c} : ~tx[o].wrote
    BY <1>1, <1>2, <1>8 DEF TypeOK, CanWrite
  <1>14. QED
    BY <1>4, <1>8, <1>9, <1>10, <1>11, <1>12, <1>13, LocalStep

(* The second one. *)
LEMMA CleanupUsersStep ==
  ASSUME StorageInv, NEW c \in Clients, CleanupUsers(c), calls' \in 0 .. MaxCalls
  PROVE  StorageInv'
  <1> DEFINE d == PurgeUsers(tx[c].view, now)
             t == [tx[c] EXCEPT !.view = d]
             l == IF tx[c].own THEN "cleaned" ELSE "idle"
             q == IF tx[c].own THEN Append(seen[c], now) ELSE <<>>
  <1>1. /\ tx[c] \in Transaction /\ pc[c] = "cleanupUsers" /\ TypeOK /\ now \in Nat
        /\ TxKnows(c) /\ CleanupKnows(c) /\ OneWriter /\ seen[c] \in Seq(Nat)
    BY StorageNumbers DEF CleanupUsers, StorageInv, TypeOK
  <1>2. /\ tx' = [tx EXCEPT ![c] = t] /\ pc' = [pc EXCEPT ![c] = l]
        /\ seen' = [seen EXCEPT ![c] = q] /\ UNCHANGED <<db, file, snap, kept, now>>
    BY DEF CleanupUsers, To
  <1>3. Becomes(c, t, l, q)
    BY <1>2 DEF Becomes
  <1>4. d \in Database /\ d.shape # "dropped"
    BY <1>1, DeletesKeepType DEF Transaction, TxKnows
  <1>5. l \in CallPc /\ q \in Seq(Nat) /\ l # "verify"
    BY <1>1 DEF CallPc
  <1>6. tx[c].own =>
          /\ Len(q) = 2 /\ q[1] = seen[c][1] /\ q[2] = now /\ q[1] <= q[2]
          /\ d = PurgeUsers(PurgeTokens(db, q[1]), q[2])
    BY <1>1 DEF CleanupKnows
  <1>7. /\ tx'[c] = t /\ pc'[c] = l /\ seen'[c] = q /\ db' = db
    BY <1>1, <1>2 DEF TypeOK
  <1> HIDE DEF d
  <1>8. /\ t \in Transaction /\ t.view = d /\ t.open = tx[c].open /\ t.own = tx[c].own
        /\ t.begun = tx[c].begun /\ t.fresh = tx[c].fresh /\ t.wrote = tx[c].wrote
        /\ t.copy = tx[c].copy /\ t.checked = tx[c].checked /\ t.claimed = tx[c].claimed
    BY <1>1, <1>4 DEF Transaction
  <1>9. l = (IF t.own THEN "cleaned" ELSE "idle") /\ (~t.own => q = <<>>)
    BY <1>8
  <1>10. tx[c].wrote
    BY <1>1 DEF CleanupKnows
  <1> HIDE DEF t, l, q
  <1>11. TxKnows(c)'
    BY <1>1, <1>4, <1>7, <1>8, <1>10 DEF TxKnows
  <1>12. CleanupKnows(c)'
    BY <1>6, <1>7, <1>8, <1>9, <1>10 DEF CleanupKnows
  <1>13. CallKnows(c)'
    BY <1>7, <1>8, <1>9 DEF CallKnows
  <1>14. /\ t.claimed \subseteq t.checked /\ (t.begun => t.open) /\ (t.wrote => t.begun)
         /\ (t.wrote => \A o \in Clients \ {c} : ~tx[o].wrote)
    BY <1>1, <1>8 DEF TypeOK, OneWriter
  <1>15. QED
    BY <1>3, <1>5, <1>8, <1>11, <1>12, <1>13, <1>14, LocalStep

(* The first query of GetMetrics. *)
LEMMA CountUsersStep ==
  ASSUME StorageInv, NEW c \in Clients, CountUsers(c), calls' \in 0 .. MaxCalls
  PROVE  StorageInv'
  <1> DEFINE s == Snapshot(tx[c])
             t == IF tx[c].open THEN s ELSE tx[c]
             q == <<Cardinality(Source(c).users)>>
  <1>1. /\ tx[c] \in Transaction /\ pc[c] = "idle" /\ TypeOK /\ db \in Database
        /\ TxKnows(c) /\ CallKnows(c) /\ OneWriter
    BY DEF CountUsers, StorageInv, TypeOK
  <1>2. /\ s \in Transaction /\ s.begun = TRUE /\ s.view = View(c)
        /\ s.open = tx[c].open /\ s.own = tx[c].own /\ s.fresh = tx[c].fresh
        /\ s.wrote = tx[c].wrote /\ s.copy = tx[c].copy
        /\ s.checked = tx[c].checked /\ s.claimed = tx[c].claimed
    BY <1>1, SnapshotFacts DEF View
  <1>3. Becomes(c, t, "metricsEmails", q)
    BY DEF CountUsers, Becomes, To
  <1>4. Source(c) \in Database /\ (tx[c].open => Source(c) = View(c))
    BY <1>1, ViewFacts DEF Source
  <1>5. q \in Seq(Nat) /\ "metricsEmails" \in CallPc
    BY <1>4, CountsAreNumbers DEF CallPc
  <1>6. tx'[c] = t /\ pc'[c] = "metricsEmails" /\ seen'[c] = q /\ db' = db
    BY <1>1, <1>3 DEF TypeOK, Becomes
  <1>7. tx[c].open => q = <<Cardinality(View(c).users)>>
    BY <1>4
  <1> HIDE DEF s, q
  <1>8. /\ t \in Transaction /\ t.open = tx[c].open /\ t.own = tx[c].own /\ t.fresh = tx[c].fresh
        /\ t.wrote = tx[c].wrote /\ t.copy = tx[c].copy
        /\ t.checked = tx[c].checked /\ t.claimed = tx[c].claimed
        /\ tx[c].open => t.begun = TRUE /\ t.view = View(c)
        /\ ~tx[c].open => t.begun = tx[c].begun /\ t.view = tx[c].view
    BY <1>1, <1>2
  <1> HIDE DEF t
  <1>9. TxKnows(c)'
    BY <1>1, <1>6, <1>8, ViewFacts DEF TxKnows
  <1>10. CleanupKnows(c)' /\ CallKnows(c)'
    BY <1>1, <1>6, <1>7, <1>8 DEF CleanupKnows, CallKnows
  <1>11. /\ t.claimed \subseteq t.checked /\ (t.begun => t.open) /\ (t.wrote => t.begun)
         /\ (t.wrote => \A o \in Clients \ {c} : ~tx[o].wrote)
    BY <1>1, <1>8 DEF TypeOK, OneWriter
  <1>12. QED
    BY <1>3, <1>5, <1>8, <1>9, <1>10, <1>11, LocalStep

(* A step of a call that leaves its transaction as it is. *)
LEMMA QueryStep ==
  ASSUME StorageInv, NEW c \in Clients, NEW l \in CallPc, NEW q \in Seq(Nat),
         calls' \in 0 .. MaxCalls, Becomes(c, tx[c], l, q), pc[c] # "restore", l # "verify",
         CleanupKnows(c)', CallKnows(c)'
  PROVE  StorageInv'
  <1>1. tx[c] \in Transaction /\ TypeOK /\ TxKnows(c) /\ OneWriter
    BY DEF StorageInv, TypeOK
  <1>2. TxKnows(c)'
    BY <1>1 DEF TxKnows, Becomes, TypeOK
  <1>3. /\ tx[c].claimed \subseteq tx[c].checked /\ (tx[c].begun => tx[c].open)
        /\ tx[c].wrote => tx[c].begun
        /\ tx[c].wrote => \A o \in Clients \ {c} : ~tx[o].wrote
    BY <1>1 DEF TypeOK, OneWriter
  <1>4. QED
    BY <1>1, <1>2, <1>3, LocalStep

(* The queries that follow. *)
LEMMA MetricsEmailsStep ==
  ASSUME StorageInv, NEW c \in Clients, MetricsEmails(c), calls' \in 0 .. MaxCalls
  PROVE  StorageInv'
  <1> DEFINE n == Cardinality(Source(c).emails)
             q == Append(seen[c], n)
  <1>1. /\ tx[c] \in Transaction /\ pc[c] = "metricsEmails" /\ TypeOK /\ db \in Database
        /\ CallKnows(c) /\ seen[c] \in Seq(Nat)
    BY DEF MetricsEmails, StorageInv, TypeOK
  <1>2. Becomes(c, tx[c], "metricsTokens", q)
    BY <1>1 DEF MetricsEmails, EmailsQuery, Becomes, To, TypeOK
  <1>3. Source(c) \in Database /\ (tx[c].open => Source(c) = View(c))
    BY <1>1, ViewFacts DEF Source
  <1>4. tx[c].open => View(c) = tx[c].view
    BY <1>1, SnapshotFacts DEF View, CallKnows
  <1>5. n \in Nat /\ (tx[c].open => n = Cardinality(tx[c].view.emails))
    BY <1>3, <1>4, CountsAreNumbers
  <1> HIDE DEF n
  <1>6. q \in Seq(Nat) /\ "metricsTokens" \in CallPc
    BY <1>1, <1>5 DEF CallPc
  <1>7. tx[c].open => q = <<Cardinality(tx[c].view.users), Cardinality(tx[c].view.emails)>>
    <2> SUFFICES ASSUME tx[c].open
                 PROVE  q = <<Cardinality(tx[c].view.users), Cardinality(tx[c].view.emails)>>
      OBVIOUS
    <2>1. seen[c] = <<Cardinality(tx[c].view.users)>>
      BY <1>1 DEF CallKnows
    <2>2. Cardinality(tx[c].view.users) \in Nat
      BY <1>1, CountsAreNumbers DEF Transaction
    <2>3. QED
      BY <1>5, <2>1, <2>2, AppendToOne
  <1> HIDE DEF q
  <1>8. tx'[c] = tx[c] /\ pc'[c] = "metricsTokens" /\ seen'[c] = q
    BY <1>1, <1>2 DEF TypeOK, Becomes
  <1>9. CleanupKnows(c)' /\ CallKnows(c)'
    BY <1>1, <1>7, <1>8 DEF CleanupKnows, CallKnows
  <1>10. QED
    BY <1>1, <1>2, <1>6, <1>9, QueryStep

LEMMA MetricsTokensStep ==
  ASSUME StorageInv, NEW c \in Clients, MetricsTokens(c), calls' \in 0 .. MaxCalls
  PROVE  StorageInv'
  <1>1. pc[c] = "metricsTokens" /\ TypeOK /\ CallKnows(c)
    BY DEF MetricsTokens, StorageInv
  <1>2. Becomes(c, tx[c], "idle", <<>>)
    BY <1>1 DEF MetricsTokens, Becomes, To, TypeOK
  <1>3. /\ tx'[c] = tx[c] /\ pc'[c] = "idle" /\ seen'[c] = <<>>
        /\ "idle" \in CallPc /\ <<>> \in Seq(Nat)
    BY <1>1, <1>2 DEF TypeOK, Becomes, CallPc
  <1>4. CleanupKnows(c)' /\ CallKnows(c)'
    BY <1>1, <1>3 DEF CleanupKnows, CallKnows
  <1>5. QED
    BY <1>1, <1>2, <1>3, <1>4, QueryStep

(* The first statement of Backup, which makes the file. *)
LEMMA OpenBackupStep ==
  ASSUME StorageInv, NEW c \in Clients, OpenBackup(c), calls' \in 0 .. MaxCalls
  PROVE  StorageInv'
  <1> DEFINE t == Current(c)
  <1>1. /\ pc[c] = "idle" /\ tx[c].copy = Nothing /\ TypeOK /\ TxKnows(c) /\ CallKnows(c)
        /\ OneWriter /\ tx[c] \in Transaction
    BY DEF OpenBackup, StorageInv, TypeOK
  <1>2. /\ t \in Transaction /\ t.open = TRUE
        /\ ~tx[c].open => ~t.begun /\ ~t.wrote /\ t.fresh /\ t.checked = {} /\ t.claimed = {}
                          /\ t.copy = Nothing /\ t.view.shape = "schema"
        /\ tx[c].open => t = tx[c]
    BY <1>1, CurrentFacts
  <1>3. Becomes(c, t, "copy", <<>>)
    BY <1>1 DEF OpenBackup, Becomes, To, CallKnows, TypeOK
  <1> HIDE DEF t
  <1>4. /\ tx'[c] = t /\ pc'[c] = "copy" /\ seen'[c] = <<>> /\ db' = db
        /\ "copy" \in CallPc /\ <<>> \in Seq(Nat)
    BY <1>1, <1>3 DEF TypeOK, Becomes, CallPc
  <1>5. t.copy = Nothing /\ t.copy.made = {}
    BY <1>1, <1>2 DEF Nothing
  <1>6. TxKnows(c)'
    BY <1>1, <1>2, <1>4 DEF TxKnows
  <1>7. CleanupKnows(c)' /\ CallKnows(c)'
    BY <1>2, <1>4, <1>5 DEF CleanupKnows, CallKnows
  <1>8. /\ t.claimed \subseteq t.checked /\ (t.wrote => t.begun)
        /\ (t.wrote => \A o \in Clients \ {c} : ~tx[o].wrote)
    BY <1>1, <1>2 DEF TypeOK, OneWriter
  <1>9. QED
    BY <1>2, <1>3, <1>4, <1>5, <1>6, <1>7, <1>8, LocalStep

(* The DROPs of Restore. *)
LEMMA RestoreDropStep ==
  ASSUME StorageInv, NEW c \in Clients, RestoreDrop(c), calls' \in 0 .. MaxCalls
  PROVE  StorageInv'
  <1> DEFINE n == NewTx(TRUE)
             s == Snapshot(n)
             t == [s EXCEPT !.wrote = TRUE, !.view = Dropped]
  <1>1. /\ pc[c] = "idle" /\ ~tx[c].open /\ TypeOK /\ CallKnows(c) /\ tx[c] \in Transaction
        /\ CanWrite(c, tx[c])
    BY DEF RestoreDrop, StorageInv, TypeOK
  <1>2. /\ n \in Transaction
        /\ n.open = TRUE /\ n.own = TRUE /\ n.fresh = TRUE
        /\ n.copy = Nothing /\ n.checked = {} /\ n.claimed = {}
    BY NewTransactions DEF NewTx, ClosedTx
  <1>3. Becomes(c, t, "restore", <<>>)
    BY <1>1 DEF RestoreDrop, AfterDrops, Becomes, To, CallKnows, TypeOK
  <1> HIDE DEF n
  <1>4. /\ s \in Transaction /\ s.begun = TRUE /\ s.open = n.open /\ s.own = n.own
        /\ s.fresh = n.fresh /\ s.copy = n.copy /\ s.checked = n.checked /\ s.claimed = n.claimed
    BY <1>1, <1>2, SnapshotFacts
  <1> HIDE DEF s
  <1>5. Dropped \in Database
    BY DEF Dropped, EmptyDb, Database
  <1>6. /\ t \in Transaction /\ t.begun = TRUE /\ t.wrote = TRUE /\ t.open = TRUE /\ t.own = TRUE
        /\ t.fresh = TRUE /\ t.copy = Nothing /\ t.checked = {} /\ t.claimed = {}
    BY <1>2, <1>4, <1>5 DEF Transaction
  <1> HIDE DEF t
  <1>7. /\ tx'[c] = t /\ pc'[c] = "restore" /\ seen'[c] = <<>>
        /\ "restore" \in CallPc /\ <<>> \in Seq(Nat)
    BY <1>1, <1>3 DEF TypeOK, Becomes, CallPc
  <1>8. TxKnows(c)'
    BY <1>6, <1>7 DEF TxKnows
  <1>9. CleanupKnows(c)' /\ CallKnows(c)'
    BY <1>6, <1>7 DEF CleanupKnows, CallKnows
  <1>10. \A o \in Clients \ {c} : ~tx[o].wrote
    BY <1>1 DEF CanWrite
  <1>11. QED
    BY <1>3, <1>6, <1>7, <1>8, <1>9, <1>10, LocalStep

(* The copies that follow. *)
LEMMA RestoreCopyStep ==
  ASSUME StorageInv, NEW c \in Clients, RestoreCopy(c), calls' \in 0 .. MaxCalls
  PROVE  StorageInv'
  <1> DEFINE d == [users |-> file.tables.users, tokens |-> file.tables.tokens,
                   emails |-> file.tables.emails, shape |-> "copied"]
             t == [tx[c] EXCEPT !.view = d]
  <1>1. /\ pc[c] = "restore" /\ TypeOK /\ TxKnows(c) /\ CallKnows(c) /\ OneWriter
        /\ tx[c] \in Transaction
    BY DEF RestoreCopy, StorageInv, TypeOK
  <1>2. d \in Database /\ d.shape = "copied"
    BY <1>1 DEF TypeOK, Copies, Database
  <1>3. tx[c].own /\ tx[c].wrote /\ seen[c] = <<>>
    BY <1>1 DEF CallKnows
  <1>4. Becomes(c, t, "restored", <<>>)
    BY <1>1, <1>3 DEF RestoreCopy, Becomes, To, TypeOK
  <1> HIDE DEF d
  <1>5. /\ t \in Transaction /\ t.view = d /\ t.open = tx[c].open /\ t.own = tx[c].own
        /\ t.begun = tx[c].begun /\ t.fresh = tx[c].fresh /\ t.wrote = tx[c].wrote
        /\ t.copy = tx[c].copy /\ t.checked = tx[c].checked /\ t.claimed = tx[c].claimed
    BY <1>1, <1>2 DEF Transaction
  <1> HIDE DEF t
  <1>6. /\ tx'[c] = t /\ pc'[c] = "restored" /\ seen'[c] = <<>> /\ db' = db
        /\ "restored" \in CallPc /\ <<>> \in Seq(Nat)
    BY <1>1, <1>4 DEF TypeOK, Becomes, CallPc
  <1>7. TxKnows(c)'
    BY <1>1, <1>2, <1>3, <1>5, <1>6 DEF TxKnows
  <1>8. CleanupKnows(c)' /\ CallKnows(c)'
    BY <1>3, <1>5, <1>6 DEF CleanupKnows, CallKnows
  <1>9. /\ t.claimed \subseteq t.checked /\ (t.begun => t.open) /\ (t.wrote => t.begun)
        /\ (t.wrote => \A o \in Clients \ {c} : ~tx[o].wrote)
    BY <1>1, <1>5 DEF TypeOK, OneWriter
  <1>10. QED
    BY <1>4, <1>5, <1>6, <1>7, <1>8, <1>9, LocalStep

(* A call that fails. *)
LEMMA CallFailsStep ==
  ASSUME StorageInv, NEW c \in Clients, CallFails(c), calls' \in 0 .. MaxCalls
  PROVE  StorageInv'
  <1> DEFINE t == IF tx[c].own THEN ClosedTx ELSE tx[c]
  <1>1. /\ pc[c] # "idle" /\ pc[c] # "verify" /\ TypeOK /\ TxKnows(c) /\ CallKnows(c)
        /\ OneWriter /\ tx[c] \in Transaction
    BY DEF CallFails, StorageInv, TypeOK
  <1>2. Becomes(c, t, "idle", <<>>)
    BY DEF CallFails, Fails, Becomes, To
  <1>3. /\ t \in Transaction /\ ~t.own
        /\ tx[c].own => /\ t.copy = Nothing /\ t.claimed = {} /\ t.checked = {}
                        /\ ~t.begun /\ ~t.wrote /\ ~t.open /\ t.fresh /\ t.view.shape = "schema"
        /\ ~tx[c].own => t = tx[c]
    BY <1>1, NewTransactions DEF ClosedTx, EmptyDb
  <1> HIDE DEF t
  <1>4. /\ tx'[c] = t /\ pc'[c] = "idle" /\ seen'[c] = <<>> /\ db' = db
        /\ "idle" \in CallPc /\ <<>> \in Seq(Nat)
    BY <1>1, <1>2 DEF TypeOK, Becomes, CallPc
  <1>5. TxKnows(c)'
    BY <1>1, <1>3, <1>4 DEF TxKnows, CallKnows
  <1>6. CleanupKnows(c)' /\ CallKnows(c)'
    BY <1>3, <1>4 DEF CleanupKnows, CallKnows
  <1>7. /\ t.claimed \subseteq t.checked /\ (t.begun => t.open) /\ (t.wrote => t.begun)
        /\ (t.wrote => \A o \in Clients \ {c} : ~tx[o].wrote)
        /\ t.copy = tx[c].copy \/ t.copy = Nothing
    BY <1>1, <1>3 DEF TypeOK, OneWriter
  <1>8. QED
    BY <1>2, <1>3, <1>4, <1>5, <1>6, <1>7, LocalStep

(* What a commit makes of the backup file. *)
LEMMA MergedFacts ==
  ASSUME NEW f \in Copies, NEW g \in Copies
  PROVE  /\ Merged(f, g) \in Copies
         /\ f = Nothing => Merged(f, g) = g
         /\ f.made = Tables => Merged(f, g) = f
         /\ "users" \in f.made => "users" \in Merged(f, g).made
  <1>1. Merged(f, g) \in Copies
    BY DEF Merged, Copies
  <1>2. ASSUME f = Nothing PROVE Merged(f, g) = g
    BY <1>2 DEF Merged, Copies, Nothing
  <1>3. ASSUME f.made = Tables PROVE Merged(f, g) = f
    BY <1>3 DEF Merged, Copies, Tables
  <1>4. QED
    BY <1>1, <1>2, <1>3 DEF Merged

(* A commit, for everybody: those who have not written are overtaken if    *)
(* the database changes, and the others have written nothing.              *)
LEMMA CommitFacts ==
  ASSUME StorageInv, NEW c \in Clients, CommitTx(c), pc[c] # "restore",
         \A o \in Clients \ {c} : pc'[o] = pc[o] /\ seen'[o] = seen[o]
  PROVE  /\ db' \in Database /\ TablesPresent'
         /\ tx' \in [Clients -> Transaction] /\ tx'[c] = ClosedTx
         /\ \A o \in Clients \ {c} : Bystander(o) /\ tx'[o].copy = tx[o].copy
         /\ \A o \in Clients :
              /\ tx'[o].claimed \subseteq tx'[o].checked
              /\ tx'[o].begun => tx'[o].open
              /\ tx'[o].wrote => tx'[o].begun
         /\ file' \in [there : BOOLEAN, tables : Copies]
         /\ file'.tables = Merged(tx[c].copy, file.tables) /\ file'.there = file.there
         /\ file'.tables # Nothing => file'.there
  <1> DEFINE d == IF tx[c].wrote THEN tx[c].view ELSE db
  <1>1. tx[c] \in Transaction /\ TypeOK /\ TxKnows(c) /\ OneWriter /\ FileKnows /\ TablesPresent
    BY DEF StorageInv, TypeOK
  <1>2. /\ db' = d /\ tx' = [Overtaken(d) EXCEPT ![c] = ClosedTx]
        /\ file' = [file EXCEPT !.tables = Merged(tx[c].copy, @)]
    BY DEF CommitTx
  <1>3. d \in Database /\ d.shape # "dropped" /\ (d # db => tx[c].wrote)
    BY <1>1 DEF TypeOK, Transaction, TablesPresent, TxKnows
  <1> HIDE DEF d
  <1>4. ASSUME NEW o \in Clients \ {c}
        PROVE  /\ Bystander(o) /\ tx'[o] \in Transaction /\ tx'[o].copy = tx[o].copy
               /\ tx'[o].claimed = tx[o].claimed /\ tx'[o].checked = tx[o].checked
               /\ tx'[o].begun = tx[o].begun /\ tx'[o].open = tx[o].open
               /\ tx'[o].wrote = tx[o].wrote
    <2>1. tx[o] \in Transaction
      BY <1>1 DEF TypeOK
    <2>2. tx'[o] = [tx[o] EXCEPT !.fresh = @ /\ (db' = db \/ ~tx[o].begun)]
      BY <1>2 DEF Overtaken
    <2>3. db' # db => ~tx[o].wrote
      BY <1>1, <1>2, <1>3 DEF OneWriter
    <2>4. Bystander(o)
      BY <2>2, <2>3 DEF Bystander
    <2>5. QED
      BY <2>1, <2>2, <2>4 DEF Transaction
  <1>5. tx'[c] = ClosedTx /\ tx' \in [Clients -> Transaction]
    <2>1. tx'[c] = ClosedTx /\ DOMAIN tx' = Clients
      BY <1>2 DEF Overtaken
    <2>2. \A o \in Clients : tx'[o] \in Transaction
      BY <1>4, <2>1, NewTransactions
    <2>3. tx' = [o \in Clients |-> tx'[o]]
      BY <1>2, <2>1 DEF Overtaken
    <2>4. QED
      BY <2>1, <2>2, <2>3
  <1>6. /\ ClosedTx.claimed \subseteq ClosedTx.checked /\ ~ClosedTx.begun /\ ~ClosedTx.wrote
    BY DEF ClosedTx
  <1>7. /\ file' \in [there : BOOLEAN, tables : Copies]
        /\ file'.tables = Merged(tx[c].copy, file.tables) /\ file'.there = file.there
    <2>1. Merged(tx[c].copy, file.tables) \in Copies
      BY <1>1, MergedFacts DEF TypeOK, Transaction
    <2>2. QED
      BY <1>1, <1>2, <2>1 DEF TypeOK
  <1>8. file'.tables # Nothing => file'.there
    <2>1. tx[c].copy = Nothing => file'.tables = file.tables
      BY <1>1, <1>7, MergedFacts DEF TypeOK, Transaction
    <2>2. tx[c].copy # Nothing => file.there
      BY <1>1 DEF FileKnows
    <2>3. QED
      BY <1>1, <1>7, <2>1, <2>2 DEF TypeOK
  <1>9. \A o \in Clients :
          /\ tx'[o].claimed \subseteq tx'[o].checked
          /\ tx'[o].begun => tx'[o].open
          /\ tx'[o].wrote => tx'[o].begun
    BY <1>1, <1>4, <1>5, <1>6 DEF TypeOK
  <1>10. TablesPresent'
    BY <1>2, <1>3 DEF TablesPresent
  <1>11. QED
    BY <1>2, <1>3, <1>4, <1>5, <1>7, <1>8, <1>9, <1>10

(* The commits that are not a Backup's. *)
LEMMA CommitStep ==
  ASSUME StorageInv, NEW c \in Clients, CommitTx(c), pc[c] # "restore",
         pc' = [pc EXCEPT ![c] = "idle"], seen' = [seen EXCEPT ![c] = <<>>],
         UNCHANGED <<snap, kept, now>>, calls' \in 0 .. MaxCalls
  PROVE  StorageInv'
  <1>1. tx[c] \in Transaction /\ TypeOK /\ FileKnows
    BY DEF StorageInv, TypeOK
  <1>2. /\ pc'[c] = "idle" /\ seen'[c] = <<>>
        /\ \A o \in Clients \ {c} : pc'[o] = pc[o] /\ seen'[o] = seen[o]
    BY <1>1 DEF TypeOK
  <1>3. /\ db' \in Database /\ TablesPresent'
        /\ tx' \in [Clients -> Transaction] /\ tx'[c] = ClosedTx
        /\ \A o \in Clients \ {c} : Bystander(o) /\ tx'[o].copy = tx[o].copy
        /\ \A o \in Clients :
             /\ tx'[o].claimed \subseteq tx'[o].checked
             /\ tx'[o].begun => tx'[o].open
             /\ tx'[o].wrote => tx'[o].begun
        /\ file' \in [there : BOOLEAN, tables : Copies]
        /\ file'.tables = Merged(tx[c].copy, file.tables) /\ file'.there = file.there
        /\ file'.tables # Nothing => file'.there
    BY <1>2, CommitFacts
  <1>4. /\ ClosedTx.copy = Nothing /\ ClosedTx.checked = {} /\ ClosedTx.claimed = {}
        /\ ~ClosedTx.begun /\ ~ClosedTx.wrote /\ ~ClosedTx.open /\ ~ClosedTx.own
        /\ ClosedTx.fresh /\ ClosedTx.view.shape = "schema"
    BY DEF ClosedTx, EmptyDb
  <1>5. TypeOK'
    <2>1. pc' \in [Clients -> CallPc] /\ seen' \in [Clients -> Seq(Nat)]
      BY <1>1 DEF TypeOK, CallPc
    <2>2. QED
      BY <1>1, <1>3, <2>1 DEF TypeOK
  <1>6. FileKnows'
    <2>1. CASE tx[c].copy = Nothing
      <3>1. file'.tables = file.tables
        BY <1>1, <1>3, <2>1, MergedFacts DEF TypeOK, Transaction
      <3>2. \A o \in Clients :
              /\ tx'[o].copy = tx[o].copy \/ tx'[o].copy = Nothing
              /\ pc'[o] = "verify" => pc[o] = "verify" /\ snap'[o] = snap[o]
        BY <1>2, <1>3, <1>4
      <3>3. QED
        BY <1>1, <1>3, <3>1, <3>2, FileStays
    <2>2. CASE tx[c].copy # Nothing
      <3>1. /\ file.tables.made = {} /\ kept = Nothing
            /\ \A o \in Clients : pc[o] # "verify"
            /\ \A o \in Clients \ {c} : tx[o].copy = Nothing
        BY <1>1, <2>2 DEF FileKnows, Tables
      <3>2. "users" \notin file'.tables.made => file'.tables.made = {}
        <4>1. "users" \notin tx[c].copy.made => tx[c].copy.made = {}
          BY <1>1 DEF FileKnows
        <4>2. file'.tables.made = tx[c].copy.made \cup file.tables.made
          BY <1>3 DEF Merged
        <4>3. QED
          BY <3>1, <4>1, <4>2
      <3>3. \A o \in Clients : tx'[o].copy = Nothing /\ pc'[o] # "verify"
        BY <1>2, <1>3, <1>4, <3>1
      <3>4. Nothing.made = {}
        BY DEF Nothing
      <3>5. QED
        BY <3>1, <3>2, <3>3, <3>4 DEF FileKnows
    <2>3. QED
      BY <2>1, <2>2
  <1>7. TxKnows(c)' /\ CleanupKnows(c)' /\ CallKnows(c)'
    BY <1>2, <1>3, <1>4 DEF TxKnows, CleanupKnows, CallKnows
  <1>8. ~tx'[c].wrote /\ now' = now
    BY <1>3, <1>4
  <1>9. QED
    BY <1>3, <1>5, <1>6, <1>7, <1>8, ClientStep

(* The commit of a Backup. *)
LEMMA BackupCommitStep ==
  ASSUME StorageInv, NEW c \in Clients, BackupCommit(c), calls' \in 0 .. MaxCalls
  PROVE  StorageInv'
  <1> DEFINE k == Contents(tx[c].view)
  <1>1. /\ tx[c] \in Transaction /\ TypeOK /\ FileKnows /\ CallKnows(c) /\ pc[c] = "copied"
    BY DEF BackupCommit, StorageInv, TypeOK
  <1>2. /\ CommitTx(c) /\ snap' = [snap EXCEPT ![c] = k] /\ pc' = [pc EXCEPT ![c] = "verify"]
        /\ UNCHANGED <<seen, kept, now>>
    BY DEF BackupCommit, To
  <1>3. /\ pc'[c] = "verify" /\ seen'[c] = <<>>
        /\ \A o \in Clients \ {c} : pc'[o] = pc[o] /\ seen'[o] = seen[o]
    BY <1>1, <1>2 DEF TypeOK, CallKnows
  <1>4. /\ db' \in Database /\ TablesPresent'
        /\ tx' \in [Clients -> Transaction] /\ tx'[c] = ClosedTx
        /\ \A o \in Clients \ {c} : Bystander(o) /\ tx'[o].copy = tx[o].copy
        /\ \A o \in Clients :
             /\ tx'[o].claimed \subseteq tx'[o].checked
             /\ tx'[o].begun => tx'[o].open
             /\ tx'[o].wrote => tx'[o].begun
        /\ file' \in [there : BOOLEAN, tables : Copies]
        /\ file'.tables = Merged(tx[c].copy, file.tables) /\ file'.there = file.there
        /\ file'.tables # Nothing => file'.there
    BY <1>1, <1>2, <1>3, CommitFacts
  <1>5. /\ ClosedTx.copy = Nothing /\ ClosedTx.checked = {} /\ ClosedTx.claimed = {}
        /\ ~ClosedTx.begun /\ ~ClosedTx.wrote /\ ~ClosedTx.open /\ ~ClosedTx.own
        /\ ClosedTx.fresh /\ ClosedTx.view.shape = "schema"
    BY DEF ClosedTx, EmptyDb
  <1>6. k \in Copies /\ k.made = Tables /\ k = tx[c].copy
    <2>1. tx[c].copy \in Copies /\ tx[c].view \in Database
      BY <1>1 DEF Transaction
    <2>2. /\ tx[c].copy.made = Tables /\ tx[c].copy.users = tx[c].view.users
          /\ tx[c].copy.tokens = tx[c].view.tokens /\ tx[c].copy.emails = tx[c].view.emails
      BY <1>1 DEF CallKnows, Tables
    <2>3. k \in Copies /\ k.made = Tables
      BY <2>1 DEF Contents, Copies, Database
    <2>4. k = tx[c].copy
      BY <2>1, <2>2 DEF Contents, Copies
    <2>5. QED
      BY <2>3, <2>4
  <1> HIDE DEF k
  <1>7. file'.tables = k
    BY <1>1, <1>4, <1>6, MergedFacts DEF TypeOK
  <1>8. TypeOK'
    <2>1. /\ pc' \in [Clients -> CallPc] /\ seen' \in [Clients -> Seq(Nat)]
          /\ snap' \in [Clients -> Copies]
      BY <1>1, <1>2, <1>6 DEF TypeOK, CallPc
    <2>2. QED
      BY <1>1, <1>2, <1>4, <2>1 DEF TypeOK
  <1>9. FileKnows'
    <2>1. tx[c].copy # Nothing
      BY <1>6 DEF Nothing, Tables
    <2>2. /\ file.tables.made = {} /\ kept = Nothing
          /\ \A o \in Clients : pc[o] # "verify"
          /\ \A o \in Clients \ {c} : tx[o].copy = Nothing
      BY <1>1, <2>1 DEF FileKnows, Tables
    <2>3. \A o \in Clients : tx'[o].copy = Nothing /\ (pc'[o] = "verify" => o = c)
      BY <1>3, <1>4, <1>5, <2>2
    <2>4. snap'[c] = k /\ kept' = Nothing
      BY <1>1, <1>2, <2>2 DEF TypeOK
    <2>5. "users" \in k.made /\ Nothing.made = {}
      BY <1>6 DEF Tables, Nothing
    <2>6. QED
      BY <1>6, <1>7, <2>3, <2>4, <2>5 DEF FileKnows
  <1>10. TxKnows(c)' /\ CleanupKnows(c)' /\ CallKnows(c)'
    BY <1>3, <1>4, <1>5 DEF TxKnows, CleanupKnows, CallKnows
  <1>11. ~tx'[c].wrote /\ now' = now
    BY <1>2, <1>4, <1>5
  <1>12. QED
    BY <1>4, <1>8, <1>9, <1>10, <1>11, ClientStep

(* The copy of the next table, as a function of what was copied before. *)
LEMMA CopiedFacts ==
  ASSUME NEW t \in Transaction, "users" \notin t.copy.made => t.copy.made = {},
         "users" \in t.copy.made => t.copy.users = t.view.users,
         "tokens" \in t.copy.made => t.copy.tokens = t.view.tokens,
         "emails" \in t.copy.made => t.copy.emails = t.view.emails
  PROVE  LET table == NextTable(t.copy.made)
             n == [t EXCEPT !.copy.made = @ \cup {table}, !.copy[table] = Selected(t, table)]
         IN /\ table \in Tables
            /\ n \in Transaction /\ n.open = t.open /\ n.own = t.own /\ n.begun = t.begun
            /\ n.fresh = t.fresh /\ n.wrote = t.wrote /\ n.view = t.view
            /\ n.checked = t.checked /\ n.claimed = t.claimed
            /\ "users" \in n.copy.made /\ n.copy.users = t.view.users
            /\ "tokens" \in n.copy.made => n.copy.tokens = t.view.tokens
            /\ "emails" \in n.copy.made => n.copy.emails = t.view.emails
            /\ t.copy.made = {} => table = "users"
  <1> DEFINE table == NextTable(t.copy.made)
             n == [t EXCEPT !.copy.made = @ \cup {table}, !.copy[table] = Selected(t, table)]
             Goal == /\ table \in Tables
                     /\ n \in Transaction /\ n.open = t.open /\ n.own = t.own
                     /\ n.begun = t.begun /\ n.fresh = t.fresh /\ n.wrote = t.wrote
                     /\ n.view = t.view /\ n.checked = t.checked /\ n.claimed = t.claimed
                     /\ "users" \in n.copy.made /\ n.copy.users = t.view.users
                     /\ "tokens" \in n.copy.made => n.copy.tokens = t.view.tokens
                     /\ "emails" \in n.copy.made => n.copy.emails = t.view.emails
                     /\ t.copy.made = {} => table = "users"
  <1> SUFFICES Goal
    OBVIOUS
  <1>1. t.copy \in Copies /\ t.view \in Database
    BY DEF Transaction
  <1>2. CASE "users" \notin t.copy.made
    <2>1. table = "users"
      BY <1>2 DEF NextTable
    <2>2. n = [t EXCEPT !.copy = [t.copy EXCEPT !.made = t.copy.made \cup {"users"},
                                                !.users = t.view.users]]
      BY <2>1, <1>1 DEF Selected, Copies, Transaction
    <2> DEFINE f == [t.copy EXCEPT !.made = t.copy.made \cup {"users"}, !.users = t.view.users]
    <2>3. /\ f \in Copies /\ f.made = t.copy.made \cup {"users"} /\ f.users = t.view.users
          /\ f.tokens = t.copy.tokens /\ f.emails = t.copy.emails
      BY <1>1 DEF Copies, Database, Tables
    <2> HIDE DEF f, table, n
    <2>4. /\ n \in Transaction /\ n.open = t.open /\ n.own = t.own /\ n.begun = t.begun
          /\ n.fresh = t.fresh /\ n.wrote = t.wrote /\ n.view = t.view
          /\ n.checked = t.checked /\ n.claimed = t.claimed /\ n.copy = f
      BY <2>2, <2>3 DEF Transaction, f
    <2>5. QED
      BY <1>1, <1>2, <2>1, <2>3, <2>4 DEF Copies, Tables
  <1>3. CASE "users" \in t.copy.made /\ "tokens" \notin t.copy.made
    <2>1. table = "tokens"
      BY <1>3 DEF NextTable
    <2>2. n = [t EXCEPT !.copy = [t.copy EXCEPT !.made = t.copy.made \cup {"tokens"},
                                                !.tokens = t.view.tokens]]
      BY <2>1, <1>1 DEF Selected, Copies, Transaction
    <2> DEFINE f == [t.copy EXCEPT !.made = t.copy.made \cup {"tokens"}, !.tokens = t.view.tokens]
    <2>3. /\ f \in Copies /\ f.made = t.copy.made \cup {"tokens"} /\ f.tokens = t.view.tokens
          /\ f.users = t.copy.users /\ f.emails = t.copy.emails
      BY <1>1 DEF Copies, Database, Tables
    <2> HIDE DEF f, table, n
    <2>4. /\ n \in Transaction /\ n.open = t.open /\ n.own = t.own /\ n.begun = t.begun
          /\ n.fresh = t.fresh /\ n.wrote = t.wrote /\ n.view = t.view
          /\ n.checked = t.checked /\ n.claimed = t.claimed /\ n.copy = f
      BY <2>2, <2>3 DEF Transaction, f
    <2>5. QED
      BY <1>1, <1>3, <2>1, <2>3, <2>4 DEF Copies, Tables
  <1>4. CASE "users" \in t.copy.made /\ "tokens" \in t.copy.made
    <2>1. table = "emails"
      BY <1>4 DEF NextTable
    <2>2. n = [t EXCEPT !.copy = [t.copy EXCEPT !.made = t.copy.made \cup {"emails"},
                                                !.emails = t.view.emails]]
      BY <2>1, <1>1 DEF Selected, Copies, Transaction
    <2> DEFINE f == [t.copy EXCEPT !.made = t.copy.made \cup {"emails"}, !.emails = t.view.emails]
    <2>3. /\ f \in Copies /\ f.made = t.copy.made \cup {"emails"} /\ f.emails = t.view.emails
          /\ f.users = t.copy.users /\ f.tokens = t.copy.tokens
      BY <1>1 DEF Copies, Database, Tables
    <2> HIDE DEF f, table, n
    <2>4. /\ n \in Transaction /\ n.open = t.open /\ n.own = t.own /\ n.begun = t.begun
          /\ n.fresh = t.fresh /\ n.wrote = t.wrote /\ n.view = t.view
          /\ n.checked = t.checked /\ n.claimed = t.claimed /\ n.copy = f
      BY <2>2, <2>3 DEF Transaction, f
    <2>5. QED
      BY <1>1, <1>4, <2>1, <2>3, <2>4 DEF Copies, Tables
  <1>5. QED
    BY <1>2, <1>3, <1>4

(* CREATE TABLE ... AS SELECT of a Backup: nobody has copied or keeps      *)
(* anything in a file that the copy can be written to.                     *)
LEMMA CopyTableStep ==
  ASSUME StorageInv, NEW c \in Clients, CopyTable(c), calls' \in 0 .. MaxCalls
  PROVE  StorageInv'
  <1> DEFINE t == Snapshot(tx[c])
             table == NextTable(t.copy.made)
             n == [t EXCEPT !.copy.made = @ \cup {table}, !.copy[table] = Selected(t, table)]
  <1>1. /\ tx[c] \in Transaction /\ TypeOK /\ TxKnows(c) /\ CallKnows(c) /\ OneWriter /\ FileKnows
        /\ TablesPresent
    BY DEF StorageInv, TypeOK
  <1>2. /\ pc[c] = "copy" /\ table \notin file.tables.made
        /\ \A o \in Clients \ {c} : tx[o].copy = Nothing
        /\ tx' = [tx EXCEPT ![c] = n] /\ file' = [file EXCEPT !.there = TRUE]
        /\ UNCHANGED <<db, pc, seen, snap, kept, now>>
    BY DEF CopyTable
  <1>3. /\ t \in Transaction /\ t.begun = TRUE /\ t.view = View(c)
        /\ t.open = tx[c].open /\ t.own = tx[c].own /\ t.fresh = tx[c].fresh
        /\ t.wrote = tx[c].wrote /\ t.copy = tx[c].copy
        /\ t.checked = tx[c].checked /\ t.claimed = tx[c].claimed
    BY <1>1, SnapshotFacts DEF View
  <1>4. tx[c].copy.made # {} => View(c) = tx[c].view
    BY <1>1, <1>2, SnapshotFacts DEF CallKnows, View
  <1> HIDE DEF t
  <1>5. /\ "users" \notin t.copy.made => t.copy.made = {}
        /\ "users" \in t.copy.made => t.copy.users = t.view.users
        /\ "tokens" \in t.copy.made => t.copy.tokens = t.view.tokens
        /\ "emails" \in t.copy.made => t.copy.emails = t.view.emails
    BY <1>1, <1>2, <1>3, <1>4 DEF CallKnows, FileKnows
  <1>6. /\ table \in Tables
        /\ n \in Transaction /\ n.open = t.open /\ n.own = t.own /\ n.begun = t.begun
        /\ n.fresh = t.fresh /\ n.wrote = t.wrote /\ n.view = t.view
        /\ n.checked = t.checked /\ n.claimed = t.claimed
        /\ "users" \in n.copy.made /\ n.copy.users = t.view.users
        /\ "tokens" \in n.copy.made => n.copy.tokens = t.view.tokens
        /\ "emails" \in n.copy.made => n.copy.emails = t.view.emails
        /\ t.copy.made = {} => table = "users"
    BY <1>3, <1>5, CopiedFacts
  <1> HIDE DEF n, table
  <1>7. /\ tx'[c] = n /\ pc'[c] = "copy" /\ seen'[c] = <<>> /\ db' = db /\ now' = now
        /\ \A o \in Clients \ {c} : Bystander(o) /\ tx'[o] = tx[o] /\ pc'[o] = pc[o]
    BY <1>1, <1>2 DEF TypeOK, CallKnows, Bystander
  <1>8. file.tables.made = {}
    <2>1. CASE tx[c].copy = Nothing
      <3>1. table = "users"
        BY <1>3, <1>6, <2>1 DEF Nothing
      <3>2. QED
        BY <1>1, <1>2, <3>1 DEF FileKnows
    <2>2. QED
      BY <1>1, <2>1 DEF FileKnows
  <1>9. /\ file' \in [there : BOOLEAN, tables : Copies] /\ file'.tables = file.tables
         /\ file'.there
    BY <1>1, <1>2 DEF TypeOK
  <1>10. TypeOK'
    <2>1. tx' \in [Clients -> Transaction] /\ pc' \in [Clients -> CallPc]
      BY <1>1, <1>2, <1>6 DEF TypeOK
    <2>2. \A o \in Clients :
            /\ tx'[o].claimed \subseteq tx'[o].checked
            /\ tx'[o].begun => tx'[o].open
            /\ tx'[o].wrote => tx'[o].begun
      BY <1>1, <1>2, <1>3, <1>6, <1>7 DEF TypeOK, CallKnows
    <2>3. QED
      BY <1>1, <1>2, <1>9, <2>1, <2>2 DEF TypeOK
  <1>11. FileKnows'
    <2>1. kept = Nothing /\ \A o \in Clients : pc[o] # "verify"
      BY <1>1, <1>8 DEF FileKnows, Tables
    <2>2. \A o \in Clients : pc'[o] # "verify"
      BY <1>7, <2>1
    <2>3. \A o \in Clients : tx'[o].copy # Nothing => o = c
      BY <1>2, <1>7
    <2>4. Nothing.made = {}
      BY DEF Nothing
    <2>5. \A o \in Clients : "users" \notin tx'[o].copy.made => tx'[o].copy.made = {}
      BY <1>6, <1>7, <2>3, <2>4
    <2>6. QED
      BY <1>2, <1>8, <1>9, <2>1, <2>2, <2>3, <2>5 DEF FileKnows
  <1>12. TxKnows(c)'
    BY <1>1, <1>2, <1>3, <1>6, <1>7, ViewFacts DEF TxKnows, CallKnows
  <1>13. CleanupKnows(c)' /\ CallKnows(c)'
    BY <1>1, <1>2, <1>3, <1>6, <1>7 DEF CleanupKnows, CallKnows
  <1>14. tx'[c].wrote => \A o \in Clients \ {c} : ~tx[o].wrote
    BY <1>1, <1>3, <1>6, <1>7 DEF OneWriter
  <1>15. TablesPresent'
    BY <1>1, <1>7 DEF TablesPresent
  <1>16. QED
    BY <1>7, <1>10, <1>11, <1>12, <1>13, <1>14, <1>15, ClientStep

(* DETACH DATABASE at the end of a copy. *)
LEMMA DetachStep ==
  ASSUME StorageInv, NEW c \in Clients, Detach(c), calls' \in 0 .. MaxCalls
  PROVE  StorageInv'
  <1> DEFINE t == tx[c]
             l == IF t.own THEN "copied" ELSE "idle"
  <1>1. /\ pc[c] = "copy" /\ t.copy.made = Tables /\ TypeOK /\ TxKnows(c) /\ CallKnows(c)
        /\ OneWriter /\ t \in Transaction
    BY DEF Detach, StorageInv, TypeOK
  <1>2. l \in {"copied", "idle"} /\ l \in CallPc /\ (l = "copied" <=> t.own)
    BY DEF CallPc
  <1>3. seen[c] = <<>> /\ <<>> \in Seq(Nat)
    BY <1>1 DEF CallKnows
  <1>4. Becomes(c, t, l, <<>>)
    BY <1>1, <1>3 DEF Detach, Becomes, To, TypeOK
  <1> HIDE DEF l
  <1>5. tx'[c] = t /\ pc'[c] = l /\ seen'[c] = <<>> /\ db' = db
    BY <1>1, <1>4 DEF TypeOK, Becomes
  <1>6. TxKnows(c)'
    BY <1>1, <1>2, <1>5 DEF TxKnows
  <1>7. CleanupKnows(c)' /\ CallKnows(c)'
    BY <1>1, <1>2, <1>5 DEF CleanupKnows, CallKnows
  <1>8. /\ t.claimed \subseteq t.checked /\ (t.begun => t.open) /\ (t.wrote => t.begun)
        /\ (t.wrote => \A o \in Clients \ {c} : ~tx[o].wrote)
    BY <1>1 DEF TypeOK, OneWriter
  <1> HIDE DEF t
  <1>9. t.copy = tx[c].copy /\ l # "verify"
    BY <1>2 DEF t
  <1>10. QED
    BY <1>1, <1>2, <1>3, <1>4, <1>6, <1>7, <1>8, <1>9, LocalStep

(* A refused DETACH is a failure like another. *)
LEMMA RefusedFails ==
  ASSUME NEW c \in Clients, DetachRefused(c)
  PROVE  CallFails(c)
  BY DEF DetachRefused, CallFails

(* A count of verifyBackup that agrees. *)
LEMMA VerifyStep ==
  ASSUME StorageInv, NEW c \in Clients, verifyBackup(c), calls' \in 0 .. MaxCalls
  PROVE  StorageInv'
  <1>1. /\ tx[c] \in Transaction /\ TypeOK /\ TxKnows(c) /\ CallKnows(c) /\ OneWriter /\ FileKnows
        /\ TablesPresent /\ pc[c] = "verify" /\ seen[c] \in Seq(Nat)
    BY DEF StorageInv, TypeOK, verifyBackup
  <1>2. /\ UNCHANGED <<db, tx, file, now>>
        /\ \A o \in Clients \ {c} : Bystander(o) /\ pc'[o] = pc[o] /\ snap'[o] = snap[o]
    BY <1>1 DEF verifyBackup, To, TypeOK, Bystander
  <1>3. /\ ~tx[c].open /\ Len(seen[c]) <= 2 /\ Len(seen[c]) \in Nat
        /\ file.tables = snap[c] /\ snap[c].made = Tables /\ kept = Nothing
        /\ \A o \in Clients \ {c} : pc[o] # "verify"
        /\ \A o \in Clients : tx[o].copy = Nothing
    BY <1>1 DEF CallKnows, FileKnows, Tables
  <1>4. CASE Verified(c) # "emails"
    <2> DEFINE q == Append(seen[c], Cardinality(db[Verified(c)]))
    <2>1. Verified(c) \in {"users", "tokens"} /\ Len(seen[c]) \in {0, 1}
      <3>1. Len(seen[c]) \in {0, 1, 2}
        <4>1. \A i \in Nat : i <= 2 => i \in {0, 1, 2}
          OBVIOUS
        <4>2. QED
          BY <1>3, <4>1
      <3>2. ASSUME NEW i \in {0, 1, 2}
            PROVE  <<"users", "tokens", "emails">>[i + 1] =
                     IF i = 0 THEN "users" ELSE IF i = 1 THEN "tokens" ELSE "emails"
        OBVIOUS
      <3>3. QED
        BY <1>4, <3>1, <3>2 DEF Verified
    <2>2. Cardinality(db[Verified(c)]) \in Nat
      BY <1>1, <2>1, CountsAreNumbers DEF TypeOK
    <2>3. q \in Seq(Nat) /\ Len(q) <= 2
      BY <1>1, <2>1, <2>2, AppendToFew
    <2>4. /\ seen' = [seen EXCEPT ![c] = q] /\ UNCHANGED <<pc, snap, kept>>
      BY <1>4 DEF verifyBackup
    <2> HIDE DEF q
    <2>5. TypeOK' /\ TablesPresent'
      BY <1>1, <1>2, <2>3, <2>4 DEF TypeOK, TablesPresent
    <2>6. FileKnows'
      BY <1>1, <1>2, <2>4 DEF FileKnows
    <2>7. seen'[c] = q /\ pc'[c] = "verify" /\ tx'[c] = tx[c] /\ db' = db
      BY <1>1, <1>2, <2>4 DEF TypeOK
    <2>8. TxKnows(c)' /\ CleanupKnows(c)' /\ CallKnows(c)'
      BY <1>1, <1>3, <2>3, <2>7 DEF TxKnows, CleanupKnows, CallKnows
    <2>9. tx'[c].wrote => \A o \in Clients \ {c} : ~tx[o].wrote
      BY <1>1, <2>7 DEF OneWriter
    <2>10. QED
      BY <1>2, <2>5, <2>6, <2>8, <2>9, ClientStep
  <1>5. CASE Verified(c) = "emails"
    <2>1. /\ seen' = [seen EXCEPT ![c] = <<>>] /\ pc' = [pc EXCEPT ![c] = "idle"]
          /\ kept' = snap[c] /\ snap' = [snap EXCEPT ![c] = Nothing]
      BY <1>5 DEF verifyBackup, To
    <2>2. TypeOK' /\ TablesPresent'
      <3>1. Nothing \in Copies
        BY DEF Nothing, Copies
      <3>2. /\ pc' \in [Clients -> CallPc] /\ seen' \in [Clients -> Seq(Nat)]
            /\ snap' \in [Clients -> Copies] /\ kept' \in Copies
        BY <1>1, <2>1, <3>1 DEF TypeOK, CallPc
      <3>3. QED
        BY <1>1, <1>2, <3>2 DEF TypeOK, TablesPresent
    <2>3. seen'[c] = <<>> /\ pc'[c] = "idle" /\ tx'[c] = tx[c] /\ db' = db
      BY <1>1, <1>2, <2>1 DEF TypeOK
    <2>4. FileKnows'
      <3>1. \A o \in Clients : pc'[o] # "verify"
        BY <1>2, <1>3, <2>3
      <3>2. "users" \in file.tables.made /\ Nothing.made = {}
        BY <1>3 DEF Tables, Nothing
      <3>3. QED
        BY <1>2, <1>3, <2>1, <3>1, <3>2 DEF FileKnows
    <2>5. TxKnows(c)' /\ CleanupKnows(c)' /\ CallKnows(c)'
      BY <1>1, <1>3, <2>3 DEF TxKnows, CleanupKnows, CallKnows
    <2>6. tx'[c].wrote => \A o \in Clients \ {c} : ~tx[o].wrote
      BY <1>1, <2>3 DEF OneWriter
    <2>7. QED
      BY <1>2, <2>2, <2>4, <2>5, <2>6, ClientStep
  <1>6. QED
    BY <1>4, <1>5

(* A verification that fails. *)
LEMMA DiscardStep ==
  ASSUME StorageInv, NEW c \in Clients, Discard(c), calls' \in 0 .. MaxCalls
  PROVE  StorageInv'
  <1>1. /\ tx[c] \in Transaction /\ TypeOK /\ TxKnows(c) /\ CallKnows(c) /\ OneWriter /\ FileKnows
        /\ TablesPresent /\ pc[c] = "verify"
    BY DEF StorageInv, TypeOK, Discard
  <1>2. /\ UNCHANGED <<db, tx, kept, now>> /\ file' \in {Absent, file}
        /\ seen' = [seen EXCEPT ![c] = <<>>] /\ pc' = [pc EXCEPT ![c] = "idle"]
        /\ snap' = [snap EXCEPT ![c] = Nothing]
    BY DEF Discard, To
  <1>3. /\ seen'[c] = <<>> /\ pc'[c] = "idle" /\ tx'[c] = tx[c] /\ db' = db
        /\ \A o \in Clients \ {c} : Bystander(o) /\ pc'[o] = pc[o]
    BY <1>1, <1>2 DEF TypeOK, Bystander
  <1>4. /\ ~tx[c].open /\ "users" \in file.tables.made /\ kept = Nothing
        /\ \A o \in Clients \ {c} : pc[o] # "verify"
        /\ \A o \in Clients : tx[o].copy = Nothing
    BY <1>1 DEF CallKnows, FileKnows, Tables
  <1>5. TypeOK' /\ TablesPresent'
    <2>1. Nothing \in Copies
      BY DEF Nothing, Copies
    <2>2. /\ pc' \in [Clients -> CallPc] /\ seen' \in [Clients -> Seq(Nat)]
          /\ snap' \in [Clients -> Copies]
      BY <1>1, <1>2, <2>1 DEF TypeOK, CallPc
    <2>3. file' \in [there : BOOLEAN, tables : Copies] /\ (file'.tables # Nothing => file'.there)
      <3>1. CASE file' = file
        BY <1>1, <3>1 DEF TypeOK
      <3>2. CASE file' = [there |-> FALSE, tables |-> Nothing]
        BY <2>1, <3>2
      <3>3. QED
        BY <1>2, <3>1, <3>2 DEF Absent
    <2>4. QED
      BY <1>1, <1>2, <2>2, <2>3 DEF TypeOK, TablesPresent
  <1>6. FileKnows'
    <2>1. \A o \in Clients : pc'[o] # "verify"
      BY <1>3, <1>4
    <2>2. Nothing.made = {}
      BY DEF Nothing
    <2>3. "users" \notin file'.tables.made => file'.tables.made = {}
      BY <1>2, <1>4, <2>2 DEF Absent
    <2>4. QED
      BY <1>2, <1>4, <2>1, <2>2, <2>3 DEF FileKnows
  <1>7. TxKnows(c)' /\ CleanupKnows(c)' /\ CallKnows(c)'
    BY <1>1, <1>3, <1>4 DEF TxKnows, CleanupKnows, CallKnows
  <1>8. tx'[c].wrote => \A o \in Clients \ {c} : ~tx[o].wrote
    BY <1>1, <1>3 DEF OneWriter
  <1>9. QED
    BY <1>2, <1>3, <1>5, <1>6, <1>7, <1>8, ClientStep

-----------------------------------------------------------------------------
(* Every step. *)

(* A call on s of one statement. *)
LEMMA DirectCalls ==
  ASSUME StorageInv, calls' \in 0 .. MaxCalls,
         \/ \E u \in Users : OnUser(u)
         \/ \E p \in Emails : MarkEmailProcessed(p)
         \/ CleanupProcessedEmails \/ CleanupInvalidTokens
  PROVE  StorageInv'
  <1>1. db \in Database /\ db.shape # "dropped" /\ TypeOK
    BY DEF StorageInv, TypeOK, TablesPresent
  <1>2. ASSUME NEW u \in Users, OnUser(u) PROVE StorageInv'
    <2>1. CASE CreateUser(u)
      BY <1>1, <2>1, InsertsKeepType, ExecStep DEF CreateUser
    <2>2. CASE UpdateUser(u)
      BY <1>1, <2>2, UpdatesKeepType, ExecStep DEF UpdateUser
    <2>3. CASE StoreToken(u)
      BY <1>1, <2>3, PutsKeepType, ExecStep DEF StoreToken
    <2>4. CASE DeleteToken(u)
      BY <1>1, <2>4, DeletesKeepType, ExecStep DEF DeleteToken
    <2>5. QED
      BY <1>2, <2>1, <2>2, <2>3, <2>4 DEF OnUser
  <1>3. ASSUME NEW p \in Emails, MarkEmailProcessed(p) PROVE StorageInv'
    BY <1>1, <1>3, PutsKeepType, ExecStep DEF MarkEmailProcessed
  <1>4. CASE CleanupProcessedEmails
    BY <1>1, <1>4, DeletesKeepType, ExecStep DEF CleanupProcessedEmails
  <1>5. CASE CleanupInvalidTokens
    BY <1>1, <1>5, DeletesKeepType, ExecStep DEF CleanupInvalidTokens
  <1>6. QED
    BY <1>2, <1>3, <1>4, <1>5

(* A call on t. *)
LEMMA TxCalls ==
  ASSUME StorageInv, calls' \in 0 .. MaxCalls, NEW c \in Clients, TxCall(c)
  PROVE  StorageInv'
  <1>1. TypeOK /\ View(c) \in Database /\ (InTx(c) => View(c).shape # "dropped")
    BY ViewFacts DEF StorageInv, InTx
  <1>2. CASE BeginTx(c)
    BY <1>2, BeginStep
  <1>3. CASE TxGetUser(c) \/ TxGetToken(c) \/ TxGetUserMetrics(c) \/ TxGetMigrationStatus(c)
    BY <1>3, TxReadStep DEF TxGetUser, TxGetToken, TxGetUserMetrics, TxGetMigrationStatus
  <1>4. CASE TxCleanupInactiveUsers(c)
    BY <1>4, DeleteTokensStep DEF TxCleanupInactiveUsers
  <1>5. CASE TxGetMetrics(c)
    BY <1>5, CountUsersStep DEF TxGetMetrics
  <1>6. CASE TxBackup(c)
    BY <1>6, OpenBackupStep DEF TxBackup
  <1>7. ASSUME NEW d \in Database, d.shape = View(c).shape, TxExec(c, d) PROVE StorageInv'
    BY <1>1, <1>7, TxExecStep DEF TxExec
  <1>8. CASE TxCleanupProcessedEmails(c)
    BY <1>1, <1>7, <1>8, DeletesKeepType DEF TxCleanupProcessedEmails
  <1>9. CASE TxCleanupInvalidTokens(c)
    BY <1>1, <1>7, <1>9, DeletesKeepType DEF TxCleanupInvalidTokens
  <1>10. ASSUME NEW u \in Users, TxOnUser(c, u) PROVE StorageInv'
    <2>1. CASE TxCreateUser(c, u)
      BY <1>1, <1>7, <2>1, InsertsKeepType DEF TxCreateUser
    <2>2. CASE TxUpdateUser(c, u)
      BY <1>1, <1>7, <2>2, UpdatesKeepType DEF TxUpdateUser
    <2>3. CASE TxStoreToken(c, u)
      <3>1. View(c).shape = "schema" /\ TxExec(c, PutToken(View(c), u))
        BY <2>3 DEF TxStoreToken
      <3>2. 1 \in RowIds
        BY StorageNumbers DEF RowIds
      <3>3. Puttable(View(c), OfUser(View(c).tokens, u))
        BY <3>1, <3>2 DEF Puttable, Unreplaced, HasRoom
      <3>4. QED
        BY <1>1, <1>7, <3>1, <3>3, PutsKeepType
    <2>4. QED
      BY <1>10, <2>1, <2>2, <2>3 DEF TxOnUser
  <1>11. ASSUME NEW p \in Emails, TxMarkEmailProcessed(c, p) \/ TxIsEmailProcessed(c, p)
         PROVE  StorageInv'
    BY <1>11, TxMarkStep, TxCheckStep
  <1>12. QED
    BY <1>2, <1>3, <1>4, <1>5, <1>6, <1>8, <1>9, <1>10, <1>11 DEF TxCall

(* The rest of a call, and the end of a transaction. *)
LEMMA Continues ==
  ASSUME StorageInv, calls' \in 0 .. MaxCalls, NEW c \in Clients, Continue(c)
  PROVE  StorageInv'
  <1>1. CASE Commit(c)
    <2>1. pc[c] = "idle" /\ CommitTx(c) /\ UNCHANGED <<pc, seen, snap, kept, now>>
      BY <1>1 DEF Commit, InTx
    <2>2. pc' = [pc EXCEPT ![c] = "idle"] /\ seen' = [seen EXCEPT ![c] = <<>>]
      BY <2>1 DEF StorageInv, TypeOK, CallKnows
    <2>3. QED
      BY <2>1, <2>2, CommitStep
  <1>2. CASE Rollback(c)
    BY <1>2, RollbackStep
  <1>3. CASE VerifyError(c) \/ CallFails(c)
    BY <1>3, DiscardStep, CallFailsStep DEF VerifyError
  <1>4. CASE GoOn(c)
    <2>1. CASE CleanupUsers(c)
      BY <2>1, CleanupUsersStep
    <2>2. CASE OwnCommit(c)
      BY <2>2, CommitStep DEF OwnCommit, To
    <2>3. CASE MetricsEmails(c) \/ MetricsTokens(c)
      BY <2>3, MetricsEmailsStep, MetricsTokensStep
    <2>4. CASE CopyTable(c) \/ Detach(c) \/ DetachRefused(c)
      BY <2>4, CopyTableStep, DetachStep, RefusedFails, CallFailsStep
    <2>5. CASE BackupCommit(c) \/ verifyBackup(c) \/ VerifyMismatch(c)
      BY <2>5, BackupCommitStep, VerifyStep, DiscardStep DEF VerifyMismatch
    <2>6. CASE RestoreCopy(c)
      BY <2>6, RestoreCopyStep
    <2>7. QED
      BY <1>4, <2>1, <2>2, <2>3, <2>4, <2>5, <2>6 DEF GoOn
  <1>5. QED
    BY <1>1, <1>2, <1>3, <1>4 DEF Continue

(* No step breaks the invariant. *)
LEMMA StorageStep == StorageInv /\ [Next]_storageVars => StorageInv'
  <1> SUFFICES ASSUME StorageInv, [Next]_storageVars PROVE StorageInv'
    OBVIOUS
  <1>1. CASE calls < MaxCalls /\ calls' = calls + 1 /\ Call
    <2>1. calls' \in 0 .. MaxCalls
      BY <1>1, StorageNumbers DEF StorageInv, TypeOK
    <2>2. ASSUME NEW c \in Clients, LongCall(c) PROVE StorageInv'
      BY <2>1, <2>2, DeleteTokensStep, CountUsersStep, OpenBackupStep, RestoreDropStep
      DEF LongCall, CleanupInactiveUsers, GetMetrics, Backup
    <2>3. QED
      BY <1>1, <2>1, <2>2, DirectCalls, TxCalls DEF Call
  <1>2. CASE UNCHANGED calls /\ ((\E c \in Clients : Continue(c)) \/ Crash \/ Tick)
    <2>1. calls' \in 0 .. MaxCalls
      BY <1>2 DEF StorageInv, TypeOK
    <2>2. QED
      BY <1>2, <2>1, Continues, CrashStep, TickStep
  <1>3. CASE UNCHANGED storageVars
    <2>1. calls' \in 0 .. MaxCalls
      BY <1>3 DEF StorageInv, TypeOK, storageVars
    <2>2. \A c \in Clients : Bystander(c)
      BY <1>3 DEF Bystander, storageVars
    <2>3. TypeOK' /\ TablesPresent'
      BY <1>3 DEF StorageInv, TypeOK, TablesPresent, storageVars
    <2>4. FileKnows'
      BY <1>3, FileStays DEF StorageInv, storageVars
    <2>5. now' \in Int /\ now' >= now
      BY <1>3, StorageNumbers DEF StorageInv, TypeOK, storageVars
    <2>6. QED
      BY <2>2, <2>3, <2>4, <2>5, NobodysStep
  <1>4. QED
    BY <1>1, <1>2, <1>3 DEF Next

(* The invariant holds in every state the storage can be in. *)
THEOREM StorageSafe == Spec => []StorageInv
  BY StorageInit, StorageStep, PTL DEF Spec

-----------------------------------------------------------------------------
(* What the invariant says of the program. *)

(* The storage, its transactions and its backup file are well formed       *)
(* whatever SQLiteStorage and Transaction are asked to do: a transaction   *)
(* that holds a snapshot or has written is one that BeginTx opened and     *)
(* that has not ended.                                                     *)
THEOREM StorageTypeCorrect == Spec => []TypeOK
  <1>1. StorageInv => TypeOK
    BY DEF StorageInv
  <1>2. QED
    BY <1>1, StorageSafe, PTL

(* IsEmailProcessed and MarkEmailProcessed in one transaction: no email    *)
(* that a transaction found unprocessed and marked is marked by anyone     *)
(* else before it commits.                                                 *)
THEOREM CheckedMarkSafe == Spec => []CheckedMarkIsExclusive
  <1>1. StorageInv => CheckedMarkIsExclusive
    BY DEF StorageInv, TypeOK, TxKnows, CheckedMarkIsExclusive
  <1>2. QED
    BY <1>1, StorageSafe, PTL

(* The counts of Transaction.GetMetrics are those of the one state that    *)
(* the transaction sees.                                                   *)
THEOREM TxMetricsSafe == Spec => []TxMetricsAreOneState
  <1>1. StorageInv => TxMetricsAreOneState
    BY DEF StorageInv, CallKnows, TxMetricsAreOneState
  <1>2. QED
    BY <1>1, StorageSafe, PTL

(* The file of a Backup that returned nil holds one committed state and no *)
(* later call changes it.                                                  *)
THEOREM BackupSafe == Spec => []BackupIsSnapshot
  <1>1. StorageInv => BackupIsSnapshot
    BY DEF StorageInv, FileKnows, BackupIsSnapshot
  <1>2. QED
    BY <1>1, StorageSafe, PTL

(* No Restore, whatever happens to it or to the process, leaves the        *)
(* committed database without its tables.                                  *)
THEOREM TablesSafe == Spec => []TablesPresent
  <1>1. StorageInv => TablesPresent
    BY DEF StorageInv
  <1>2. QED
    BY <1>1, StorageSafe, PTL

(* While the cleanup of c has yet to commit, nobody else changes the       *)
(* database.                                                               *)
LEMMA OnlyTheCleanup ==
  ASSUME StorageInv, Next, NEW c \in Clients, pc[c] = "cleaned"
  PROVE  db' = db \/ db' = tx[c].view
  <1>1. tx[c].wrote /\ OneWriter
    BY DEF StorageInv, CleanupKnows
  <1>2. ASSUME NEW o \in Clients, CommitTx(o) PROVE db' = db \/ db' = tx[c].view
    BY <1>1, <1>2 DEF CommitTx, OneWriter
  <1>3. ~\E d : Exec(d)
    BY <1>1 DEF Exec
  <1>4. CASE Call
    <2>1. ASSUME NEW o \in Clients, LongCall(o) PROVE db' = db
      BY <2>1 DEF LongCall, CleanupInactiveUsers, DeleteTokens, GetMetrics, CountUsers, Backup,
                  OpenBackup, RestoreDrop, AfterDrops
    <2>2. ASSUME NEW o \in Clients, TxCall(o) PROVE db' = db
      <3>1. ASSUME NEW d, TxExec(o, d) PROVE db' = db
        BY <3>1 DEF TxExec
      <3>2. ASSUME NEW u \in Users, TxOnUser(o, u) PROVE db' = db
        BY <3>1, <3>2 DEF TxOnUser, TxCreateUser, TxUpdateUser, TxStoreToken
      <3>3. ASSUME NEW p \in Emails, TxMarkEmailProcessed(o, p) \/ TxIsEmailProcessed(o, p)
            PROVE  db' = db
        BY <3>3 DEF TxMarkEmailProcessed, TxIsEmailProcessed
      <3>4. CASE TxCleanupProcessedEmails(o) \/ TxCleanupInvalidTokens(o)
        BY <3>1, <3>4 DEF TxCleanupProcessedEmails, TxCleanupInvalidTokens
      <3>5. CASE TxGetUser(o) \/ TxGetToken(o) \/ TxGetUserMetrics(o) \/ TxGetMigrationStatus(o)
        BY <3>5 DEF TxGetUser, TxGetToken, TxGetUserMetrics, TxGetMigrationStatus, TxRead
      <3>6. CASE BeginTx(o) \/ TxCleanupInactiveUsers(o) \/ TxGetMetrics(o) \/ TxBackup(o)
        BY <3>6 DEF BeginTx, TxCleanupInactiveUsers, DeleteTokens, TxGetMetrics, CountUsers,
                    TxBackup, OpenBackup
      <3>7. QED
        BY <2>2, <3>2, <3>3, <3>4, <3>5, <3>6 DEF TxCall
    <2>3. ~\E u \in Users : OnUser(u)
      BY <1>3 DEF OnUser, CreateUser, UpdateUser, StoreToken, DeleteToken
    <2>4. /\ ~\E p \in Emails : MarkEmailProcessed(p)
          /\ ~CleanupProcessedEmails /\ ~CleanupInvalidTokens
      BY <1>3 DEF MarkEmailProcessed, CleanupProcessedEmails, CleanupInvalidTokens
    <2>5. QED
      BY <1>4, <2>1, <2>2, <2>3, <2>4 DEF Call
  <1>5. ASSUME NEW o \in Clients, Continue(o) PROVE db' = db \/ db' = tx[c].view
    <2>1. CASE Commit(o) \/ OwnCommit(o) \/ BackupCommit(o)
      BY <1>2, <2>1 DEF Commit, OwnCommit, BackupCommit
    <2>2. CASE \/ Rollback(o) \/ CleanupUsers(o) \/ MetricsEmails(o) \/ MetricsTokens(o)
               \/ CopyTable(o) \/ Detach(o)
      BY <2>2 DEF Rollback, CleanupUsers, MetricsEmails, MetricsTokens, CopyTable, Detach
    <2>3. CASE \/ verifyBackup(o) \/ VerifyMismatch(o) \/ VerifyError(o)
               \/ RestoreCopy(o) \/ CallFails(o) \/ DetachRefused(o)
      BY <2>3 DEF verifyBackup, VerifyMismatch, VerifyError, Discard, RestoreCopy, CallFails,
                  DetachRefused, Fails
    <2>4. QED
      BY <1>5, <2>1, <2>2, <2>3 DEF Continue, GoOn
  <1>6. CASE Crash \/ Tick
    BY <1>6 DEF Crash, Tick
  <1>7. QED
    BY <1>4, <1>5, <1>6 DEF Next

(* The two DELETEs, at times i and j, take users and tokens together. *)
LEMMA PurgesTogether ==
  ASSUME NEW d \in Database, NEW i \in Nat, NEW j \in Nat, i <= j
  PROVE  LET e == PurgeUsers(PurgeTokens(d, i), j)
         IN /\ \A r \in d.tokens \ e.tokens : \E s \in d.users \ e.users : s.user = r.user
            /\ i = j => \A s \in d.users \ e.users : OfUser(e.tokens, s.user) = {}
  <1> DEFINE e == PurgeUsers(PurgeTokens(d, i), j)
  <1>1. /\ e.users = {r \in d.users : ~Before(r.updated, j - Inactivity)}
        /\ e.tokens = {r \in d.tokens :
                         ~\E s \in OfUser(d.users, r.user) : Before(s.updated, i - Inactivity)}
    BY DEF PurgeUsers, PurgeTokens, Database
  <1>2. \A s \in d.users : s.updated \in Int
    BY StorageNumbers DEF Database, Rows, Times, Null
  <1>3. \A s \in d.users : Before(s.updated, i - Inactivity) => Before(s.updated, j - Inactivity)
    BY <1>2, StorageNumbers DEF Before
  <1> HIDE DEF e
  <1>4. \A r \in d.tokens \ e.tokens : \E s \in d.users \ e.users : s.user = r.user
    BY <1>1, <1>3 DEF OfUser
  <1>5. i = j => \A s \in d.users \ e.users : OfUser(e.tokens, s.user) = {}
    BY <1>1 DEF OfUser
  <1>6. QED
    BY <1>4, <1>5 DEF e

(* SQLiteStorage.CleanupInactiveUsers takes users and tokens together,     *)
(* whatever other goroutines do, as far as its two readings of the clock   *)
(* allow.                                                                  *)
THEOREM CleanupSafe == Spec => CleanupIsWhole
  <1> DEFINE Whole(c) ==
        /\ \A r \in db.tokens \ db'.tokens : \E s \in db.users \ db'.users : s.user = r.user
        /\ seen[c][1] = seen[c][2] =>
             \A s \in db.users \ db'.users : OfUser(db'.tokens, s.user) = {}
  <1>1. ASSUME StorageInv, Next, NEW c \in Clients, pc[c] = "cleaned" PROVE Whole(c)
    <2>1. CASE db' = db
      BY <2>1
    <2>2. CASE db' = tx[c].view
      <3>1. /\ Len(seen[c]) = 2 /\ seen[c][1] <= seen[c][2] /\ seen[c] \in Seq(Nat)
            /\ db' = PurgeUsers(PurgeTokens(db, seen[c][1]), seen[c][2]) /\ db \in Database
        BY <1>1, <2>2 DEF StorageInv, TypeOK, CleanupKnows
      <3>2. seen[c][1] \in Nat /\ seen[c][2] \in Nat
        BY <3>1
      <3> DEFINE i == seen[c][1]
                 j == seen[c][2]
                 e == PurgeUsers(PurgeTokens(db, i), j)
      <3>3. /\ \A r \in db.tokens \ e.tokens : \E s \in db.users \ e.users : s.user = r.user
            /\ i = j => \A s \in db.users \ e.users : OfUser(e.tokens, s.user) = {}
        <4> HIDE DEF i, j
        <4>1. i \in Nat /\ j \in Nat /\ i <= j /\ db \in Database
          BY <3>1, <3>2 DEF i, j
        <4>2. QED
          BY <4>1, PurgesTogether
      <3>4. db' = e
        BY <3>1
      <3> HIDE DEF e
      <3>5. QED
        BY <3>3, <3>4
    <2>3. QED
      BY <1>1, <2>1, <2>2, OnlyTheCleanup
  <1>2. StorageInv /\ [Next]_storageVars
        => [\A c \in Clients : pc[c] = "cleaned" => Whole(c)]_storageVars
    BY <1>1
  <1>3. QED
    BY <1>2, StorageSafe, PTL DEF Spec, CleanupIsWhole
-----------------------------------------------------------------------------
(* DETACH as SQLite answers it. *)

(* What a script that never ends leaves alone: no Backup is past its       *)
(* script, and nobody sees the tables that Restore makes.                  *)
Unended ==
  /\ kept = Nothing /\ db.shape # "copied"
  /\ \A c \in Clients :
       /\ pc[c] \notin {"copied", "verify", "restored"}
       /\ tx[c].view.shape # "copied"

(* Where c may go when no script ends. *)
Short == CallPc \ {"copied", "verify", "restored"}

(* A step of c that changes neither the database nor what others see. *)
LEMMA UnendedLocal ==
  ASSUME StorageInv, Unended, NEW c \in Clients, NEW t, NEW l \in Short,
         UNCHANGED <<db, kept>>, tx' = [tx EXCEPT ![c] = t], pc' = [pc EXCEPT ![c] = l],
         t.view.shape # "copied"
  PROVE  Unended'
  BY DEF StorageInv, TypeOK, Unended, Short

(* What c sees is not a table of Restore's. *)
LEMMA UnendedView ==
  ASSUME StorageInv, Unended, NEW c \in Clients
  PROVE  /\ View(c) \in Database /\ View(c).shape # "copied"
         /\ Snapshot(tx[c]).view.shape # "copied"
         /\ ClosedTx.view.shape # "copied"
         /\ pc[c] \in Short /\ pc = [pc EXCEPT ![c] = pc[c]]
  <1>1. tx[c] \in Transaction /\ TypeOK
    BY DEF StorageInv, TypeOK
  <1>2. View(c) = IF tx[c].begun THEN tx[c].view ELSE db
    BY <1>1, SnapshotFacts DEF View
  <1>3. ClosedTx.view.shape = "schema"
    BY DEF ClosedTx, EmptyDb
  <1>4. pc[c] \in Short /\ pc = [pc EXCEPT ![c] = pc[c]]
    BY <1>1 DEF TypeOK, Unended, Short
  <1>5. QED
    BY <1>1, <1>2, <1>3, <1>4, ViewFacts DEF Unended, View

(* A commit of d, seen by whoever begins a transaction later. *)
LEMMA UnendedCommit ==
  ASSUME StorageInv, Unended, NEW d, d.shape # "copied", db' = d, kept' = kept,
         \A o \in Clients : tx'[o] = Overtaken(d)[o] \/ tx'[o] = ClosedTx,
         \A o \in Clients : pc'[o] = pc[o] \/ pc'[o] = "idle"
  PROVE  Unended'
  <1>1. ClosedTx.view.shape # "copied"
    BY DEF ClosedTx, EmptyDb
  <1>2. \A o \in Clients : Overtaken(d)[o].view = tx[o].view
    BY DEF Overtaken, StorageInv, TypeOK, Transaction
  <1>3. \A o \in Clients : tx'[o].view.shape # "copied"
    BY <1>1, <1>2 DEF Unended
  <1>4. QED
    BY <1>3 DEF Unended

(* The calls on s and t. *)
LEMMA UnendedCall ==
  ASSUME StorageInv, Unended, Call
  PROVE  Unended'
  <1>1. db \in Database /\ db.shape # "copied" /\ TypeOK
    BY DEF StorageInv, TypeOK, Unended
  <1>2. ASSUME NEW d, d.shape = db.shape, Exec(d) PROVE Unended'
    BY <1>1, <1>2, UnendedCommit DEF Exec
  <1>3. ASSUME NEW u \in Users, OnUser(u) PROVE Unended'
    <2>1. CASE CreateUser(u)
      BY <1>1, <1>2, <2>1, InsertsKeepType DEF CreateUser
    <2>2. CASE UpdateUser(u)
      BY <1>1, <1>2, <2>2, UpdatesKeepType DEF UpdateUser
    <2>3. CASE StoreToken(u)
      BY <1>1, <1>2, <2>3, PutsKeepType DEF StoreToken
    <2>4. CASE DeleteToken(u)
      BY <1>1, <1>2, <2>4, DeletesKeepType DEF DeleteToken
    <2>5. QED
      BY <1>3, <2>1, <2>2, <2>3, <2>4 DEF OnUser
  <1>4. ASSUME NEW p \in Emails, MarkEmailProcessed(p) PROVE Unended'
    BY <1>1, <1>2, <1>4, PutsKeepType DEF MarkEmailProcessed
  <1>5. CASE CleanupProcessedEmails \/ CleanupInvalidTokens
    BY <1>1, <1>2, <1>5, DeletesKeepType DEF CleanupProcessedEmails, CleanupInvalidTokens
  <1>6. ASSUME NEW c \in Clients, DeleteTokens(c) PROVE Unended'
    <2> DEFINE n == [Snapshot(Current(c)) EXCEPT !.wrote = TRUE, !.view = DeletedFirst(@)]
    <2>1. /\ tx' = [tx EXCEPT ![c] = n] /\ pc' = [pc EXCEPT ![c] = "cleanupUsers"]
          /\ pc[c] = "idle" /\ UNCHANGED <<db, kept>>
      BY <1>6 DEF DeleteTokens, To
    <2>2. /\ Current(c) \in Transaction
          /\ Snapshot(Current(c)).view = IF Current(c).begun THEN Current(c).view ELSE db
          /\ Snapshot(Current(c)) \in Transaction
      BY <1>1, <2>1, CurrentFacts, SnapshotFacts
    <2>3. Snapshot(Current(c)).view \in Database /\ Snapshot(Current(c)).view.shape # "copied"
      BY <1>1, <2>1, <2>2, CurrentFacts DEF Unended, Transaction
    <2>4. n.view = PurgeTokens(Snapshot(Current(c)).view, now)
      BY <2>2 DEF Transaction, DeletedFirst
    <2>5. n.view.shape # "copied"
      BY <2>3, <2>4, DeletesKeepType
    <2> HIDE DEF n
    <2>6. "cleanupUsers" \in Short
      BY DEF Short, CallPc
    <2>7. QED
      BY <2>1, <2>5, <2>6, UnendedLocal
  <1>7. ASSUME NEW c \in Clients, CountUsers(c) PROVE Unended'
    <2>1. "metricsEmails" \in Short
      BY DEF Short, CallPc
    <2>2. (IF tx[c].open THEN Snapshot(tx[c]) ELSE tx[c]).view.shape # "copied"
      BY UnendedView DEF Unended
    <2>3. /\ tx' = [tx EXCEPT ![c] = IF tx[c].open THEN Snapshot(tx[c]) ELSE tx[c]]
          /\ pc' = [pc EXCEPT ![c] = "metricsEmails"] /\ UNCHANGED <<db, kept>>
      BY <1>7 DEF CountUsers, To
    <2>4. QED
      BY <2>1, <2>2, <2>3, UnendedLocal
  <1>8. ASSUME NEW c \in Clients, OpenBackup(c) PROVE Unended'
    <2>1. "copy" \in Short
      BY DEF Short, CallPc
    <2>2. Current(c).view.shape # "copied"
      BY <1>8, CurrentFacts DEF OpenBackup, Unended
    <2>3. QED
      BY <1>8, <2>1, <2>2, UnendedLocal DEF OpenBackup, To
  <1>9. ASSUME NEW c \in Clients, RestoreDrop(c) PROVE Unended'
    <2> DEFINE n == [Snapshot(NewTx(TRUE)) EXCEPT !.wrote = TRUE, !.view = Dropped]
    <2>1. "restore" \in Short
      BY DEF Short, CallPc
    <2>2. n.view.shape # "copied"
      BY <1>1, NewTransactions, SnapshotFacts DEF Dropped, EmptyDb, Transaction
    <2>3. /\ tx' = [tx EXCEPT ![c] = n] /\ pc' = [pc EXCEPT ![c] = "restore"]
          /\ UNCHANGED <<db, kept>>
      BY <1>9 DEF RestoreDrop, AfterDrops, To
    <2> HIDE DEF n
    <2>4. QED
      BY <2>1, <2>2, <2>3, UnendedLocal
  <1>10. ASSUME NEW c \in Clients, TxCall(c) PROVE Unended'
    <2>1. /\ View(c) \in Database /\ View(c).shape # "copied" /\ pc[c] \in Short
          /\ Snapshot(tx[c]).view.shape # "copied" /\ pc = [pc EXCEPT ![c] = pc[c]]
          /\ tx[c] \in Transaction /\ Snapshot(tx[c]) \in Transaction
      BY <1>1, UnendedView, SnapshotFacts DEF TypeOK
    <2>2. ASSUME NEW d, d.shape = View(c).shape, TxExec(c, d) PROVE Unended'
      <3> DEFINE n == [Snapshot(tx[c]) EXCEPT !.wrote = TRUE, !.view = d]
      <3>1. tx' = [tx EXCEPT ![c] = n] /\ UNCHANGED <<db, pc, kept>>
        BY <2>2 DEF TxExec
      <3>2. n.view = d
        BY <2>1 DEF Transaction
      <3> HIDE DEF n
      <3>3. QED
        BY <2>1, <2>2, <3>1, <3>2, UnendedLocal
    <2>3. ASSUME NEW u \in Users, TxOnUser(c, u) PROVE Unended'
      <3>1. CASE TxCreateUser(c, u)
        BY <1>1, <2>1, <2>2, <3>1, InsertsKeepType DEF TxCreateUser
      <3>2. CASE TxUpdateUser(c, u)
        BY <1>1, <2>1, <2>2, <3>2, UpdatesKeepType DEF TxUpdateUser
      <3>3. CASE TxStoreToken(c, u)
        <4>1. PutToken(View(c), u).shape = View(c).shape
          BY <2>1 DEF PutToken, Database
        <4>2. QED
          BY <2>2, <3>3, <4>1 DEF TxStoreToken
      <3>4. QED
        BY <2>3, <3>1, <3>2, <3>3 DEF TxOnUser
    <2>4. ASSUME NEW p \in Emails, TxMarkEmailProcessed(c, p) PROVE Unended'
      <3> DEFINE s == Snapshot(tx[c])
                 n == [s EXCEPT !.wrote = TRUE, !.view = PutEmail(@, p),
                                !.claimed = @ \cup ({p} \cap tx[c].checked)]
      <3>1. tx' = [tx EXCEPT ![c] = n] /\ UNCHANGED <<db, pc, kept>>
        BY <2>4 DEF TxMarkEmailProcessed
      <3>2. n.view = PutEmail(View(c), p)
        BY <2>1 DEF Transaction, View
      <3>3. PutEmail(View(c), p).shape = View(c).shape
        BY <2>1 DEF PutEmail, Database
      <3> HIDE DEF n
      <3>4. n.view.shape # "copied"
        BY <2>1, <3>2, <3>3
      <3>5. QED
        BY <2>1, <3>1, <3>4, UnendedLocal
    <2>5. ASSUME NEW p \in Emails, TxIsEmailProcessed(c, p) PROVE Unended'
      <3> DEFINE s == Snapshot(tx[c])
                 n == [s EXCEPT !.checked = IF ~s.wrote /\ OfEmail(s.view.emails, p) = {}
                                             THEN @ \cup {p} ELSE @]
      <3>1. tx' = [tx EXCEPT ![c] = n] /\ UNCHANGED <<db, pc, kept>>
        BY <2>5 DEF TxIsEmailProcessed, Asked
      <3>2. n.view = s.view
        BY <2>1 DEF Transaction
      <3> HIDE DEF n
      <3>3. QED
        BY <2>1, <3>1, <3>2, UnendedLocal
    <2>6. CASE TxCleanupProcessedEmails(c) \/ TxCleanupInvalidTokens(c)
      BY <2>1, <2>2, <2>6, DeletesKeepType DEF TxCleanupProcessedEmails, TxCleanupInvalidTokens
    <2>7. CASE TxGetUser(c) \/ TxGetToken(c) \/ TxGetUserMetrics(c) \/ TxGetMigrationStatus(c)
      <3>1. tx' = [tx EXCEPT ![c] = Snapshot(tx[c])] /\ UNCHANGED <<db, pc, kept>>
        BY <2>7 DEF TxGetUser, TxGetToken, TxGetUserMetrics, TxGetMigrationStatus, TxRead
      <3>2. QED
        BY <2>1, <3>1, UnendedLocal
    <2>8. CASE BeginTx(c)
      <3>1. tx' = [tx EXCEPT ![c] = NewTx(FALSE)] /\ UNCHANGED <<db, pc, kept>>
        BY <2>8 DEF BeginTx
      <3>2. NewTx(FALSE).view.shape # "copied"
        BY DEF NewTx, ClosedTx, EmptyDb
      <3>3. QED
        BY <2>1, <3>1, <3>2, UnendedLocal
    <2>9. QED
      BY <1>6, <1>7, <1>8, <1>10, <2>3, <2>4, <2>5, <2>6, <2>7, <2>8
      DEF TxCall, TxCleanupInactiveUsers, TxGetMetrics, TxBackup
  <1>11. ASSUME NEW c \in Clients, LongCall(c) PROVE Unended'
    BY <1>6, <1>7, <1>8, <1>9, <1>11 DEF LongCall, CleanupInactiveUsers, GetMetrics, Backup
  <1>12. QED
    BY <1>3, <1>4, <1>5, <1>10, <1>11 DEF Call

(* The rest of a call: DETACH ends every script that gets so far. *)
LEMMA UnendedContinue ==
  ASSUME Detaches = {FALSE}, StorageInv, Unended, NEW c \in Clients, Continue(c)
  PROVE  Unended'
  <1>1. /\ pc[c] \in Short /\ tx[c] \in Transaction /\ pc = [pc EXCEPT ![c] = pc[c]]
        /\ "idle" \in Short /\ "copy" \in Short /\ "metricsTokens" \in Short
        /\ "cleaned" \notin {"copied", "verify", "restored"} /\ "cleaned" \in Short
        /\ ClosedTx.view.shape # "copied" /\ Snapshot(tx[c]).view.shape # "copied"
        /\ tx[c].view.shape # "copied"
    BY UnendedView DEF StorageInv, TypeOK, Short, CallPc, Unended
  <1>2. TRUE \notin Detaches
    OBVIOUS
  <1>3. CASE Commit(c) \/ OwnCommit(c)
    <2> DEFINE d == IF tx[c].wrote THEN tx[c].view ELSE db
    <2>1. /\ db' = d /\ tx' = [Overtaken(d) EXCEPT ![c] = ClosedTx] /\ kept' = kept
          /\ \A o \in Clients : pc'[o] = pc[o] \/ pc'[o] = "idle"
      BY <1>3 DEF Commit, OwnCommit, CommitTx, To, StorageInv, TypeOK
    <2>2. d.shape # "copied"
      BY DEF Unended
    <2>3. \A o \in Clients : tx'[o] = Overtaken(d)[o] \/ tx'[o] = ClosedTx
      BY <2>1 DEF Overtaken
    <2> HIDE DEF d
    <2>4. QED
      BY <2>1, <2>2, <2>3, UnendedCommit
  <1>4. CASE Rollback(c)
    BY <1>1, <1>4, UnendedLocal DEF Rollback, Ended
  <1>5. CASE CallFails(c) \/ DetachRefused(c)
    <2>1. /\ tx' = [tx EXCEPT ![c] = IF tx[c].own THEN ClosedTx ELSE tx[c]]
          /\ pc' = [pc EXCEPT ![c] = "idle"] /\ UNCHANGED <<db, kept>>
      BY <1>5 DEF CallFails, DetachRefused, Fails, To
    <2>2. (IF tx[c].own THEN ClosedTx ELSE tx[c]).view.shape # "copied"
      BY <1>1
    <2>3. QED
      BY <1>1, <2>1, <2>2, UnendedLocal
  <1>6. CASE CleanupUsers(c)
    <2> DEFINE n == [tx[c] EXCEPT !.view = PurgeUsers(@, now)]
               l == IF tx[c].own THEN "cleaned" ELSE "idle"
    <2>1. /\ tx' = [tx EXCEPT ![c] = n] /\ pc' = [pc EXCEPT ![c] = l]
          /\ UNCHANGED <<db, kept>>
      BY <1>6 DEF CleanupUsers, To
    <2>2. n.view = PurgeUsers(tx[c].view, now) /\ tx[c].view \in Database
      BY <1>1 DEF Transaction
    <2>3. n.view.shape # "copied" /\ l \in Short
      BY <1>1, <2>2, DeletesKeepType
    <2> HIDE DEF n, l
    <2>4. QED
      BY <2>1, <2>3, UnendedLocal
  <1>7. CASE MetricsEmails(c) \/ MetricsTokens(c)
    <2>1. UNCHANGED <<db, tx, kept>>
          /\ \A o \in Clients : pc'[o] \in {pc[o], "metricsTokens", "idle"}
      BY <1>7 DEF MetricsEmails, MetricsTokens, To, StorageInv, TypeOK
    <2>2. QED
      BY <2>1 DEF Unended
  <1>8. CASE CopyTable(c)
    <2> DEFINE t == Snapshot(tx[c])
               table == NextTable(t.copy.made)
               n == [t EXCEPT !.copy.made = @ \cup {table}, !.copy[table] = Selected(t, table)]
    <2>1. tx' = [tx EXCEPT ![c] = n] /\ UNCHANGED <<db, pc, kept>>
      BY <1>8 DEF CopyTable
    <2>2. t \in Transaction
      BY <1>1, SnapshotFacts DEF StorageInv
    <2> HIDE DEF t
    <2>3. n.view = t.view
      BY <2>2 DEF Transaction
    <2> HIDE DEF n
    <2>4. n.view.shape # "copied"
      BY <1>1, <2>3 DEF t
    <2>5. QED
      BY <1>1, <2>1, <2>4, UnendedLocal
  <1>9. ~Detach(c) /\ ~RestoreCopy(c)
    BY <1>2 DEF Detach, RestoreCopy
  <1>10. /\ ~BackupCommit(c) /\ ~verifyBackup(c) /\ ~VerifyMismatch(c) /\ ~VerifyError(c)
    BY DEF Unended, BackupCommit, verifyBackup, VerifyMismatch, VerifyError, Discard
  <1>11. QED
    BY <1>3, <1>4, <1>5, <1>6, <1>7, <1>8, <1>9, <1>10 DEF Continue, GoOn

(* No Backup has returned nil or is past its script, and no Restore has    *)
(* committed: the database has the tables it was created with.             *)
NoScriptEnds ==
  /\ kept = Nothing /\ db.shape = "schema"
  /\ \A c \in Clients : pc[c] \notin {"copied", "verify", "restored"}

(* With the DETACH of backup.go:54 and :166 refused, as SQLite refuses it  *)
(* in the transaction that used the file, no Backup ever returns nil and   *)
(* no Restore ever takes effect, whatever else is called, fails or dies.   *)
THEOREM NoBackupSucceeds ==
  ASSUME Detaches = {FALSE}
  PROVE  Spec => []NoScriptEnds
  <1>1. Init => Unended
    BY DEF Init, Unended, EmptyDb, ClosedTx
  <1>2. StorageInv /\ Unended /\ [Next]_storageVars => Unended'
    <2> SUFFICES ASSUME StorageInv, Unended, [Next]_storageVars PROVE Unended'
      OBVIOUS
    <2>1. CASE Crash
      BY <2>1 DEF Crash, Unended, ClosedTx, EmptyDb
    <2>2. CASE Tick \/ UNCHANGED storageVars
      BY <2>2 DEF Tick, Unended, storageVars
    <2>3. QED
      BY <2>1, <2>2, UnendedCall, UnendedContinue DEF Next
  <1>3. StorageInv /\ Unended => NoScriptEnds
    BY DEF StorageInv, TypeOK, Database, TablesPresent, Unended, NoScriptEnds
  <1>4. QED
    BY <1>1, <1>2, <1>3, StorageSafe, PTL DEF Spec
=============================================================================
