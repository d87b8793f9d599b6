# Gmail Digest Assistant: TLA+ models and proofs

Models of the parts of the repository that carry its own logic, checked with TLC
on small instances, their safety properties proved with TLAPS for every
instance. Paths are relative to the repository; `scheduler.go` without a
directory is `internal/scheduler/scheduler.go`, and so on.

## The system

| Part | State | Operations | Interacts with |
|---|---|---|---|
| Worker pool (`internal/worker`) | task channel of capacity 2 x workers, `isStopped`, context, `metrics` under `metrics.mu` | `Start`, `Submit`, `worker`, `Stop`, `ResetMetrics`, `GetMetrics` | runs tasks and their callbacks; callbacks run with `metrics.mu` held |
| Scheduler (`scheduler.go`, `job_handler.go`) | job table under `JobMu`, wake-up channel of one, loop and timer | `ScheduleJob`, `ForceCheck`, `Start`, `schedulingLoop`, `dispatchDueJobs`, `Stop`, `OnSuccess`, `OnFailure` | submits to the pool with `JobMu` held; callbacks take `JobMu`; saves to the job store |
| Job store (`job.go`) | `jobs` table | create, update, list, delete | a restart loads it |
| Cron (`cron.go`) | none | `ParseCron`, `Next` | `nextRunTime`, called with `JobMu` held |
| Token refresh handler (`token_refresh.go`) | none | `HandleTokenRefresh` | assigns to the shared job without `JobMu`; reads and writes the token |
| Web handlers (`internal/app`) | none of their own | login, callback, logout, dashboard, connect, digest-now | one goroutine per request |
| OAuth manager and stores (`internal/auth`) | state and verifier per user, under a mutex each | `GetAuthURL`, `HandleCallback`, `RefreshToken`, `RevokeToken` | Google; token store |
| Session store (`internal/session`) | sessions with expiry | `Create`, `Get`, `Delete` | `requireAuth`, logout |
| Token store (`internal/storage/token_store.go`) | one encrypted row per user | get, store, delete | refreshes, callbacks, digest runs |
| Digest run (`digest_job.go`, `internal/gmail`, `summary`, `telegram`) | the mailbox's UNREAD labels, the chat | `Run`: token, user, list, get and mark, summarise, send | Gmail, OpenAI, Telegram |
| SQLite storage (`sqlite.go`, `transaction.go`, `cleanup.go`, `metrics.go`, `backup.go`) | tables `users`, `tokens`, `processed_emails` in one file, open transactions, a backup file | create, update, store, mark, check, count, clean up, each directly or in a `Transaction`; `Backup`, `Restore` | goroutines share the file; SQLite decides who may write |
| Configuration, metrics, main | | | |

What is hard here: two mutexes taken in both orders; tasks submitted before they
are marked; a wake-up channel that drops signals; a Stop that races Submit;
store failures that are only logged; restarts; a handler that writes a shared
struct unlocked; read-modify-write of the token row around a network call;
callbacks of one login racing another; messages marked as read before they are
delivered; a search loop without a limit; an email checked and then marked by two
goroutines; clean-ups, counts and backups of several statements beside other
writers; a restore that begins by dropping the tables. `PROJECT.json` lists each of these
hazards at its line, with the properties about it.

The repository at this commit does not build as a whole (`app.go` calls
constructors under other names than the packages export), and it has two schemas.
The list in `migration.go` (`telegram_id`, `encrypted_token`, `processed_emails`) is read by
nothing; `Migrate` gives golang-migrate the files under `internal/storage/migrations`, whose
`users` has `id`, `email` and the two Telegram columns, whose `tokens` has `access_token`, and
which create no `processed_emails`. On the files `CreateUser`, `StoreToken`,
`MarkEmailProcessed`, the clean-ups, the counts and `Backup` fail for want of a column or a table;
on the list `GetUserByID` and `UpdateUserTelegramDetails` do. Each package is modelled
as it is written, each statement on the schema it is written for: `Storage` on
the list, as do the tests of those statements, the chat in `DigestDelivery` on the files.
Where a call across packages has no matching definition the model takes what the caller
relies on.

## Modules

| Module | What it is |
|---|---|
| `TaskLifecycle` | abstract specification: what `Submit` and `Stop` promise about a task |
| `WorkerPool` | the pool, goroutine by goroutine; implements `TaskLifecycle` |
| `WorkerPoolProofs` | its proofs |
| `JobScheduler` | the scheduler composed with the pool and the job store |
| `JobSchedulerProofs` | its proofs |
| `Cron` | parsing a schedule and searching for the next run |
| `CronProofs` | its proofs, and facts about the calendar |
| `WebLogin` | login, callback, logout, sessions |
| `WebLoginProofs` | its proofs |
| `TokenRefresh` | the stored token and its writers |
| `TokenRefreshProofs` | its proofs |
| `DigestDelivery` | digest runs over one mailbox |
| `DigestDeliveryProofs` | its proofs |
| `Storage` | the SQLite storage, its transactions, clean-ups, backup and restore |
| `StorageProofs` | its proofs |
| `MC*` | the constants for TLC |

A definition marked `\* mutant` is a wrong version of the one after it, used to see
that a property would notice.

### WorkerPool

`tasks`, `closed`, `isStopped`, `cancelled` and `m` are the fields of the struct;
`wpc`, `spc` and `stopPc` say where each worker, each caller of `Submit` and the
caller of `Stop` are. A step ends wherever another goroutine can see the
difference: `Submit` is three steps (test `isStopped`; send or refuse; count
under `metrics.mu`), an iteration of `worker` six, `Stop` four. `select` with
`ctx.Done()` and a task both ready is a choice. A send on the closed channel
sets `panicked`, after which nothing happens. `fate` and `forgotten` are history:
how each task ended, and what `ResetMetrics` threw away.

### JobScheduler

A job is a (user, type, schedule) triple, `mem` the table in memory and `db` the
table on disk. Both mutexes are variables: `jobMu` is held by the loop through
`dispatchDueJobs`, by a caller of `ScheduleJob` and by a worker in a callback,
`metricsMu` by a worker around the callback. `UpdateJob` may fail up to
`MaxFaults` times and the process may die at any step up to `MaxCrashes` times
(`Restart` loads `db` as it is). Of the pool only what the scheduler can notice
is kept; `WorkerPool` has the rest. `HandlerWrite` assigns the fields of
`HandleTokenRefresh` one at a time and without the lock: a data race, whose
outcomes here are the interleavings of the assignments, in any order. `unsignalled`,
`stale`, `orphans`, `ranAt` (when a job was last submitted), `unsaved` and `forgotten` are
history that lets a property name the exceptions the code makes.

`NextRunTime` is a constant with `NextRunTime(k, t) > t`; `Cron` shows that of
`nextRunTime`.

### Cron

`ParseField` is one call of `parseCronField`; `Search` one turn of the loop of
`Next`. The calendar is a parameter: the lengths of hour, day and week, and the days
of the year before each month, as package `time` tabulates them. It repeats after
`Period` minutes, and the search is taken back by `Period` when it has gone that
far, which keeps an endless search a finite graph; `OnlyEndlessSearchesWrap` proves that
only a search that never returns is taken back. Leap years and time zones are left out. Text is
abstracted to parts: a value, a range, or something that is refused.

### WebLogin

The handlers use one hard-coded user ID and `generateRandomState` returns a
constant, so the state store is a flag and the PKCE store one verifier. A
callback is a goroutine with a step per store call: `ValidateState`,
`GetVerifier`, `Exchange` (the provider, external), `StoreToken`, the deferred
`DeleteState`, `CreateSession`. `ServerSpec` is the server as it is, in which no
callback gets past `GetVerifier`; `LoginSpec` adds `StoreVerifier` (called only by the
handlers' test), so that the rest of the flow is exercised.

### TokenRefresh

A token is a grant, an expiry and whether it has a refresh token. The token source
is external: `Config.TokenSource` answers with the old token until that has
expired, then asks the provider and keeps the refresh token; one installed with
`SetTokenSource` may answer without. `raced` is history. Expiries
are always set.

### DigestDelivery

A digest is the set of its emails, a run is a goroutine with one step per remote
call, each of which may fail; the call that marks a message and the one that sends
the digest may also fail after they took effect. What OpenAI makes of the emails is
outside the model, so nothing is said of the text that is sent. `Shutdown` ends the process
under the runs in progress, since nothing waits for the goroutine of
`handleDigestNow`, and `Restart` starts it again: the mailbox, the chat and the token are all
that is left. `inbox` is the chat a digest was delivered to; `kept`, `before` and `during`
are history.

### Storage

`db` is the committed database: a set of rows per table, each row with a rowid that
tells it from an equal one, and `shape`, which says whether the tables are those of
`migration.go` or copies. `Restore` makes its tables
with `CREATE TABLE ... AS SELECT`, which have neither keys nor defaults, and later
statements behave differently on them. `tx[c]` is the transaction of goroutine
`c` (what it sees, whether it has written, what it has copied to the attached
file), `pc[c]` and `seen[c]` its place in a call of several statements and what
the earlier ones returned, `file` the file at the one backup path: the tables made
in it (`made`), with their rows. `snap`, `kept`
and the sets `checked` and `claimed` of a transaction are history.

An operation of one statement is one action; `CleanupInactiveUsers`, `GetMetrics`,
`Backup` with `verifyBackup`, and `Restore` have a step per statement that others
can come between. SQLite is external: a transaction sees the database of its first
statement, one transaction writes at a time, and one that was overtaken by a commit
cannot write; a commit covers the attached backup file too; foreign keys are declared and
not enforced. These are the rules of WAL mode, which `OpenDatabase` (`pool.go`) asks for and
only tests call. `app.go` opens the database with `NewSQLiteStorage` and no pragma, in the
rollback journal: a commit then waits for the readers, so its behaviours are some of
those here, and what holds of all of them holds of the program.

Any statement may fail, the process may die at any step, and `Tick` advances the
seconds of `datetime('now')`. `Detaches` is what `DETACH DATABASE` may answer at the end of a
script, inside the transaction that used the file. SQLite refuses it, always:
`Detaches = {FALSE}` is the code as it is, in which `Backup` and `Restore` never succeed (the run
`backup_fails`, the theorem `NoBackupSucceeds`). With `TRUE` in it the scripts end as the tests
expect; the run `storage` has both answers, so that the rest of `Backup` and `Restore` is checked
as well, and the other theorems hold for either. `CalmSpec` is the storage with one call at a time and
no failure from outside.

Direct reads change nothing and are left out, reads in a transaction may fix its snapshot
and are kept. Contents of tokens, digest intervals and creation times are left out;
ages are in whole seconds.

## Runs

Passing runs, their bounds and what they show:

| Run | Bounds | Shows |
|---|---|---|
| `pool` | 1 worker (capacity 2), 2 submitters, 3 tasks, 1 reset; fair | buffer filled and refused; the three groups of counters exact up to the goroutines in between; the pool implements `TaskLifecycle`; accepted tasks run; `Stop` returns |
| `scheduler_races` | 1 token job, 2 workers, 3 schedulings, 1 fault, 1 restart | wake-ups, running jobs, store and memory, freshness, one submission per due time, with a job in flight twice |
| `scheduler_backlog` | 3 jobs, 1 worker; fair | a full channel: the third job is refused, stays pending and is dispatched later |
| `cron` | 14 field texts; calendar of 2-minute hours, 2-hour days, months of 3 and 2 days, 2-day weeks; called at 20 half minutes; fair | parsed fields in bounds; the first match after the call; the search ends if the calendar has a match |
| `login` | 2 logins, 3 callbacks, 1 request, sessions expire; fair | one callback per state; who can end a login; no session without a token; admission is current; callbacks are answered |
| `token` | 2 logins, 1 refresh of each kind, clock past the expiry | refresh tokens are kept; an unraced refresh improves the row |
| `digest` | 2 runs, 2 messages, 2 chats, any number of shutdowns and starts; symmetry | read mail is in a digest; repeats need overlap, a failed mark or a killed run; no digest goes to a chat replaced before its run was requested |
| `storage` | 1 user, 1 message, 2 goroutines, 6 calls, clock to 2 (inactive after 1, emails kept 0 seconds), 2 rows per key in copied tables, `DETACH` with both answers; symmetry | of two checked marks one commits; a clean-up takes user and token together; counts in a transaction are of one state; a backup that succeeded is a snapshot and stays; a failed restore loses no table |

Two of a kind are enough for every race between two; a third job or callback is
there where a queue must be full or a second one must come between. One worker is
enough for the liveness of the pool; its safety properties and its refinement are
proved for any number of them. Six calls let a write
fall between any two statements of a clean-up or a backup and leave two for a
second backup or a restore. `storage` uses symmetry of the goroutines, `digest` of runs, messages and chats:
they have no liveness property, and these occur in the specifications only through quantifiers.
Three schedulings let a job be rescheduled while it is in flight and again after a
restart. Deadlock checking is off but for `digest`: a pool may be stopped, and logins,
schedulings, calls and the clock are bounded, so these systems may stop.

Runs that end in a violation, each a statement of the repository about itself
that the code does not keep (`findings` has the quotations):

| Run | What happens |
|---|---|
| `lock_order` | loop and worker wait for each other's mutex |
| `recurrence` | a job that succeeded or failed gets a next run that nobody waits for |
| `login_verifier` | no login can succeed: the verifier is never stored |
| `backup_fails` | with nobody about and nothing failing, `Backup` copies every table and fails on its `DETACH` |

Other differences between the code and what the repository says, which the
models contain and no run states:

- `Stop` may return with accepted tasks in the channel (`WorkerExit` needs only
  the cancelled context), where `pool_test.go:167` says "wait for tasks to
  complete"; and a `Submit` that tested `isStopped` before `Stop` sends on a closed
  channel and panics (`SubmitSend`).
- A job stored as running is never run after a restart (`README.md:13`); the callback of a task in flight overwrites a rescheduling.
- A schedule for a day its month does not have, `0 0 30 2 *`, parses, and `Next`
  never returns, with `JobMu` held.
- `handleLogout` keeps the token (`handlers.go:69`, "session and token data"), and an
  expired session is never deleted (`in_memory.go:59`, "we'll delete it lazily").
- A refresh in flight stores its token after `RevokeToken`; and until a token has
  expired `RefreshToken` stores the same token again, whatever
  `refresh_service.go:46` says of five minutes.
- Messages marked as read by a digest run that then fails are in no digest that
  is delivered (`README.md:1`, "fetch, summarize, and deliver").
- `CleanupInvalidTokens` removes the tokens of all users: no statement of the program
  sets `google_token_valid` to true. `updated_at` is refreshed by `UpdateUser` alone,
  so `CleanupInactiveUsers` ("haven't been active") removes users who only receive
  digests; when the second changes between its two DELETEs it can leave a token
  without a user. The `processed_emails` rows of a removed user stay.
- Were the `DETACH` repaired, `verifyBackup` would compare the copy with a database that others
  have written to since, and `Backup` would remove a sound copy as "corrupted"
  (`backup.go:68`; `backup_test.go:200` makes a "backup while operations are running"); and
  after a `Restore` the tables would have no keys: `StoreToken` (`sqlite.go:86`, "stores or
  updates") would append a second row, `Transaction.StoreToken` fail on its `ON CONFLICT`.
- A digest run has no timeout: `Run` uses `context.Background()` (`digest_job.go:45`) and none
  of its clients sets one, so a peer that does not answer keeps the goroutine for ever. No
  property claims that a run ends.
- `SQLiteStorage.GetMetrics` may count users and emails of two different states.
- The file of `Transaction.Backup`, which always returns an error, is filled if the caller
  commits the transaction nevertheless, and partly if the script failed before its end.

### Fairness

- Goroutines that can run do: weak fairness on each worker, submitter and callback, on the
  steps of `Stop`, and in `CalmSpec` on a storage call in progress. The exchange of a callback
  runs under the request's context, and ends with it.
- `metrics.mu` and `JobMu` do not starve a waiter (a Go mutex that has been waited
  for a millisecond is handed over in order): strong fairness on the loop's and
  the workers' steps in `JobScheduler`. `select` chooses among ready cases at
  random, so a timer that is ready again and again is taken: strong fairness on
  `TimerFires`.
- Nobody has to log in, schedule, submit, stop, reset, crash or force a check.

## Proofs

Every invariant and every safety action property of the passing runs is a theorem,
for every value of the constants under the assumptions in the modules: finite sets
of workers, jobs, logins, callbacks, users and messages, distinct names, times in
the naturals, a next run later than now, months that begin one after the other
and are no longer than `LastDay`, and a field of a schedule that has at least one part
(`strings.Split` returns one); for the counters of the pool also a finite set of
submitters. In each case the property is not inductive by itself; what is added is
what each goroutine knows at each of its steps.

- `WorkerPoolProofs`. The inductive invariant `PInv` adds to the types where each task can be
  (`OnePlace`: in the channel once, with one worker or with one submitter, and
  only there), what a worker holds in hand (`Hands`: the lock exactly in the
  callback, a task exactly when busy) and the order in which `Stop` proceeds. It
  is needed because the refinement mapping looks a task up by place: were a task
  in two places, a step of one would change the status the other shows.
  `PoolTypeCorrect`, `PoolImplementsLifecycle` (the step simulation, without fairness)
  and the three counter theorems `ActiveGaugeExact`, `QueueGaugeExact` and
  `OutcomeCountsExact` follow. Each counter is compared with the cardinalities of
  sets of workers, submitters and tasks that gain or lose at most one element per
  step; that the element is not already in the set is what `Hands` and `OnePlace`
  give.
- `JobSchedulerProofs`. `Control` says who holds which mutex and which job is in hand at each
  program point; it is what makes the critical sections exclusive. On it rest
  `TypeCorrect`, `WakeupSafe`, `RunningSafe`, `StoreSafe`, `PendingSafe` and
  `OncePerDueTimeSafe`, the safety properties of the scheduler runs. The last one is an action
  property and needs `DueOnce`: a pending job falls due after it was last submitted, in memory
  and, unless the last submission was not saved, in the store.
- `TokenRefreshProofs`. `TokenInv` says that every token anywhere (in the row, read, about to be
  stored, answered by the provider) has a refresh token exactly if its grant came
  with one, that grants of such tokens have been exchanged (so a new exchange
  changes nothing about them), and what a job knows at each step.
  `TokenTypeCorrect`, `RefreshTokenSafe` and the action property
  `UnracedRefreshSafe` follow.
- `WebLoginProofs`. `LoginInv` adds that every callback in progress has made `crowded` true
  (else the deferred `DeleteState` could take the state of a login nobody
  crowded), that a callback past `StoreToken` has left a token, which nothing
  deletes, and that only a finished callback has a session, or one that was logged
  out. `StateSafe` counts: a login adds at most one to the stored states, and
  `ValidateState` turns the stored state into one more validated callback.
  `LoginTypeCorrect`, `UndisturbedSafe`, `SessionSafe` and the action property
  `AdmissionSafe` follow. `NoLoginSucceeds` is about `ServerSpec`, the server as it is:
  what the run `login_verifier` shows of one callback, for all of them.
- `DigestDeliveryProofs`. `NoRepeatAfterwards` speaks of digests and is kept by what a run has still to
  look at, so `DigestInv` has `Apart` (what an earlier run fetched is neither in the
  digest nor on the list of a later one, unless it could not be marked) and, for the
  moment at which the later one lists, `Marked` (a message in a digest has been
  marked, could not be, or is about to be). `Process` says that no run goes on after
  the process. `DigestTypeCorrect`, `ReadSafe`, `RepeatSafe` and `ConnectedChatSafe` follow; the
  last one from what a run in progress knows: the chat it read was connected since it was
  requested.
- `StorageProofs`. `StorageInv` has four parts. `TxKnows`: a transaction that wrote was not
  overtaken, and one that was not overtaken and has not written sees the committed
  database, so that what it checked is still so when it becomes the writer; with
  `OneWriter` nobody can commit a mark between its own mark and its commit
  (`CheckedMarkSafe`). `CleanupKnows`: between its DELETEs and after them a clean-up sees
  the committed database less what it deleted, at the two times it noted
  (`CleanupSafe`). `CallKnows`: the counts and the copied tables so far are those of the
  transaction's view (`TxMetricsSafe`). `FileKnows`: one transaction copies to the
  file, and only while the file is empty; one `Backup` verifies it, before any has been
  kept, and finds what it copied (`BackupSafe`). That only a `Restore` before its copy
  sees no tables gives `TablesSafe`. Users and messages are finite because the counts
  are cardinalities. `NoBackupSucceeds` assumes `Detaches = {FALSE}`: nobody gets past the end of a
  script, so no `Backup` returns nil and the database keeps the tables it was created with.
- `CronProofs`. `CronInv` adds that no minute from the first one up to where the search is
  matches; a search that is folded back starts this anew from the first minute.
  `CronTypeCorrect` and `FirstMatchSafe` follow. `DatesAreInBounds` (every day of the year
  lies in one month, so every minute has a date within the bounds of `ParseCron`) and
  `OnePeriodIsEnough` (date and weekday repeat after `Period`, so from any minute one period
  shows every match there is) are about the calendar. `OnlyEndlessSearchesWrap` joins it to
  the search: one that is folded back has seen a whole period, and no minute at all matches.

Model-checked only: the liveness properties (`AcceptedRuns`, `StopTerminates`,
`DueJobIsDispatched`, `CallbackAnswered`, `SatisfiableReturns`, and those of the violation runs), since fairness and
`ENABLED` are outside what the prover handles.

## Not modelled

- Characters, encodings, hashing, JSON, encryption, message wording, logging.
- Configuration, Prometheus metrics, `cmd/server`, the end-to-end client: reading
  settings and writing counters.
- The Telegram polling loop: it answers `/start` and keeps no state.
- The pool's `GetMetrics`, `Scheduler.ListJobs`, `GetJob`, the direct reads of the
  storage, `GetMetricsWithinTimeRange` and `SQLiteStorage.GetUserMetrics`: they read
  and change nothing.
- `Migrate`: the work is golang-migrate's, whose source is not in the repository.
  The initial state of `Storage` has the tables of the list, not those of its files.
- The settings and the statistics of the connection pool; validation of arguments,
  which refuses a call before it does anything.
- `JobStore.ListJobs` with its filters and `DeleteJob`: only `Scheduler.ListJobs` passes
  a filter, and nothing outside the tests calls it or deletes a job.
- Shutdown of the application as a whole; see the plan.

## Plan

1. Shutdown as a composition: pool, loop and server in the order of `app.Shutdown`.
2. `JobStore`: the filters of `ListJobs` (a job "before" a time is selected with
   `>=`), once something calls them.
3. An abstract specification of the storage (each call one atomic step on the
   tables) for the operations that do keep it, and the step simulation as a proof.
