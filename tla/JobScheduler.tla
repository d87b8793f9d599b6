---------------------------- MODULE JobScheduler ----------------------------
(***************************************************************************)
(* internal/scheduler: the Scheduler with its in-memory job table, its     *)
(* SQLite job store, its scheduling loop, and the JobTasks it hands to the *)
(* worker pool; with HandleTokenRefresh, the handler that writes to the    *)
(* job it is given.                                                        *)
(*                                                                         *)
(* A member of Jobs is a (user, type, schedule) triple: ScheduleJob finds  *)
(* an existing job by that triple and the store's UNIQUE constraint allows *)
(* one row for it, so it stands for the job's ID as well.  The unit of     *)
(* time is the cron minute; time 0 is Go's zero time.                      *)
(*                                                                         *)
(* Both mutexes are explicit.  JobMu is held by the loop through the whole *)
(* of dispatchDueJobs, by the caller of ScheduleJob, and by a worker in    *)
(* OnSuccess and OnFailure; metrics.mu is held by a worker around those    *)
(* two callbacks, and is needed for an instant by Submit and by a worker   *)
(* that starts a task.  What one holder does between two points where      *)
(* another goroutine can see a difference is one step.                     *)
(***************************************************************************)
EXTENDS Integers, Sequences, FiniteSets

CONSTANTS
  Jobs,               \* user/type/schedule triples
  TokenJobs,          \* those of type token_refresh
  Workers,            \* worker goroutines of the pool
  Free, Loop, Client, \* no lock holder; the scheduling loop; a ScheduleJob call
  NoJob,              \* no job in hand
  NextRunTime(_, _),  \* nextRunTime(schedule) of a job at a time
  Horizon,            \* 24 hours: longest sleep of the loop, longest backoff
  Hour,               \* what HandleTokenRefresh adds to the current time
  MaxRetries,         \* 5: OnFailure clears next_run from then on
  MaxTime, MaxSchedules, MaxFaults, MaxCrashes  \* bounds

ASSUME SetsAssumption ==
  /\ IsFiniteSet(Jobs) /\ IsFiniteSet(Workers) /\ TokenJobs \subseteq Jobs
  /\ {Free, Loop, Client} \cap Workers = {} /\ Free \notin {Loop, Client} /\ Loop # Client
  /\ NoJob \notin Jobs

ASSUME TimesAssumption ==
  /\ Horizon \in Nat \ {0} /\ Hour \in Nat \ {0}
  /\ MaxRetries \in Nat \ {0} /\ MaxTime \in Nat \ {0}
  /\ MaxSchedules \in Nat /\ MaxFaults \in Nat /\ MaxCrashes \in Nat

(* Next starts its search a minute after its argument; an unparsable       *)
(* schedule falls back to an hour later.                                   *)
ASSUME NextRunAssumption ==
  \A k \in Jobs, t \in 1..MaxTime : NextRunTime(k, t) \in Nat /\ NextRunTime(k, t) > t

VARIABLES
  mem,        \* s.Jobs: the row of every job in memory
  db,         \* table jobs: the row of every job in the store
  now,        \* the current time
  next,       \* what the loop's timer is set to
  lpc,        \* where schedulingLoop is
  todo,       \* the jobs dispatchDueJobs has still to visit
  cur,        \* the job in the hands of the holder of JobMu
  jobMu,      \* holder of Scheduler.JobMu
  metricsMu,  \* holder of the pool's metrics.mu
  wakeup,     \* cronWakeup holds its one signal
  queue,      \* the pool's channel of JobTasks, by job
  wpc,        \* wpc[w]: where worker w is
  wjob,       \* wjob[w]: the job of its task
  werr,       \* werr[w]: Execute returned an error
  towrite,    \* towrite[w]: the job fields its handler has still to assign
  ctxDone,    \* Stop has cancelled s.ctx
  poolStopped,\* the pool has been stopped
  faults, crashes,      \* how often the store failed, the process died
  stale,      \* history: jobs whose last UpdateJob failed
  unsignalled,\* history: made pending by a ScheduleJob that returned an error
  orphans,    \* history: loaded as running at the last start
  calls,      \* calls of ScheduleJob for each job
  ranAt,      \* history: when each job was last submitted
  unsaved,    \* history: submitted, and not saved since
  forgotten   \* history: unsaved when the process died, and loaded from the store

tables   == <<mem, db>>
loopVars == <<next, lpc, todo>>
workVars == <<wpc, wjob, werr, towrite>>
upVars   == <<ctxDone, poolStopped>>
runVars  == <<ranAt, forgotten>>
histVars == <<stale, unsignalled, orphans, calls, unsaved, runVars>>
vars == <<tables, now, loopVars, cur, jobMu, metricsMu, wakeup, queue, workVars,
          upVars, faults, crashes, histVars>>

Statuses == {"absent", "pending", "running", "completed", "failed"}
Rows     == [status : Statuses, retry : Nat, nextRun : Nat]
NoRow    == [status |-> "absent", retry |-> 0, nextRun |-> 0]

LoopPc   == {"off", "find", "select", "dispatch", "submitted", "marked", "exited"}
WorkerPc == {"idle", "taken", "running", "writing", "finishing", "callback", "saving"}
QueueCap == 2 * Cardinality(Workers)

TypeOK ==
  /\ mem \in [Jobs -> Rows] /\ db \in [Jobs -> Rows]
  /\ now \in 1..MaxTime /\ next \in Nat
  /\ lpc \in LoopPc /\ todo \subseteq Jobs
  /\ cur \in Jobs \cup {NoJob}
  /\ jobMu \in {Free, Loop, Client} \cup Workers
  /\ metricsMu \in {Free} \cup Workers
  /\ wakeup \in BOOLEAN /\ ctxDone \in BOOLEAN /\ poolStopped \in BOOLEAN
  /\ queue \in Seq(Jobs) /\ Len(queue) <= QueueCap
  /\ wpc \in [Workers -> WorkerPc]
  /\ wjob \in [Workers -> Jobs \cup {NoJob}]
  /\ werr \in [Workers -> BOOLEAN]
  /\ towrite \in [Workers -> SUBSET {"status", "retry", "nextRun"}]
  /\ faults \in 0..MaxFaults /\ crashes \in 0..MaxCrashes
  /\ stale \subseteq Jobs /\ unsignalled \subseteq Jobs /\ orphans \subseteq Jobs
  /\ calls \in [Jobs -> 0..MaxSchedules] /\ ranAt \in [Jobs -> Nat]
  /\ unsaved \subseteq Jobs /\ forgotten \subseteq Jobs

(* NewScheduler on an empty database, next to a started pool. *)
Init ==
  /\ mem = [k \in Jobs |-> NoRow] /\ db = [k \in Jobs |-> NoRow]
  /\ now = 1 /\ next = 0 /\ lpc = "off" /\ todo = {}
  /\ cur = NoJob /\ jobMu = Free /\ metricsMu = Free
  /\ wakeup = FALSE /\ ctxDone = FALSE /\ poolStopped = FALSE
  /\ queue = <<>>
  /\ wpc = [w \in Workers |-> "idle"] /\ wjob = [w \in Workers |-> NoJob]
  /\ werr = [w \in Workers |-> FALSE] /\ towrite = [w \in Workers |-> {}]
  /\ faults = 0 /\ crashes = 0
  /\ stale = {} /\ unsignalled = {} /\ orphans = {}
  /\ calls = [k \in Jobs |-> 0] /\ ranAt = [k \in Jobs |-> 0]
  /\ unsaved = {} /\ forgotten = {}

-----------------------------------------------------------------------------
(* What the operations assign to a job. *)
RescheduledKeepsRetries(k, r) ==  \* mutant
  [r EXCEPT !.status = "pending", !.nextRun = NextRunTime(k, now)]
Rescheduled(k, r) ==
  [r EXCEPT !.status = "pending", !.retry = 0, !.nextRun = NextRunTime(k, now)]

SucceededKeepsStatus(k, r) ==  \* mutant
  [r EXCEPT !.retry = 0, !.nextRun = NextRunTime(k, now)]
Succeeded(k, r) ==
  [r EXCEPT !.status = "completed", !.retry = 0, !.nextRun = NextRunTime(k, now)]

(* Quadratic backoff, at most a day; no next run after the last retry. *)
Delay(n) == IF n * n > Horizon THEN Horizon ELSE n * n
Failed(r) ==
  [status  |-> "failed",
   retry   |-> r.retry + 1,
   nextRun |-> IF r.retry + 1 >= MaxRetries THEN 0 ELSE now + Delay(r.retry + 1)]

(* dispatchDueJobs marks a job it has submitted. *)
MarkedTooLate(r) == r  \* mutant
Marked(r) == [r EXCEPT !.status = "running"]

(* The columns UpdateJob writes. *)
StoredWithoutNextRun(k) == [mem[k] EXCEPT !.nextRun = db[k].nextRun]  \* mutant
Stored(k) == mem[k]

(* signalCronWakeup: a signal that is already there is enough. *)
signalNobody == wakeup' = wakeup  \* mutant
signalCronWakeup == wakeup' = TRUE

(* UpdateJob of the job in hand, under JobMu and with the context s.ctx.   *)
UpdateJob(ok) ==
  \/ /\ ok /\ ~ctxDone
     /\ db' = [db EXCEPT ![cur] = Stored(cur)]
     /\ stale' = stale \ {cur} /\ unsaved' = unsaved \ {cur}
     /\ UNCHANGED faults
  \/ /\ ~ok /\ ctxDone
     /\ stale' = stale \cup {cur}
     /\ UNCHANGED <<db, faults, unsaved>>
  \/ /\ ~ok /\ faults < MaxFaults
     /\ faults' = faults + 1
     /\ stale' = stale \cup {cur}
     /\ UNCHANGED <<db, unsaved>>

(* CreateJob of a new row; the UNIQUE constraint refuses a second one for  *)
(* the triple.                                                             *)
CreateJob(k, row) ==
  /\ ~ctxDone /\ db[k].status = "absent"
  /\ db' = [db EXCEPT ![k] = row]

(* ListJobs with the empty filter of loadJobsFromDB: every row as stored,  *)
(* whatever its status.                                                    *)
ListJobs == db

-----------------------------------------------------------------------------
(* ScheduleJob for a triple that has no job: CreateJob, then the map.  If  *)
(* CreateJob fails nothing has changed.                                    *)
ScheduleNew(k) ==
  /\ jobMu = Free /\ mem[k].status = "absent"
  /\ calls[k] < MaxSchedules
  /\ CreateJob(k, Rescheduled(k, NoRow))
  /\ mem' = [mem EXCEPT ![k] = Rescheduled(k, NoRow)]
  /\ calls' = [calls EXCEPT ![k] = @ + 1]
  /\ signalCronWakeup
  /\ UNCHANGED <<now, loopVars, cur, jobMu, metricsMu, queue, workVars, upVars,
                 faults, crashes, stale, unsignalled, orphans, unsaved, runVars>>

(* ScheduleJob for a triple that has a job: the job is made pending in     *)
(* memory whatever its status ...                                          *)
Reschedule(k) ==
  /\ jobMu = Free
  /\ mem[k].status # "absent"
  /\ calls[k] < MaxSchedules
  /\ jobMu' = Client /\ cur' = k
  /\ mem' = [mem EXCEPT ![k] = Rescheduled(k, @)]
  /\ calls' = [calls EXCEPT ![k] = @ + 1]
  /\ orphans' = orphans \ {k} /\ forgotten' = forgotten \ {k}
  /\ UNCHANGED <<db, now, loopVars, metricsMu, wakeup, queue, workVars, upVars,
                 faults, crashes, stale, unsignalled, unsaved, ranAt>>

(* ... then saved, and the loop woken unless the save failed. *)
RescheduleSave(ok) ==
  /\ jobMu = Client
  /\ UpdateJob(ok)
  /\ \/ ok /\ signalCronWakeup /\ UNCHANGED unsignalled
     \/ ~ok /\ unsignalled' = unsignalled \cup {cur} /\ UNCHANGED wakeup
  /\ jobMu' = Free /\ cur' = NoJob
  /\ UNCHANGED <<mem, now, loopVars, metricsMu, queue, workVars, upVars,
                 crashes, orphans, calls, runVars>>

ForceCheck ==
  /\ signalCronWakeup
  /\ UNCHANGED <<tables, now, loopVars, cur, jobMu, metricsMu, queue, workVars,
                 upVars, faults, crashes, histVars>>

-----------------------------------------------------------------------------
(* Scheduler.Start. *)
Start ==
  /\ lpc = "off"
  /\ lpc' = "find"
  /\ UNCHANGED <<tables, now, next, todo, cur, jobMu, metricsMu, wakeup, queue,
                 workVars, upVars, faults, crashes, histVars>>

(* findNextJobTime, and the timer set to it. *)
Wakeups == {mem[k].nextRun : k \in {j \in Jobs : mem[j].status = "pending"}}
             \cup {now + Horizon}
FindNext ==
  /\ lpc = "find" /\ jobMu = Free
  /\ \E n \in Wakeups : (\A x \in Wakeups : n <= x) /\ next' = n
  /\ lpc' = "select"
  /\ unsignalled' = {}
  /\ UNCHANGED <<tables, now, todo, cur, jobMu, metricsMu, wakeup, queue, workVars,
                 upVars, faults, crashes, stale, orphans, calls, unsaved, runVars>>

(* The select of schedulingLoop: any ready case. *)
LoopExit ==
  /\ lpc = "select" /\ ctxDone
  /\ lpc' = "exited"
  /\ UNCHANGED <<tables, now, next, todo, cur, jobMu, metricsMu, wakeup, queue,
                 workVars, upVars, faults, crashes, histVars>>

LoopWoken ==
  /\ lpc = "select" /\ wakeup
  /\ wakeup' = FALSE
  /\ lpc' = "find"
  /\ UNCHANGED <<tables, now, next, todo, cur, jobMu, metricsMu, queue,
                 workVars, upVars, faults, crashes, histVars>>

TimerFires ==
  /\ lpc = "select" /\ now >= next /\ jobMu = Free
  /\ jobMu' = Loop
  /\ todo' = {k \in Jobs : mem[k].status # "absent"}
  /\ lpc' = "dispatch"
  /\ UNCHANGED <<tables, now, next, cur, metricsMu, wakeup, queue, workVars,
                 upVars, faults, crashes, histVars>>

-----------------------------------------------------------------------------
(* dispatchDueJobs(next), in any order of the map. *)
DueBefore(k) == mem[k].status = "pending" /\ mem[k].nextRun < next  \* mutant
Due(k) == mem[k].status = "pending" /\ mem[k].nextRun <= next

(* pool.Submit: the send ... *)
HasRoomForOneMore == Len(queue) <= QueueCap  \* mutant
HasRoom == Len(queue) < QueueCap
DispatchSubmit(k) ==
  /\ lpc = "dispatch" /\ k \in todo /\ Due(k)
  /\ ~poolStopped /\ HasRoom
  /\ queue' = Append(queue, k)
  /\ cur' = k /\ todo' = todo \ {k}
  /\ lpc' = "submitted"
  /\ ranAt' = [ranAt EXCEPT ![k] = now]
  /\ unsaved' = unsaved \cup {k} /\ forgotten' = forgotten \ {k}
  /\ UNCHANGED <<tables, now, next, jobMu, metricsMu, wakeup, workVars, upVars,
                 faults, crashes, stale, unsignalled, orphans, calls>>

(* ... or its refusal: the job stays pending. *)
DispatchRefused(k) ==
  /\ lpc = "dispatch" /\ k \in todo /\ Due(k)
  /\ poolStopped \/ ~HasRoom
  /\ todo' = todo \ {k}
  /\ UNCHANGED <<tables, now, next, lpc, cur, jobMu, metricsMu, wakeup, queue,
                 workVars, upVars, faults, crashes, histVars>>

(* Submit counts the task under metrics.mu and returns; the job is marked. *)
DispatchMark ==
  /\ lpc = "submitted" /\ metricsMu = Free
  /\ mem' = [mem EXCEPT ![cur] = Marked(@)]
  /\ lpc' = "marked"
  /\ UNCHANGED <<db, now, next, todo, cur, jobMu, metricsMu, wakeup, queue, workVars,
                 upVars, faults, crashes, histVars>>

DispatchSave(ok) ==
  /\ lpc = "marked"
  /\ UpdateJob(ok)
  /\ cur' = NoJob
  /\ lpc' = "dispatch"
  /\ UNCHANGED <<mem, now, next, todo, jobMu, metricsMu, wakeup, queue, workVars,
                 upVars, crashes, unsignalled, orphans, calls, runVars>>

(* The jobs that are left are not due, and will not be: a handler only     *)
(* ever moves next_run past the current time.                              *)
DispatchEnd ==
  /\ lpc = "dispatch" /\ \A k \in todo : ~Due(k)
  /\ todo' = {} /\ jobMu' = Free
  /\ lpc' = "find"
  /\ UNCHANGED <<tables, now, next, cur, metricsMu, wakeup, queue, workVars,
                 upVars, faults, crashes, histVars>>

-----------------------------------------------------------------------------
(* A worker of the pool. *)
WorkerTake(w) ==
  /\ wpc[w] = "idle" /\ queue # <<>>
  /\ wjob' = [wjob EXCEPT ![w] = Head(queue)]
  /\ queue' = Tail(queue)
  /\ wpc' = [wpc EXCEPT ![w] = "taken"]
  /\ UNCHANGED <<tables, now, loopVars, cur, jobMu, metricsMu, wakeup, werr,
                 towrite, upVars, faults, crashes, histVars>>

WorkerBegin(w) ==
  /\ wpc[w] = "taken" /\ metricsMu = Free
  /\ wpc' = [wpc EXCEPT ![w] = "running"]
  /\ UNCHANGED <<tables, now, loopVars, cur, jobMu, metricsMu, wakeup, queue, wjob,
                 werr, towrite, upVars, faults, crashes, histVars>>

(* JobTask.Execute: no handler, a handler that fails, or one that succeeds *)
(* without touching the job (no token_refresh job's does).                 *)
Execute(w) ==
  /\ wpc[w] = "running"
  /\ \E err \in IF wjob[w] \in TokenJobs THEN {TRUE} ELSE BOOLEAN :
       werr' = [werr EXCEPT ![w] = err]
  /\ wpc' = [wpc EXCEPT ![w] = "finishing"]
  /\ UNCHANGED <<tables, now, loopVars, cur, jobMu, metricsMu, wakeup, queue, wjob,
                 towrite, upVars, faults, crashes, histVars>>

(* HandleTokenRefresh, the token valid or refreshed and stored: it assigns *)
(* to three fields of the shared job without JobMu.  Unsynchronised        *)
(* assignments become visible one by one and in any order.                 *)
HandleTokenRefresh(w) ==
  /\ wpc[w] = "running" /\ wjob[w] \in TokenJobs
  /\ towrite' = [towrite EXCEPT ![w] = {"status", "retry", "nextRun"}]
  /\ werr' = [werr EXCEPT ![w] = FALSE]
  /\ wpc' = [wpc EXCEPT ![w] = "writing"]
  /\ UNCHANGED <<tables, now, loopVars, cur, jobMu, metricsMu, wakeup, queue, wjob,
                 upVars, faults, crashes, histVars>>

Assigned(r, field) ==
  CASE field = "status"  -> [r EXCEPT !.status = "completed"]
    [] field = "retry"   -> [r EXCEPT !.retry = 0]
    [] field = "nextRun" -> [r EXCEPT !.nextRun = now + Hour]
HandlerWrite(w) ==
  /\ wpc[w] = "writing"
  /\ \E f \in towrite[w] :
       /\ mem' = [mem EXCEPT ![wjob[w]] = Assigned(@, f)]
       /\ towrite' = [towrite EXCEPT ![w] = @ \ {f}]
       /\ wpc' = [wpc EXCEPT ![w] = IF towrite[w] = {f} THEN "finishing" ELSE "writing"]
  /\ UNCHANGED <<db, now, loopVars, cur, jobMu, metricsMu, wakeup, queue, wjob, werr,
                 upVars, faults, crashes, histVars>>

(* The pool takes metrics.mu ... *)
WorkerLock(w) ==
  /\ wpc[w] = "finishing" /\ metricsMu = Free
  /\ metricsMu' = w
  /\ wpc' = [wpc EXCEPT ![w] = "callback"]
  /\ UNCHANGED <<tables, now, loopVars, cur, jobMu, wakeup, queue, wjob,
                 werr, towrite, upVars, faults, crashes, histVars>>

(* ... and calls OnSuccess or OnFailure, which takes JobMu ... *)
Callback(w) ==
  /\ wpc[w] = "callback" /\ jobMu = Free
  /\ jobMu' = w /\ cur' = wjob[w]
  /\ mem' = [mem EXCEPT ![wjob[w]] = IF werr[w] THEN Failed(@) ELSE Succeeded(wjob[w], @)]
  /\ wpc' = [wpc EXCEPT ![w] = "saving"]
  /\ UNCHANGED <<db, now, loopVars, metricsMu, wakeup, queue, wjob, werr, towrite,
                 upVars, faults, crashes, histVars>>

(* ... saves the job, wakes the loop whatever came of it, and returns. *)
CallbackSave(w, ok) ==
  /\ wpc[w] = "saving"
  /\ UpdateJob(ok)
  /\ signalCronWakeup
  /\ jobMu' = Free /\ cur' = NoJob /\ metricsMu' = Free
  /\ wjob' = [wjob EXCEPT ![w] = NoJob]
  /\ wpc' = [wpc EXCEPT ![w] = "idle"]
  /\ UNCHANGED <<mem, now, loopVars, queue, werr, towrite, upVars, crashes,
                 unsignalled, orphans, calls, runVars>>

-----------------------------------------------------------------------------
(* Scheduler.Stop cancels s.ctx; it returns when the loop has exited.      *)
Stop ==
  /\ ~ctxDone
  /\ ctxDone' = TRUE
  /\ UNCHANGED <<tables, now, loopVars, cur, jobMu, metricsMu, wakeup, queue,
                 workVars, poolStopped, faults, crashes, histVars>>

(* WorkerPool.Stop: from now on Submit refuses and workers may leave.      *)
PoolStop ==
  /\ ~poolStopped
  /\ poolStopped' = TRUE
  /\ UNCHANGED <<tables, now, loopVars, cur, jobMu, metricsMu, wakeup, queue,
                 workVars, ctxDone, faults, crashes, histVars>>

(* The process dies or exits, and a new one loads the jobs from the store. *)
Restart ==
  /\ crashes < MaxCrashes
  /\ crashes' = crashes + 1
  /\ mem' = ListJobs
  /\ next' = 0 /\ lpc' = "off" /\ todo' = {}
  /\ cur' = NoJob /\ jobMu' = Free /\ metricsMu' = Free
  /\ wakeup' = FALSE /\ ctxDone' = FALSE /\ poolStopped' = FALSE
  /\ queue' = <<>>
  /\ wpc' = [w \in Workers |-> "idle"] /\ wjob' = [w \in Workers |-> NoJob]
  /\ werr' = [w \in Workers |-> FALSE] /\ towrite' = [w \in Workers |-> {}]
  /\ stale' = {} /\ unsignalled' = {}
  /\ orphans' = {k \in Jobs : db[k].status = "running"}
  /\ forgotten' = unsaved
  /\ UNCHANGED <<db, now, faults, calls, ranAt, unsaved>>

Tick ==
  /\ now < MaxTime
  /\ now' = now + 1
  /\ UNCHANGED <<tables, loopVars, cur, jobMu, metricsMu, wakeup, queue, workVars,
                 upVars, faults, crashes, histVars>>

-----------------------------------------------------------------------------
LoopStep ==
  \/ FindNext \/ LoopExit \/ LoopWoken \/ TimerFires \/ DispatchMark \/ DispatchEnd
  \/ \E k \in Jobs : DispatchSubmit(k) \/ DispatchRefused(k)
  \/ \E ok \in BOOLEAN : DispatchSave(ok)

WorkerStep(w) ==
  \/ WorkerTake(w) \/ WorkerBegin(w) \/ Execute(w) \/ HandleTokenRefresh(w)
  \/ HandlerWrite(w) \/ WorkerLock(w) \/ Callback(w)
  \/ \E ok \in BOOLEAN : CallbackSave(w, ok)

ClientSave == \E ok \in BOOLEAN : RescheduleSave(ok)

Next ==
  \/ Start \/ LoopStep \/ ClientSave \/ ForceCheck
  \/ \E k \in Jobs : ScheduleNew(k) \/ Reschedule(k)
  \/ \E w \in Workers : WorkerStep(w)
  \/ Stop \/ PoolStop \/ Restart \/ Tick

Spec == Init /\ [][Next]_vars

(* Runnable goroutines are scheduled; a Go mutex does not starve a waiter, *)
(* hence strong fairness for steps that need one; select chooses among its *)
(* ready cases at random, so a timer that is ready again and again is      *)
(* taken; handlers return; time passes.  Nobody is obliged to schedule,    *)
(* stop, crash or force a check.                                           *)
Fairness ==
  /\ WF_vars(Start) /\ WF_vars(Tick) /\ WF_vars(ClientSave)
  /\ SF_vars(LoopStep) /\ SF_vars(TimerFires)
  /\ \A w \in Workers : SF_vars(WorkerStep(w))

FairSpec == Spec /\ Fairness

-----------------------------------------------------------------------------
(* A task of the job is in the channel or with a worker. *)
InFlight(k) == (\E i \in 1..Len(queue) : queue[i] = k) \/ (\E w \in Workers : wjob[w] = k)

(* A token refresh of the job has succeeded and its callback is to come:   *)
(* the handler may have assigned to the job, unsaved and unsignalled.      *)
Unsettled(k) ==
  /\ k \in TokenJobs
  /\ \E w \in Workers :
       /\ wjob[w] = k /\ ~werr[w]
       /\ wpc[w] \in {"writing", "finishing", "callback", "saving"}

(* The loop never sleeps past a job: while it waits in its select, every   *)
(* pending job that is due before the timer has a wake-up signal waiting   *)
(* or about to be sent.  Two exceptions are in the code: ScheduleJob that  *)
(* fails to save the job it has already made pending returns without the   *)
(* signal, and a refresh handler moves next_run before OnSuccess signals.  *)
NoLostWakeup ==
  \A k \in Jobs :
    lpc = "select" /\ mem[k].status = "pending" /\ mem[k].nextRun < next =>
      wakeup \/ (jobMu # Free /\ cur = k) \/ k \in unsignalled \/ Unsettled(k)

(* A job shown as running is being run: its task is in the channel or with *)
(* a worker, although the task is submitted, and may be executed, before   *)
(* the job is marked.  The exception is a job that the store said was      *)
(* running when the process started: nobody runs it.                       *)
RunningHasTask ==
  \A k \in Jobs : mem[k].status = "running" => InFlight(k) \/ k \in orphans

(* Outside the critical sections of JobMu the store has what memory has,   *)
(* so a restart resumes from it, except for a job whose last UpdateJob     *)
(* failed (nothing retries it) or whose refresh handler wrote unlocked.    *)
StoreFollowsMemory ==
  \A k \in Jobs : cur # k => db[k] = mem[k] \/ k \in stale \/ Unsettled(k)

(* A pending job, in memory or in the store, has a clean retry count and a *)
(* next run: however failures, reschedulings, unlocked handler writes and  *)
(* restarts interleave, no job is dispatched on the strength of the zero   *)
(* next_run or of the retry count that OnFailure left.                     *)
PendingIsFresh ==
  \A k \in Jobs : \A r \in {mem[k], db[k]} :
    r.status = "pending" => r.retry = 0 /\ r.nextRun > 0

(* A job is submitted once for each time it falls due, and never early:    *)
(* what dispatchDueJobs submits is due by now, and fell due after it was   *)
(* last submitted, although the task is submitted before the job is marked *)
(* and saved, callbacks and ScheduleJob overwrite it, and the loop scans   *)
(* the table again.  The exception is a job loaded from a store that the   *)
(* dead process had not told of its last submission.                       *)
OncePerDueTime ==
  [][\A k \in Jobs : DispatchSubmit(k) =>
       /\ mem[k].nextRun <= now
       /\ mem[k].nextRun > ranAt[k] \/ k \in forgotten]_vars

(* dispatchDueJobs holds JobMu and waits in Submit for metrics.mu, whose   *)
(* holder waits for JobMu in OnSuccess or OnFailure.                       *)
CircularWait == lpc = "submitted" /\ metricsMu # Free

(* The scheduler cannot go on: stopped, its pool stopped, or deadlocked. *)
Halted == ctxDone \/ poolStopped \/ CircularWait

(* A job waits for a time the model does not reach. *)
Beyond(k) == mem[k].status = "pending" /\ mem[k].nextRun > MaxTime

(* A pending job that no earlier task of its own can overwrite is handed   *)
(* to the pool when it falls due, unless ScheduleJob puts it off further,  *)
(* the scheduler or the pool is stopped or the locks are in deadlock.      *)
DueJobIsDispatched ==
  \A k \in Jobs :
    mem[k].status = "pending" /\ ~InFlight(k) ~> InFlight(k) \/ Beyond(k) \/ Halted

(* "concurrency-safe background processing" (README.md:34): the loop and a *)
(* worker never wait for each other's mutex.  The code does not keep this. *)
NoCircularWait == ~CircularWait

(* "Used to schedule recurring jobs" (README.md:9) and "retried up to 10   *)
(* times on failure" (README.md:23): a job to which OnSuccess or OnFailure *)
(* gave a next run runs again when it comes.  The code does not keep this: *)
(* only a pending job is looked at, and nothing but ScheduleJob turns a    *)
(* completed or failed one pending.                                        *)
NextRunHappens ==
  \A k \in Jobs :
    /\ mem[k].status \in {"completed", "failed"} /\ ~InFlight(k)
    /\ mem[k].nextRun \in 1 .. MaxTime
    ~> InFlight(k) \/ Beyond(k) \/ Halted
=============================================================================
