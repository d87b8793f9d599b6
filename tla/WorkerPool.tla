----------------------------- MODULE WorkerPool -----------------------------
(***************************************************************************)
(* internal/worker/pool.go: a fixed set of worker goroutines that receive  *)
(* tasks from one buffered channel.                                        *)
(*                                                                         *)
(* Grain of atomicity.  A step is what one goroutine does between two      *)
(* points where another goroutine can interfere: a critical section of     *)
(* p.mu or metrics.mu with no call in it is one step, a channel operation  *)
(* is one step, and the gaps between them are the values of wpc, spc and   *)
(* stopPc.  The second critical section of worker() is two steps, because  *)
(* it calls the task's callback while it holds metrics.mu.                 *)
(*                                                                         *)
(* A member of Tasks is one task object handed to Submit once: the         *)
(* scheduler wraps a job in a fresh JobTask every time it dispatches it.   *)
(* Submit(nil) returns false at once and leaves no trace, so nil is not a  *)
(* member and the worker's nil test never fires.                           *)
(***************************************************************************)
EXTENDS Integers, Sequences, FiniteSets

CONSTANTS
  Workers,      \* the goroutines started by Start
  Submitters,   \* the goroutines that call Submit
  Tasks,        \* the task objects
  Nobody,       \* no goroutine holds metrics.mu
  NoTask,       \* a worker or a submitter has no task in hand
  MaxResets     \* bound: how often ResetMetrics is called

(* NewWorkerPool turns a worker count below one into one. *)
ASSUME WorkersAssumption == Workers # {} /\ IsFiniteSet(Workers)
ASSUME NamesAssumption ==
  /\ Nobody \notin Workers
  /\ NoTask \notin Tasks
ASSUME BoundsAssumption == MaxResets \in Nat /\ IsFiniteSet(Tasks) /\ IsFiniteSet(Submitters)

VARIABLES
  tasks,      \* the buffered channel p.tasks, oldest task first
  closed,     \* close(p.tasks) has been called
  isStopped,  \* p.isStopped
  cancelled,  \* p.ctx.Done() is closed
  wpc,        \* wpc[w]: where worker w is in worker()
  wtask,      \* wtask[w]: the task worker w has received
  werr,       \* werr[w]: Execute of wtask[w] returned an error
  spc,        \* spc[s]: where submitter s is in Submit
  stask,      \* stask[s]: the task submitter s is submitting
  stopPc,     \* where the caller of Stop is in Stop
  metricsMu,  \* the worker inside the second critical section, or Nobody
  m,          \* the counters of p.metrics
  resets,     \* how often ResetMetrics was called
  panicked,   \* the process died of a send on the closed channel
  fate,       \* history: fate[t], how the life of task t ended
  forgotten   \* history: the counts ResetMetrics has thrown away

poolVars == <<tasks, closed, isStopped, cancelled, wpc, wtask, werr, spc, stask,
              stopPc, metricsMu, m, resets, panicked, fate, forgotten>>

WorkerPc == {"off", "select", "taken", "running", "finishing", "callback", "exited"}
SubmitPc == {"idle", "checked", "sent"}
StopPc   == {"run", "flagged", "cancelled", "closed", "done"}
Fates    == {"none", "refused", "succeeded", "failed"}

Counters == [active : Int, queued : Int, completed : Nat, failed : Nat]

Capacity == 2 * Cardinality(Workers)

TypeOK ==
  /\ tasks \in Seq(Tasks) /\ Len(tasks) <= Capacity
  /\ closed \in BOOLEAN /\ isStopped \in BOOLEAN
  /\ cancelled \in BOOLEAN /\ panicked \in BOOLEAN
  /\ wpc \in [Workers -> WorkerPc]
  /\ wtask \in [Workers -> Tasks \cup {NoTask}]
  /\ werr \in [Workers -> BOOLEAN]
  /\ spc \in [Submitters -> SubmitPc]
  /\ stask \in [Submitters -> Tasks \cup {NoTask}]
  /\ stopPc \in StopPc
  /\ metricsMu \in Workers \cup {Nobody}
  /\ m \in Counters
  /\ resets \in 0..MaxResets
  /\ fate \in [Tasks -> Fates]
  /\ forgotten \in [queued : Int, completed : Nat, failed : Nat]

NewWorkerPool ==
  /\ tasks = <<>> /\ closed = FALSE /\ isStopped = FALSE /\ cancelled = FALSE
  /\ wpc = [w \in Workers |-> "off"]
  /\ wtask = [w \in Workers |-> NoTask]
  /\ werr = [w \in Workers |-> FALSE]
  /\ spc = [s \in Submitters |-> "idle"]
  /\ stask = [s \in Submitters |-> NoTask]
  /\ stopPc = "run"
  /\ metricsMu = Nobody
  /\ m = [active |-> 0, queued |-> 0, completed |-> 0, failed |-> 0]
  /\ resets = 0
  /\ panicked = FALSE
  /\ fate = [t \in Tasks |-> "none"]
  /\ forgotten = [queued |-> 0, completed |-> 0, failed |-> 0]

(* A task nobody has submitted yet. *)
Fresh(t) ==
  /\ fate[t] = "none"
  /\ \A s \in Submitters : stask[s] # t
  /\ \A w \in Workers : wtask[w] # t
  /\ \A i \in 1..Len(tasks) : tasks[i] # t

-----------------------------------------------------------------------------
(* Start.  Its callers start a pool once, before they stop it. *)
Start ==
  /\ stopPc = "run" /\ \A w \in Workers : wpc[w] = "off"
  /\ wpc' = [w \in Workers |-> "select"]
  /\ UNCHANGED <<tasks, closed, isStopped, cancelled, wtask, werr, spc, stask,
                 stopPc, metricsMu, m, resets, panicked, fate, forgotten>>

-----------------------------------------------------------------------------
(* The updates of p.metrics, each made in one critical section. *)
CountQueued(c) == [c EXCEPT !.queued = @ + 1]

CountTakenKeepsQueued(c) == [c EXCEPT !.active = @ + 1]  \* mutant
CountTaken(c) ==
  [active |-> c.active + 1, queued |-> c.queued - 1, completed |-> c.completed, failed |-> c.failed]

CountResultBoth(c, err) ==  \* mutant
  [active |-> c.active - 1, queued |-> c.queued, completed |-> c.completed + 1,
   failed |-> IF err THEN c.failed + 1 ELSE c.failed]
CountResult(c, err) ==
  [active    |-> c.active - 1,
   queued    |-> c.queued,
   completed |-> IF err THEN c.completed ELSE c.completed + 1,
   failed    |-> IF err THEN c.failed + 1 ELSE c.failed]

ZeroEveryCounter(c) == [active |-> 0, queued |-> 0, completed |-> 0, failed |-> 0]  \* mutant
ZeroCounters(c) == [active |-> c.active, queued |-> 0, completed |-> 0, failed |-> 0]

-----------------------------------------------------------------------------
(* The send of Submit finds room in the buffer. *)
HasRoomForOneMore == Len(tasks) <= Capacity  \* mutant
HasRoom == Len(tasks) < Capacity

(* Submit: test isStopped under p.mu ... *)
SubmitCheck(s, t) ==
  /\ spc[s] = "idle" /\ Fresh(t)
  /\ \/ /\ isStopped
        /\ fate' = [fate EXCEPT ![t] = "refused"]
        /\ UNCHANGED <<spc, stask>>
     \/ /\ ~isStopped
        /\ spc' = [spc EXCEPT ![s] = "checked"]
        /\ stask' = [stask EXCEPT ![s] = t]
        /\ UNCHANGED fate
  /\ UNCHANGED <<tasks, closed, isStopped, cancelled, wpc, wtask, werr,
                 stopPc, metricsMu, m, resets, panicked, forgotten>>

(* ... then, with p.mu released, try the send: it panics on a closed      *)
(* channel, and takes the default branch when the buffer is full.         *)
SubmitSend(s) ==
  /\ spc[s] = "checked"
  /\ \/ /\ closed
        /\ panicked' = TRUE
        /\ UNCHANGED <<tasks, spc, stask, fate>>
     \/ /\ ~closed /\ HasRoom
        /\ tasks' = Append(tasks, stask[s])
        /\ spc' = [spc EXCEPT ![s] = "sent"]
        /\ stask' = [stask EXCEPT ![s] = NoTask]
        /\ UNCHANGED <<panicked, fate>>
     \/ /\ ~closed /\ ~HasRoom
        /\ fate' = [fate EXCEPT ![stask[s]] = "refused"]
        /\ spc' = [spc EXCEPT ![s] = "idle"]
        /\ stask' = [stask EXCEPT ![s] = NoTask]
        /\ UNCHANGED <<tasks, panicked>>
  /\ UNCHANGED <<closed, isStopped, cancelled, wpc, wtask, werr,
                 stopPc, metricsMu, m, resets, forgotten>>

(* ... and count the queued task, which a worker may already have taken. *)
SubmitCount(s) ==
  /\ spc[s] = "sent" /\ metricsMu = Nobody
  /\ m' = CountQueued(m)
  /\ spc' = [spc EXCEPT ![s] = "idle"]
  /\ UNCHANGED <<tasks, closed, isStopped, cancelled, wpc, wtask, werr, stask,
                 stopPc, metricsMu, resets, panicked, fate, forgotten>>

-----------------------------------------------------------------------------
(* worker(): select picks any ready case, so after cancel() a worker may   *)
(* return although the channel still holds tasks, and may as well receive. *)
WorkerExit(w) ==
  /\ wpc[w] = "select"
  /\ cancelled \/ (closed /\ tasks = <<>>)
  /\ wpc' = [wpc EXCEPT ![w] = "exited"]
  /\ UNCHANGED <<tasks, closed, isStopped, cancelled, wtask, werr, spc, stask,
                 stopPc, metricsMu, m, resets, panicked, fate, forgotten>>

WorkerTake(w) ==
  /\ wpc[w] = "select" /\ tasks # <<>>
  /\ wtask' = [wtask EXCEPT ![w] = Head(tasks)]
  /\ tasks' = Tail(tasks)
  /\ wpc' = [wpc EXCEPT ![w] = "taken"]
  /\ UNCHANGED <<closed, isStopped, cancelled, werr, spc, stask,
                 stopPc, metricsMu, m, resets, panicked, fate, forgotten>>

(* First critical section: the task is active, no longer queued. *)
WorkerCountTaken(w) ==
  /\ wpc[w] = "taken" /\ metricsMu = Nobody
  /\ m' = CountTaken(m)
  /\ wpc' = [wpc EXCEPT ![w] = "running"]
  /\ UNCHANGED <<tasks, closed, isStopped, cancelled, wtask, werr, spc, stask,
                 stopPc, metricsMu, resets, panicked, fate, forgotten>>

(* task.Execute returns nil or an error. *)
WorkerExecute(w) ==
  /\ wpc[w] = "running"
  /\ \E err \in BOOLEAN : werr' = [werr EXCEPT ![w] = err]
  /\ wpc' = [wpc EXCEPT ![w] = "finishing"]
  /\ UNCHANGED <<tasks, closed, isStopped, cancelled, wtask, spc, stask,
                 stopPc, metricsMu, m, resets, panicked, fate, forgotten>>

(* Second critical section, up to the call of OnFailure or OnSuccess ... *)
WorkerLock(w) ==
  /\ wpc[w] = "finishing" /\ metricsMu = Nobody
  /\ metricsMu' = w
  /\ m' = CountResult(m, werr[w])
  /\ wpc' = [wpc EXCEPT ![w] = "callback"]
  /\ UNCHANGED <<tasks, closed, isStopped, cancelled, wtask, werr, spc, stask,
                 stopPc, resets, panicked, fate, forgotten>>

(* ... and from the return of the callback: only then is the lock free. *)
HeldAfterFailure(w) == IF werr[w] THEN w ELSE Nobody  \* mutant
HolderAfterCallback(w) == Nobody
WorkerUnlock(w) ==
  /\ wpc[w] = "callback" /\ metricsMu = w
  /\ metricsMu' = HolderAfterCallback(w)
  /\ fate' = [fate EXCEPT ![wtask[w]] = IF werr[w] THEN "failed" ELSE "succeeded"]
  /\ wtask' = [wtask EXCEPT ![w] = NoTask]
  /\ wpc' = [wpc EXCEPT ![w] = "select"]
  /\ UNCHANGED <<tasks, closed, isStopped, cancelled, werr, spc, stask,
                 stopPc, m, resets, panicked, forgotten>>

-----------------------------------------------------------------------------
(* Stop: set the flag under p.mu, cancel the context, close the channel,   *)
(* wait for the workers.  The pool is stopped by one caller, once.         *)
StopFlag ==
  /\ stopPc = "run"
  /\ isStopped' = TRUE
  /\ stopPc' = "flagged"
  /\ UNCHANGED <<tasks, closed, cancelled, wpc, wtask, werr, spc, stask,
                 metricsMu, m, resets, panicked, fate, forgotten>>

StopCancel ==
  /\ stopPc = "flagged"
  /\ cancelled' = TRUE
  /\ stopPc' = "cancelled"
  /\ UNCHANGED <<tasks, closed, isStopped, wpc, wtask, werr, spc, stask,
                 metricsMu, m, resets, panicked, fate, forgotten>>

StopClose ==
  /\ stopPc = "cancelled"
  /\ closed' = TRUE
  /\ stopPc' = "closed"
  /\ UNCHANGED <<tasks, isStopped, cancelled, wpc, wtask, werr, spc, stask,
                 metricsMu, m, resets, panicked, fate, forgotten>>

(* wg counts the workers between Start and their return. *)
CountsUnstartedWorkers == \A w \in Workers : wpc[w] = "exited"  \* mutant
DoesNotWait == TRUE  \* mutant
WaitGroupDone == \A w \in Workers : wpc[w] \in {"off", "exited"}

StopReturn ==
  /\ stopPc = "closed" /\ WaitGroupDone
  /\ stopPc' = "done"
  /\ UNCHANGED <<tasks, closed, isStopped, cancelled, wpc, wtask, werr, spc, stask,
                 metricsMu, m, resets, panicked, fate, forgotten>>

-----------------------------------------------------------------------------
(* ResetMetrics leaves activeWorkers alone. *)
ResetMetrics ==
  /\ metricsMu = Nobody /\ resets < MaxResets
  /\ m' = ZeroCounters(m)
  /\ forgotten' = [queued    |-> forgotten.queued + m.queued,
                   completed |-> forgotten.completed + m.completed,
                   failed    |-> forgotten.failed + m.failed]
  /\ resets' = resets + 1
  /\ UNCHANGED <<tasks, closed, isStopped, cancelled, wpc, wtask, werr, spc, stask,
                 stopPc, metricsMu, panicked, fate>>

-----------------------------------------------------------------------------
WorkerStep(w) ==
  \/ WorkerExit(w) \/ WorkerTake(w) \/ WorkerCountTaken(w)
  \/ WorkerExecute(w) \/ WorkerLock(w) \/ WorkerUnlock(w)

SubmitStep(s) == SubmitSend(s) \/ SubmitCount(s)

StopStep == StopCancel \/ StopClose \/ StopReturn

(* A panic in any goroutine ends the process: no step follows it. *)
PoolNext ==
  /\ ~panicked
  /\ \/ Start \/ StopFlag \/ StopStep \/ ResetMetrics
     \/ \E w \in Workers : WorkerStep(w)
     \/ \E s \in Submitters : SubmitStep(s) \/ \E t \in Tasks : SubmitCheck(s, t)

PoolSpec == NewWorkerPool /\ [][PoolNext]_poolVars

(* Runnable goroutines are scheduled, metrics.mu is handed over fairly (a  *)
(* Go mutex in starvation mode is a FIFO queue), and Execute and the       *)
(* callbacks return.  Nothing obliges anyone to call Start, Submit, Stop   *)
(* or ResetMetrics.                                                        *)
PoolFairness ==
  /\ \A w \in Workers : WF_poolVars(~panicked /\ WorkerStep(w))
  /\ \A s \in Submitters : WF_poolVars(~panicked /\ SubmitStep(s))
  /\ WF_poolVars(~panicked /\ StopStep)

FairPoolSpec == PoolSpec /\ PoolFairness

-----------------------------------------------------------------------------
At(pcs) == {w \in Workers : wpc[w] \in pcs}
Ended(f) == {t \in Tasks : fate[t] = f}

(* GetMetrics never shows a wrong activeWorkers: it counts exactly the     *)
(* workers between the two critical sections of worker(), whatever the     *)
(* interleaving and however often ResetMetrics was called meanwhile.       *)
ActiveGauge == m.active = Cardinality(At({"running", "finishing"}))

(* queuedTasks is counted after the send and after the receive, so it lags *)
(* the channel (and goes negative) by exactly the goroutines in between;   *)
(* ResetMetrics zeroes it while tasks are queued, and what it forgets then *)
(* is never made up for.                                                   *)
QueueGauge ==
  m.queued + forgotten.queued =
    Len(tasks) + Cardinality(At({"taken"})) - Cardinality({s \in Submitters : spc[s] = "sent"})

(* completedTasks and failedTasks count the callbacks made, each task in   *)
(* one of the two, the one whose callback is running included.             *)
OutcomeCounts ==
  /\ m.completed + forgotten.completed =
       Cardinality(Ended("succeeded")) + Cardinality({w \in At({"callback"}) : ~werr[w]})
  /\ m.failed + forgotten.failed =
       Cardinality(Ended("failed")) + Cardinality({w \in At({"callback"}) : werr[w]})

(* Where a task is, as the caller of Submit sees it. *)
StatusOf(t) ==
  IF fate[t] # "none" THEN fate[t]
  ELSE IF \E w \in Workers : wtask[w] = t /\ wpc[w] # "taken" THEN "running"
  ELSE IF (\E w \in Workers : wtask[w] = t) \/ (\E i \in 1..Len(tasks) : tasks[i] = t)
       THEN "accepted"
  ELSE "new"

Lifecycle == INSTANCE TaskLifecycle
               WITH status <- [t \in Tasks |-> StatusOf(t)], stopped <- stopPc = "done"

(* The pool keeps the promise of TaskLifecycle: no task is lost between    *)
(* the channel and a worker, executed twice or given two callbacks, and    *)
(* when Stop returns every worker is out of its task for good.             *)
ImplementsLifecycle == Lifecycle!LifeSpec

(* Once the pool is started, a task it accepted is executed and called     *)
(* back, unless Stop cancels the context first.                            *)
AcceptedRuns ==
  \A t \in Tasks :
    StatusOf(t) = "accepted" /\ At({"off"}) = {}
      ~> fate[t] \in {"succeeded", "failed"} \/ cancelled

(* Stop returns: no worker stays blocked on the channel or on metrics.mu,  *)
(* also when the pool was never started.                                   *)
StopTerminates == (stopPc = "flagged") ~> (stopPc = "done" \/ panicked)
=============================================================================
