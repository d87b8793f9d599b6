------------------------- MODULE JobSchedulerProofs -------------------------
(***************************************************************************)
(* Theorems about JobScheduler, for every set of jobs and workers, every   *)
(* schedule and every bound.                                               *)
(***************************************************************************)
EXTENDS JobScheduler, TLAPS, FiniteSetTheorems

(* Who may hold what, where. *)
LoopHoldsJobMu == jobMu = Loop <=> lpc \in {"dispatch", "submitted", "marked"}
WorkersHold ==
  \A w \in Workers :
    /\ jobMu = w <=> wpc[w] = "saving"
    /\ metricsMu = w <=> wpc[w] \in {"callback", "saving"}
    /\ wjob[w] = NoJob <=> wpc[w] = "idle"
    /\ towrite[w] # {} <=> wpc[w] = "writing"
    /\ wpc[w] = "writing" => wjob[w] \in TokenJobs /\ ~werr[w]
    /\ wpc[w] = "saving" => cur = wjob[w]
CurInHand == cur \in Jobs <=> jobMu # Free /\ lpc # "dispatch"

(* What the job in hand looks like. *)
CurState ==
  /\ lpc = "submitted" => InFlight(cur)
  /\ jobMu \in Workers => mem[cur].status # "running"

Control == LoopHoldsJobMu /\ WorkersHold /\ CurInHand

(* What memory and the store know of the last submission of a job: it is   *)
(* pending again only for a later time, unless the submission is not yet   *)
(* marked or saved, or was forgotten by a process that died.               *)
DueOnce ==
  /\ \A k \in Jobs : ranAt[k] <= now
  /\ lpc \in {"dispatch", "submitted", "marked"} => next <= now
  /\ \A k \in Jobs : mem[k].status = "pending" =>
       mem[k].nextRun > ranAt[k] \/ k \in forgotten \/ (lpc = "submitted" /\ cur = k)
  /\ \A k \in Jobs : db[k].status = "pending" => db[k].nextRun > ranAt[k] \/ k \in unsaved
  /\ cur \in Jobs /\ mem[cur].status = "pending" => cur \notin forgotten

-----------------------------------------------------------------------------
USE DEF tables, loopVars, workVars, upVars, histVars, runVars

(* The pool's buffer size is a natural number. *)
LEMMA QueueCapType == QueueCap \in Nat
  BY SetsAssumption, FS_CardinalityType DEF QueueCap

(* The rows that the operations of ScheduleJob, OnSuccess and OnFailure    *)
(* assign are rows.                                                        *)
LEMMA RowTypes ==
  ASSUME TypeOK, NEW k \in Jobs, NEW r \in Rows
  PROVE  /\ Rescheduled(k, r) \in Rows
         /\ Succeeded(k, r) \in Rows
         /\ Failed(r) \in Rows
         /\ Marked(r) \in Rows
         /\ NoRow \in Rows
         /\ \A f \in {"status", "retry", "nextRun"} : Assigned(r, f) \in Rows
<1>1. now \in Nat /\ NextRunTime(k, now) \in Nat
  BY NextRunAssumption, TimesAssumption DEF TypeOK
<1>2. \A n \in Nat : Delay(n) \in Nat
  BY TimesAssumption DEF Delay
<1>3. Failed(r) \in Rows
  <2>1. r.retry + 1 \in Nat /\ now + Delay(r.retry + 1) \in Nat
    BY <1>1, <1>2 DEF Rows
  <2> QED BY <2>1 DEF Failed, Rows, Statuses
<1>4. now + Hour \in Nat
  BY <1>1, TimesAssumption
<1>5. \A f \in {"status", "retry", "nextRun"} : Assigned(r, f) \in Rows
  BY <1>4 DEF Assigned, Rows, Statuses
<1> QED BY <1>1, <1>3, <1>5 DEF Rescheduled, Succeeded, Marked, NoRow, Rows, Statuses

(* Every step keeps the state in its declared shape. *)
LEMMA TypeStep ==
  ASSUME TypeOK, Control, [Next]_vars
  PROVE  TypeOK'
<1> USE DEF TypeOK
<1>a. ASSUME NEW ok \in BOOLEAN, UpdateJob(ok), cur \in Jobs
      PROVE  /\ db' \in [Jobs -> Rows] /\ stale' \subseteq Jobs /\ unsaved' \subseteq Jobs
             /\ faults' \in 0..MaxFaults
  <2>1. db' \in [Jobs -> Rows]
    BY <1>a DEF UpdateJob, Stored
  <2>2. stale' \subseteq Jobs /\ unsaved' \subseteq Jobs
    BY <1>a DEF UpdateJob
  <2>3. faults' \in 0..MaxFaults
    BY <1>a, TimesAssumption DEF UpdateJob
  <2> QED BY <2>1, <2>2, <2>3
<1>1. CASE UNCHANGED vars
  BY <1>1 DEF vars
<1>2. CASE Start
  BY <1>2 DEF Start, LoopPc
<1>3. CASE FindNext
  <2>1. Wakeups \subseteq Nat
    <3>1. now + Horizon \in Nat
      BY TimesAssumption
    <3>2. \A k \in Jobs : mem[k].nextRun \in Nat
      BY DEF Rows
    <3> QED BY <3>1, <3>2 DEF Wakeups
  <2> QED BY <1>3, <2>1 DEF FindNext, LoopPc
<1>4. CASE LoopExit \/ LoopWoken
  BY <1>4 DEF LoopExit, LoopWoken, LoopPc
<1>5. CASE TimerFires
  BY <1>5 DEF TimerFires, LoopPc
<1>6. ASSUME NEW k \in Jobs, DispatchSubmit(k)
      PROVE  TypeOK'
  <2>1. queue' \in Seq(Jobs) /\ Len(queue') <= QueueCap
    BY <1>6, QueueCapType DEF DispatchSubmit, HasRoom
  <2> QED BY <1>6, <2>1 DEF DispatchSubmit, LoopPc
<1>7. ASSUME NEW k \in Jobs, DispatchRefused(k)
      PROVE  TypeOK'
  BY <1>7 DEF DispatchRefused
<1>8. CASE DispatchMark
  <2>1. cur \in Jobs
    BY <1>8, SetsAssumption DEF DispatchMark, Control, CurInHand, LoopHoldsJobMu
  <2>2. Marked(mem[cur]) \in Rows
    BY <2>1, RowTypes
  <2> QED BY <1>8, <2>1, <2>2 DEF DispatchMark, LoopPc
<1>9. ASSUME NEW ok \in BOOLEAN, DispatchSave(ok)
      PROVE  TypeOK'
  <2>1. cur \in Jobs
    BY <1>9, SetsAssumption DEF DispatchSave, Control, CurInHand, LoopHoldsJobMu
  <2> QED BY <1>9, <1>a, <2>1 DEF DispatchSave, LoopPc
<1>10. CASE DispatchEnd
  BY <1>10 DEF DispatchEnd, LoopPc
<1>11. ASSUME NEW ok \in BOOLEAN, RescheduleSave(ok)
       PROVE  TypeOK'
  <2>1. cur \in Jobs
    BY <1>11, SetsAssumption DEF RescheduleSave, Control, CurInHand, LoopHoldsJobMu
  <2> QED BY <1>11, <1>a, <2>1 DEF RescheduleSave, signalCronWakeup
<1>12. CASE ForceCheck
  BY <1>12 DEF ForceCheck, signalCronWakeup
<1>13. ASSUME NEW k \in Jobs, ScheduleNew(k)
       PROVE  TypeOK'
  <2>1. Rescheduled(k, NoRow) \in Rows
    <3>1. NoRow \in Rows
      BY DEF NoRow, Rows, Statuses
    <3> QED BY <3>1, RowTypes
  <2>2. calls' \in [Jobs -> 0..MaxSchedules]
    BY <1>13, TimesAssumption DEF ScheduleNew
  <2> QED BY <1>13, <2>1, <2>2 DEF ScheduleNew, CreateJob, signalCronWakeup
<1>14. ASSUME NEW k \in Jobs, Reschedule(k)
       PROVE  TypeOK'
  <2>1. Rescheduled(k, mem[k]) \in Rows
    BY RowTypes
  <2>2. calls' \in [Jobs -> 0..MaxSchedules]
    BY <1>14, TimesAssumption DEF Reschedule
  <2> QED BY <1>14, <2>1, <2>2 DEF Reschedule
<1>15. ASSUME NEW w \in Workers, WorkerTake(w)
       PROVE  TypeOK'
  <2>1. Head(queue) \in Jobs /\ Tail(queue) \in Seq(Jobs) /\ Len(Tail(queue)) <= QueueCap
    BY <1>15, QueueCapType DEF WorkerTake
  <2> QED BY <1>15, <2>1 DEF WorkerTake, WorkerPc
<1>16. ASSUME NEW w \in Workers, WorkerBegin(w) \/ Execute(w) \/ HandleTokenRefresh(w) \/ WorkerLock(w)
       PROVE  TypeOK'
  <2>1. CASE WorkerBegin(w)
    BY <2>1 DEF WorkerBegin, WorkerPc
  <2>2. CASE Execute(w)
    BY <2>2 DEF Execute, WorkerPc
  <2>3. CASE HandleTokenRefresh(w)
    BY <2>3 DEF HandleTokenRefresh, WorkerPc
  <2>4. CASE WorkerLock(w)
    BY <2>4 DEF WorkerLock, WorkerPc
  <2> QED BY <1>16, <2>1, <2>2, <2>3, <2>4
<1>17. ASSUME NEW w \in Workers, HandlerWrite(w)
       PROVE  TypeOK'
  <2>1. wjob[w] \in Jobs
    BY <1>17, SetsAssumption DEF HandlerWrite, Control, WorkersHold
  <2>2. \A f \in towrite[w] : Assigned(mem[wjob[w]], f) \in Rows
    BY <2>1, RowTypes
  <2>3. mem' \in [Jobs -> Rows]
    BY <1>17, <2>1, <2>2 DEF HandlerWrite
  <2> QED BY <1>17, <2>3 DEF HandlerWrite, WorkerPc
<1>18. ASSUME NEW w \in Workers, Callback(w)
       PROVE  TypeOK'
  <2>1. wjob[w] \in Jobs
    BY <1>18, SetsAssumption DEF Callback, Control, WorkersHold
  <2>2. Failed(mem[wjob[w]]) \in Rows /\ Succeeded(wjob[w], mem[wjob[w]]) \in Rows
    BY <2>1, RowTypes
  <2> QED BY <1>18, <2>1, <2>2 DEF Callback, WorkerPc
<1>19. ASSUME NEW w \in Workers, NEW ok \in BOOLEAN, CallbackSave(w, ok)
       PROVE  TypeOK'
  <2>1. cur \in Jobs
    BY <1>19, SetsAssumption DEF CallbackSave, Control, WorkersHold
  <2> QED BY <1>19, <1>a, <2>1 DEF CallbackSave, WorkerPc, signalCronWakeup
<1>20. CASE Stop \/ PoolStop
  BY <1>20 DEF Stop, PoolStop
<1>21. CASE Restart
  <2>1. crashes' \in 0..MaxCrashes /\ now' \in 1..MaxTime /\ faults' \in 0..MaxFaults
    BY <1>21, TimesAssumption DEF Restart, ListJobs
  <2>2. queue' \in Seq(Jobs) /\ Len(queue') <= QueueCap
    BY <1>21, QueueCapType DEF Restart, ListJobs
  <2> QED BY <1>21, <2>1, <2>2 DEF Restart, ListJobs, LoopPc, WorkerPc
<1>22. CASE Tick
  BY <1>22, TimesAssumption DEF Tick
<1> QED
  BY <1>1, <1>2, <1>3, <1>4, <1>5, <1>6, <1>7, <1>8, <1>9, <1>10, <1>11, <1>12, <1>13,
     <1>14, <1>15, <1>16, <1>17, <1>18, <1>19, <1>20, <1>21, <1>22
  DEF Next, LoopStep, WorkerStep, ClientSave

(* The locks: who holds one is where the code says, and JobMu, metrics.mu  *)
(* and the job in hand change hands together.                              *)
LEMMA ControlStep ==
  ASSUME TypeOK, Control, [Next]_vars
  PROVE  Control'
<1> USE SetsAssumption DEF TypeOK, Control, LoopHoldsJobMu, WorkersHold, CurInHand
<1>1. CASE UNCHANGED vars
  BY <1>1 DEF vars
<1>2. CASE Start \/ FindNext \/ LoopExit \/ LoopWoken
  BY <1>2 DEF Start, FindNext, LoopExit, LoopWoken
<1>3. CASE TimerFires \/ DispatchEnd
  BY <1>3 DEF TimerFires, DispatchEnd
<1>4. ASSUME NEW k \in Jobs, DispatchSubmit(k) \/ DispatchRefused(k)
      PROVE  Control'
  BY <1>4 DEF DispatchSubmit, DispatchRefused
<1>5. CASE DispatchMark
  BY <1>5 DEF DispatchMark
<1>6. ASSUME NEW ok \in BOOLEAN, DispatchSave(ok)
      PROVE  Control'
  BY <1>6 DEF DispatchSave
<1>7. ASSUME NEW ok \in BOOLEAN, RescheduleSave(ok)
      PROVE  Control'
  BY <1>7 DEF RescheduleSave
<1>8. CASE ForceCheck \/ Stop \/ PoolStop \/ Tick
  BY <1>8 DEF ForceCheck, Stop, PoolStop, Tick
<1>9. ASSUME NEW k \in Jobs, ScheduleNew(k) \/ Reschedule(k)
      PROVE  Control'
  BY <1>9 DEF ScheduleNew, CreateJob, Reschedule
<1>10. ASSUME NEW w \in Workers, WorkerTake(w)
       PROVE  Control'
  <2>1. Head(queue) \in Jobs
    BY <1>10 DEF WorkerTake
  <2> QED BY <1>10, <2>1 DEF WorkerTake
<1>11. ASSUME NEW w \in Workers, WorkerBegin(w) \/ Execute(w) \/ HandleTokenRefresh(w) \/ WorkerLock(w)
       PROVE  Control'
  <2>1. CASE WorkerBegin(w) \/ WorkerLock(w)
    BY <2>1 DEF WorkerBegin, WorkerLock
  <2>2. CASE Execute(w)
    BY <2>2 DEF Execute
  <2>3. CASE HandleTokenRefresh(w)
    BY <2>3 DEF HandleTokenRefresh
  <2> QED BY <1>11, <2>1, <2>2, <2>3
<1>12. ASSUME NEW w \in Workers, HandlerWrite(w)
       PROVE  Control'
  BY <1>12 DEF HandlerWrite
<1>13. ASSUME NEW w \in Workers, Callback(w)
       PROVE  Control'
  BY <1>13 DEF Callback
<1>14. ASSUME NEW w \in Workers, NEW ok \in BOOLEAN, CallbackSave(w, ok)
       PROVE  Control'
  BY <1>14 DEF CallbackSave
<1>15. CASE Restart
  BY <1>15 DEF Restart, ListJobs
<1> QED
  BY <1>1, <1>2, <1>3, <1>4, <1>5, <1>6, <1>7, <1>8, <1>9, <1>10, <1>11, <1>12, <1>13,
     <1>14, <1>15
  DEF Next, LoopStep, WorkerStep, ClientSave

-----------------------------------------------------------------------------
(* A task stays in flight until the callback of a task of its job saves,   *)
(* or the process ends.                                                    *)
LEMMA InFlightStep ==
  ASSUME TypeOK, Control, [Next]_vars, NEW k \in Jobs, InFlight(k)
  PROVE  InFlight(k)' \/ Restart \/ (jobMu \in Workers /\ cur = k)
<1> USE SetsAssumption DEF TypeOK
<1>1. CASE UNCHANGED <<queue, wjob>>
  BY <1>1 DEF InFlight
<1>2. ASSUME NEW j \in Jobs, DispatchSubmit(j)
      PROVE  InFlight(k)'
  <2>1. queue' = Append(queue, j) /\ wjob' = wjob
    BY <1>2 DEF DispatchSubmit
  <2>2. /\ Len(queue') = Len(queue) + 1
        /\ \A i \in 1..Len(queue) : queue'[i] = queue[i]
    BY <2>1
  <2> QED BY <2>1, <2>2 DEF InFlight
<1>3. ASSUME NEW w \in Workers, WorkerTake(w)
      PROVE  InFlight(k)'
  <2>1. /\ queue # <<>> /\ queue' = Tail(queue) /\ wjob[w] = NoJob
        /\ wjob' = [wjob EXCEPT ![w] = Head(queue)]
    BY <1>3 DEF WorkerTake, Control, WorkersHold
  <2>2. CASE \E v \in Workers : wjob[v] = k
    BY <2>1, <2>2 DEF InFlight
  <2>3. CASE \E i \in 1..Len(queue) : queue[i] = k
    <3>1. PICK i \in 1..Len(queue) : queue[i] = k
      BY <2>3
    <3>2. CASE i = 1
      BY <2>1, <3>1, <3>2 DEF InFlight
    <3>3. CASE i # 1
      <4>1. i - 1 \in 1..Len(queue') /\ queue'[i - 1] = k
        BY <2>1, <3>1, <3>3
      <4> QED BY <4>1 DEF InFlight
    <3> QED BY <3>2, <3>3
  <2> QED BY <2>2, <2>3 DEF InFlight
<1>4. ASSUME NEW w \in Workers, NEW ok \in BOOLEAN, CallbackSave(w, ok)
      PROVE  InFlight(k)' \/ (jobMu \in Workers /\ cur = k)
  <2>1. jobMu = w /\ cur = wjob[w] /\ queue' = queue /\ wjob' = [wjob EXCEPT ![w] = NoJob]
    BY <1>4 DEF CallbackSave, Control, WorkersHold
  <2> QED BY <2>1 DEF InFlight
<1>5. ASSUME NEW w \in Workers,
             WorkerBegin(w) \/ Execute(w) \/ HandleTokenRefresh(w) \/ HandlerWrite(w)
               \/ WorkerLock(w) \/ Callback(w)
      PROVE  UNCHANGED <<queue, wjob>>
  BY <1>5 DEF WorkerBegin, Execute, HandleTokenRefresh, HandlerWrite, WorkerLock, Callback
<1>6. CASE Start \/ FindNext \/ LoopExit \/ LoopWoken \/ TimerFires \/ DispatchMark \/ DispatchEnd
  BY <1>1, <1>6 DEF Start, FindNext, LoopExit, LoopWoken, TimerFires, DispatchMark, DispatchEnd
<1>7. ASSUME NEW ok \in BOOLEAN, DispatchSave(ok) \/ RescheduleSave(ok)
      PROVE  UNCHANGED <<queue, wjob>>
  BY <1>7 DEF DispatchSave, RescheduleSave
<1>8. ASSUME NEW j \in Jobs, DispatchRefused(j) \/ ScheduleNew(j) \/ Reschedule(j)
      PROVE  UNCHANGED <<queue, wjob>>
  BY <1>8 DEF DispatchRefused, ScheduleNew, CreateJob, Reschedule
<1>9. CASE ForceCheck \/ Stop \/ PoolStop \/ Tick \/ UNCHANGED vars
  BY <1>1, <1>9 DEF ForceCheck, Stop, PoolStop, Tick, vars
<1> QED
  BY <1>1, <1>2, <1>3, <1>4, <1>5, <1>6, <1>7, <1>8, <1>9
  DEF Next, LoopStep, WorkerStep, ClientSave

-----------------------------------------------------------------------------
(* The fields of the rows that the operations assign. *)
LEMMA RowFields ==
  ASSUME TypeOK, NEW k \in Jobs, NEW r \in Rows
  PROVE  /\ Rescheduled(k, r).status = "pending" /\ Rescheduled(k, r).retry = 0
         /\ Rescheduled(k, r).nextRun > now
         /\ Succeeded(k, r).status = "completed"
         /\ Failed(r).status = "failed"
         /\ Marked(r).status = "running"
<1>1. NextRunTime(k, now) > now
  BY NextRunAssumption, TimesAssumption DEF TypeOK
<1> QED BY <1>1 DEF Rescheduled, Succeeded, Failed, Marked, Rows

(* A job becomes running only when the loop marks it, or at a restart.     *)
LEMMA RunningStep ==
  ASSUME TypeOK, Control, [Next]_vars, NEW k \in Jobs, mem'[k].status = "running"
  PROVE  \/ mem[k].status = "running" /\ (k \in orphans => k \in orphans')
         \/ DispatchMark /\ cur = k
         \/ Restart
<1> USE SetsAssumption DEF TypeOK
<1>1. CASE UNCHANGED <<mem, orphans>>
  BY <1>1
<1>2. CASE DispatchMark
  <2>1. cur \in Jobs /\ mem' = [mem EXCEPT ![cur] = Marked(mem[cur])] /\ orphans' = orphans
    BY <1>2 DEF DispatchMark, Control, CurInHand, LoopHoldsJobMu
  <2> QED BY <1>2, <2>1
<1>3. ASSUME NEW j \in Jobs, ScheduleNew(j)
      PROVE  mem[k].status = "running" /\ orphans' = orphans
  <2>1. NoRow \in Rows
    BY DEF NoRow, Rows, Statuses
  <2>2. Rescheduled(j, NoRow).status = "pending"
    BY <2>1, RowFields
  <2> QED BY <1>3, <2>2 DEF ScheduleNew, CreateJob
<1>4. ASSUME NEW j \in Jobs, Reschedule(j)
      PROVE  mem[k].status = "running" /\ (k \in orphans => k \in orphans')
  <2>1. Rescheduled(j, mem[j]).status = "pending"
    BY RowFields
  <2> QED BY <1>4, <2>1 DEF Reschedule
<1>5. ASSUME NEW w \in Workers, HandlerWrite(w)
      PROVE  mem[k].status = "running" /\ orphans' = orphans
  <2>1. wjob[w] \in Jobs
    BY <1>5 DEF HandlerWrite, Control, WorkersHold
  <2>2. PICK f \in towrite[w] :
          mem' = [mem EXCEPT ![wjob[w]] = Assigned(mem[wjob[w]], f)]
    BY <1>5 DEF HandlerWrite
  <2>3. mem[wjob[w]] \in Rows
    BY <2>1
  <2>4. Assigned(mem[wjob[w]], f).status \in {mem[wjob[w]].status, "completed"}
    BY <2>3 DEF Assigned, Rows
  <2> QED BY <1>5, <2>1, <2>2, <2>4 DEF HandlerWrite
<1>6. ASSUME NEW w \in Workers, Callback(w)
      PROVE  mem[k].status = "running" /\ orphans' = orphans
  <2>1. wjob[w] \in Jobs
    BY <1>6 DEF Callback, Control, WorkersHold
  <2>2. Failed(mem[wjob[w]]).status = "failed" /\ Succeeded(wjob[w], mem[wjob[w]]).status = "completed"
    BY <2>1, RowFields
  <2> QED BY <1>6, <2>1, <2>2 DEF Callback
<1>7. ASSUME NEW w \in Workers, NEW ok \in BOOLEAN, CallbackSave(w, ok)
      PROVE  UNCHANGED <<mem, orphans>>
  BY <1>7 DEF CallbackSave
<1>8. ASSUME NEW w \in Workers,
             WorkerTake(w) \/ WorkerBegin(w) \/ Execute(w) \/ HandleTokenRefresh(w) \/ WorkerLock(w)
      PROVE  UNCHANGED <<mem, orphans>>
  BY <1>8 DEF WorkerTake, WorkerBegin, Execute, HandleTokenRefresh, WorkerLock
<1>9. CASE Start \/ FindNext \/ LoopExit \/ LoopWoken \/ TimerFires \/ DispatchEnd
  BY <1>1, <1>9 DEF Start, FindNext, LoopExit, LoopWoken, TimerFires, DispatchEnd
<1>10. ASSUME NEW ok \in BOOLEAN, DispatchSave(ok) \/ RescheduleSave(ok)
       PROVE  UNCHANGED <<mem, orphans>>
  BY <1>10 DEF DispatchSave, RescheduleSave
<1>11. ASSUME NEW j \in Jobs, DispatchSubmit(j) \/ DispatchRefused(j)
       PROVE  UNCHANGED <<mem, orphans>>
  BY <1>11 DEF DispatchSubmit, DispatchRefused
<1>12. CASE ForceCheck \/ Stop \/ PoolStop \/ Tick \/ UNCHANGED vars
  BY <1>1, <1>12 DEF ForceCheck, Stop, PoolStop, Tick, vars
<1> QED
  BY <1>1, <1>2, <1>3, <1>4, <1>5, <1>6, <1>7, <1>8, <1>9, <1>10, <1>11, <1>12
  DEF Next, LoopStep, WorkerStep, ClientSave

(* RunningHasTask is preserved: whoever ends a task has just given its job *)
(* another status, under JobMu.                                            *)
LEMMA RunningHasTaskStep ==
  ASSUME TypeOK, Control, CurState, RunningHasTask, [Next]_vars
  PROVE  RunningHasTask'
<1> SUFFICES ASSUME NEW k \in Jobs, mem'[k].status = "running"
             PROVE  InFlight(k)' \/ k \in orphans'
  BY DEF RunningHasTask
<1>1. CASE DispatchMark /\ cur = k
  <2>1. InFlight(k) /\ UNCHANGED <<queue, wjob>>
    BY <1>1 DEF DispatchMark, CurState
  <2> QED BY <2>1 DEF InFlight
<1>2. CASE Restart
  BY <1>2 DEF Restart, ListJobs, TypeOK
<1>3. CASE mem[k].status = "running" /\ (k \in orphans => k \in orphans')
  <2>1. CASE k \in orphans
    BY <1>3, <2>1
  <2>2. CASE InFlight(k)
    <3>1. ~(jobMu \in Workers /\ cur = k)
      BY <1>3 DEF CurState
    <3> QED BY <1>2, <2>2, <3>1, InFlightStep
  <2> QED BY <1>3, <2>1, <2>2 DEF RunningHasTask
<1> QED BY <1>1, <1>2, <1>3, RunningStep

(* While the loop is between Submit and the mark, its job is in flight;    *)
(* while a worker saves, its job is not running.                           *)
LEMMA CurStateStep ==
  ASSUME TypeOK, Control, CurState, [Next]_vars
  PROVE  CurState'
<1> USE SetsAssumption DEF TypeOK
<1>1. ASSUME lpc' = "submitted"
      PROVE  InFlight(cur)'
  <2>1. ASSUME NEW k \in Jobs, DispatchSubmit(k)
        PROVE  InFlight(cur)'
    <3>1. queue' = Append(queue, k) /\ cur' = k
      BY <2>1 DEF DispatchSubmit
    <3>2. Len(queue') \in 1..Len(queue') /\ queue'[Len(queue')] = k
      BY <3>1
    <3> QED BY <3>1, <3>2 DEF InFlight
  <2>2. CASE lpc = "submitted" /\ UNCHANGED cur
    <3>1. cur \in Jobs /\ jobMu = Loop /\ ~Restart
      BY <1>1, <2>2 DEF Control, CurInHand, LoopHoldsJobMu, Restart, ListJobs
    <3>2. InFlight(cur)'
      BY <2>2, <3>1, InFlightStep DEF CurState, InFlight
    <3> QED BY <2>2, <3>2 DEF CurState
  <2>3. CASE \A k \in Jobs : ~DispatchSubmit(k)
    <3>1. lpc = "submitted" => jobMu = Loop
      BY DEF Control, LoopHoldsJobMu
    <3>2. ASSUME NEW w \in Workers, WorkerStep(w)
          PROVE  lpc = "submitted" /\ UNCHANGED cur
      <4>1. lpc = "submitted"
        BY <1>1, <3>2 DEF WorkerStep, WorkerTake, WorkerBegin, Execute, HandleTokenRefresh,
           HandlerWrite, WorkerLock, Callback, CallbackSave
      <4>2. wpc[w] # "saving" /\ jobMu # Free
        BY <4>1, <3>1 DEF Control, WorkersHold
      <4> QED BY <3>2, <4>1, <4>2 DEF WorkerStep, WorkerTake, WorkerBegin, Execute,
              HandleTokenRefresh, HandlerWrite, WorkerLock, Callback, CallbackSave
    <3>3. CASE Start \/ LoopStep \/ Restart
      BY <1>1, <2>3, <3>3 DEF Start, LoopStep, FindNext, LoopExit, LoopWoken, TimerFires,
         DispatchMark, DispatchEnd, DispatchRefused, DispatchSave, Restart, ListJobs
    <3>4. CASE ClientSave \/ \E k \in Jobs : ScheduleNew(k) \/ Reschedule(k)
      BY <1>1, <3>1, <3>4 DEF ClientSave, RescheduleSave, ScheduleNew, CreateJob, Reschedule
    <3>5. CASE ForceCheck \/ Stop \/ PoolStop \/ Tick \/ UNCHANGED vars
      BY <1>1, <2>2, <3>5 DEF ForceCheck, Stop, PoolStop, Tick, vars
    <3> QED BY <2>2, <3>2, <3>3, <3>4, <3>5 DEF Next
  <2> QED BY <2>1, <2>3
<1>2. ASSUME jobMu' \in Workers
      PROVE  mem'[cur'].status # "running"
  <2>1. ASSUME NEW w \in Workers, Callback(w)
        PROVE  mem'[cur'].status # "running"
    <3>1. wjob[w] \in Jobs
      BY <2>1 DEF Callback, Control, WorkersHold
    <3>2. Failed(mem[wjob[w]]).status = "failed" /\ Succeeded(wjob[w], mem[wjob[w]]).status = "completed"
      BY <3>1, RowFields
    <3> QED BY <2>1, <3>1, <3>2 DEF Callback
  <2>2. CASE jobMu \in Workers /\ cur' = cur
    <3>1. cur \in Jobs /\ mem[cur].status # "running" /\ ~DispatchMark /\ ~Restart
      BY <1>2, <2>2 DEF Control, CurInHand, LoopHoldsJobMu, WorkersHold, CurState, DispatchMark, Restart, ListJobs
    <3> QED BY <2>2, <3>1, RunningStep
  <2>3. CASE \A w \in Workers : ~Callback(w)
    <3>1. jobMu \in Workers => jobMu \notin {Free, Loop, Client} /\ lpc \notin {"dispatch", "submitted", "marked"}
      BY DEF Control, LoopHoldsJobMu
    <3>2. ASSUME NEW w \in Workers, WorkerStep(w)
          PROVE  jobMu \in Workers /\ cur' = cur
      BY <1>2, <2>3, <3>2 DEF WorkerStep, WorkerTake, WorkerBegin, Execute, HandleTokenRefresh,
         HandlerWrite, WorkerLock, CallbackSave
    <3>3. CASE Start \/ LoopStep \/ Restart
      <4>1. CASE Start \/ LoopExit \/ LoopWoken
        BY <1>2, <2>2, <4>1 DEF Start, LoopExit, LoopWoken
      <4>2. CASE FindNext \/ TimerFires \/ DispatchEnd \/ Restart
        BY <1>2, <3>1, <4>2 DEF FindNext, TimerFires, DispatchEnd, Restart, ListJobs
      <4>3. CASE DispatchMark \/ (\E k \in Jobs : DispatchSubmit(k) \/ DispatchRefused(k))
                 \/ (\E ok \in BOOLEAN : DispatchSave(ok))
        BY <1>2, <3>1, <4>3 DEF DispatchMark, DispatchSubmit, DispatchRefused, DispatchSave
      <4> QED BY <3>3, <4>1, <4>2, <4>3 DEF LoopStep
    <3>4. CASE ClientSave \/ \E k \in Jobs : ScheduleNew(k) \/ Reschedule(k)
      BY <1>2, <3>1, <3>4 DEF ClientSave, RescheduleSave, ScheduleNew, CreateJob, Reschedule
    <3>5. CASE ForceCheck \/ Stop \/ PoolStop \/ Tick \/ UNCHANGED vars
      BY <1>2, <2>2, <3>5 DEF ForceCheck, Stop, PoolStop, Tick, vars
    <3> QED BY <2>2, <3>2, <3>3, <3>4, <3>5 DEF Next
  <2> QED BY <2>1, <2>3
<1> QED BY <1>1, <1>2 DEF CurState

-----------------------------------------------------------------------------
(* A job becomes pending only by ScheduleJob or a restart; a job that      *)
(* stays pending keeps its retry count and its next run unless a handler   *)
(* writes them.                                                            *)
LEMMA PendingStep ==
  ASSUME TypeOK, Control, [Next]_vars, NEW k \in Jobs, mem'[k].status = "pending"
  PROVE  \/ /\ mem[k].status = "pending" /\ mem'[k].retry \in {mem[k].retry, 0}
            /\ mem'[k].nextRun \in {mem[k].nextRun, now + Hour}
         \/ /\ ScheduleNew(k) \/ Reschedule(k)
            /\ mem'[k].retry = 0 /\ mem'[k].nextRun > now
         \/ Restart
<1> USE SetsAssumption DEF TypeOK
<1>1. CASE UNCHANGED mem
  BY <1>1
<1>2. CASE DispatchMark
  <2>1. cur \in Jobs /\ mem' = [mem EXCEPT ![cur] = Marked(mem[cur])]
    BY <1>2 DEF DispatchMark, Control, CurInHand, LoopHoldsJobMu
  <2>2. Marked(mem[cur]).status = "running"
    BY <2>1, RowFields
  <2> QED BY <2>1, <2>2
<1>3. ASSUME NEW j \in Jobs, ScheduleNew(j)
      PROVE  mem'[k] = mem[k] \/ (j = k /\ mem'[k].retry = 0 /\ mem'[k].nextRun > now)
  <2>1. NoRow \in Rows
    BY DEF NoRow, Rows, Statuses
  <2>2. Rescheduled(j, NoRow).retry = 0 /\ Rescheduled(j, NoRow).nextRun > now
    BY <2>1, RowFields
  <2> QED BY <1>3, <2>2 DEF ScheduleNew, CreateJob
<1>4. ASSUME NEW j \in Jobs, Reschedule(j)
      PROVE  mem'[k] = mem[k] \/ (j = k /\ mem'[k].retry = 0 /\ mem'[k].nextRun > now)
  <2>1. Rescheduled(j, mem[j]).retry = 0 /\ Rescheduled(j, mem[j]).nextRun > now
    BY RowFields
  <2> QED BY <1>4, <2>1 DEF Reschedule
<1>5. ASSUME NEW w \in Workers, HandlerWrite(w)
      PROVE  /\ mem[k].status = "pending" /\ mem'[k].retry \in {mem[k].retry, 0}
             /\ mem'[k].nextRun \in {mem[k].nextRun, now + Hour}
  <2>1. wjob[w] \in Jobs /\ mem[wjob[w]] \in Rows
    BY <1>5 DEF HandlerWrite, Control, WorkersHold
  <2>2. PICK f \in towrite[w] :
          mem' = [mem EXCEPT ![wjob[w]] = Assigned(mem[wjob[w]], f)]
    BY <1>5 DEF HandlerWrite
  <2>3. /\ Assigned(mem[wjob[w]], f).status \in {mem[wjob[w]].status, "completed"}
        /\ Assigned(mem[wjob[w]], f).retry \in {mem[wjob[w]].retry, 0}
        /\ Assigned(mem[wjob[w]], f).nextRun \in {mem[wjob[w]].nextRun, now + Hour}
    BY <2>1 DEF Assigned, Rows
  <2> QED BY <2>1, <2>2, <2>3
<1>6. ASSUME NEW w \in Workers, Callback(w)
      PROVE  mem'[k] = mem[k]
  <2>1. wjob[w] \in Jobs
    BY <1>6 DEF Callback, Control, WorkersHold
  <2>2. Failed(mem[wjob[w]]).status = "failed" /\ Succeeded(wjob[w], mem[wjob[w]]).status = "completed"
    BY <2>1, RowFields
  <2> QED BY <1>6, <2>1, <2>2 DEF Callback
<1>7. ASSUME NEW w \in Workers, NEW ok \in BOOLEAN, CallbackSave(w, ok)
      PROVE  UNCHANGED mem
  BY <1>7 DEF CallbackSave
<1>8. ASSUME NEW w \in Workers,
             WorkerTake(w) \/ WorkerBegin(w) \/ Execute(w) \/ HandleTokenRefresh(w) \/ WorkerLock(w)
      PROVE  UNCHANGED mem
  BY <1>8 DEF WorkerTake, WorkerBegin, Execute, HandleTokenRefresh, WorkerLock
<1>9. CASE Start \/ FindNext \/ LoopExit \/ LoopWoken \/ TimerFires \/ DispatchEnd
  BY <1>1, <1>9 DEF Start, FindNext, LoopExit, LoopWoken, TimerFires, DispatchEnd
<1>10. ASSUME NEW ok \in BOOLEAN, DispatchSave(ok) \/ RescheduleSave(ok)
       PROVE  UNCHANGED mem
  BY <1>10 DEF DispatchSave, RescheduleSave
<1>11. ASSUME NEW j \in Jobs, DispatchSubmit(j) \/ DispatchRefused(j)
       PROVE  UNCHANGED mem
  BY <1>11 DEF DispatchSubmit, DispatchRefused
<1>12. CASE ForceCheck \/ Stop \/ PoolStop \/ Tick \/ UNCHANGED vars
  BY <1>1, <1>12 DEF ForceCheck, Stop, PoolStop, Tick, vars
<1> QED
  BY <1>1, <1>2, <1>3, <1>4, <1>5, <1>6, <1>7, <1>8, <1>9, <1>10, <1>11, <1>12
  DEF Next, LoopStep, WorkerStep, ClientSave

-----------------------------------------------------------------------------
(* The store changes only by CreateJob and by UpdateJob of the job in hand. *)
LEMMA StoreStep ==
  ASSUME TypeOK, Control, [Next]_vars, NEW k \in Jobs
  PROVE  db'[k] = db[k] \/ db'[k] = mem'[k]
<1> USE SetsAssumption DEF TypeOK
<1>1. CASE Start \/ FindNext \/ LoopExit \/ LoopWoken \/ TimerFires \/ DispatchMark \/ DispatchEnd
  BY <1>1 DEF Start, FindNext, LoopExit, LoopWoken, TimerFires, DispatchMark, DispatchEnd
<1>2. CASE \E j \in Jobs : Reschedule(j) \/ DispatchSubmit(j) \/ DispatchRefused(j)
  BY <1>2 DEF Reschedule, DispatchSubmit, DispatchRefused
<1>3. ASSUME NEW j \in Jobs, ScheduleNew(j)
      PROVE  db'[k] = db[k] \/ db'[k] = mem'[k]
  BY <1>3 DEF ScheduleNew, CreateJob
<1>4. ASSUME NEW ok \in BOOLEAN, UpdateJob(ok), UNCHANGED mem
      PROVE  db'[k] = db[k] \/ db'[k] = mem'[k]
  BY <1>4 DEF UpdateJob, Stored
<1>5. ASSUME NEW ok \in BOOLEAN, DispatchSave(ok) \/ RescheduleSave(ok)
      PROVE  UpdateJob(ok) /\ UNCHANGED mem
  BY <1>5 DEF DispatchSave, RescheduleSave
<1>6. ASSUME NEW w \in Workers, NEW ok \in BOOLEAN, CallbackSave(w, ok)
      PROVE  UpdateJob(ok) /\ UNCHANGED mem
  BY <1>6 DEF CallbackSave
<1>7. ASSUME NEW w \in Workers,
             WorkerTake(w) \/ WorkerBegin(w) \/ Execute(w) \/ HandleTokenRefresh(w)
               \/ HandlerWrite(w) \/ WorkerLock(w) \/ Callback(w)
      PROVE  UNCHANGED db
  BY <1>7 DEF WorkerTake, WorkerBegin, Execute, HandleTokenRefresh, HandlerWrite, WorkerLock, Callback
<1>8. CASE ForceCheck \/ Stop \/ PoolStop \/ Tick \/ Restart \/ UNCHANGED vars
  BY <1>8 DEF ForceCheck, Stop, PoolStop, Tick, Restart, ListJobs, vars
<1> QED BY <1>1, <1>2, <1>3, <1>4, <1>5, <1>6, <1>7, <1>8
        DEF Next, LoopStep, WorkerStep, ClientSave

(* The history of submissions: time does not go back, a submission is      *)
(* recorded when it is made, and forgotten only by a restart.              *)
LEMMA HistoryStep ==
  ASSUME TypeOK, [Next]_vars
  PROVE  /\ now' = now \/ Tick
         /\ ranAt' = ranAt \/ \E k \in Jobs : DispatchSubmit(k)
         /\ forgotten' = forgotten \/ Restart \/ \E k \in Jobs : DispatchSubmit(k) \/ Reschedule(k)
<1>1. CASE Start \/ FindNext \/ LoopExit \/ LoopWoken \/ TimerFires \/ DispatchMark \/ DispatchEnd
  BY <1>1 DEF Start, FindNext, LoopExit, LoopWoken, TimerFires, DispatchMark, DispatchEnd
<1>2. CASE \E k \in Jobs : ScheduleNew(k) \/ Reschedule(k) \/ DispatchSubmit(k) \/ DispatchRefused(k)
  BY <1>2 DEF ScheduleNew, CreateJob, Reschedule, DispatchSubmit, DispatchRefused
<1>3. CASE \E ok \in BOOLEAN : DispatchSave(ok) \/ RescheduleSave(ok)
  BY <1>3 DEF DispatchSave, RescheduleSave
<1>4. CASE \E w \in Workers : WorkerStep(w)
  BY <1>4 DEF WorkerStep, WorkerTake, WorkerBegin, Execute, HandleTokenRefresh, HandlerWrite,
     WorkerLock, Callback, CallbackSave
<1>5. CASE ForceCheck \/ Stop \/ PoolStop \/ Tick \/ Restart \/ UNCHANGED vars
  BY <1>5 DEF ForceCheck, Stop, PoolStop, Tick, Restart, vars
<1> QED BY <1>1, <1>2, <1>3, <1>4, <1>5 DEF Next, LoopStep, ClientSave

(* Who takes a job in hand. *)
LEMMA CurStep ==
  ASSUME TypeOK, Control, [Next]_vars, cur' \in Jobs
  PROVE  \/ cur' = cur /\ ~Restart
         \/ DispatchSubmit(cur') \/ Reschedule(cur')
         \/ \E w \in Workers : Callback(w) /\ cur' = wjob[w]
<1> USE SetsAssumption
<1>1. CASE Start \/ FindNext \/ LoopExit \/ LoopWoken \/ TimerFires \/ DispatchMark \/ DispatchEnd
  BY <1>1 DEF Start, FindNext, LoopExit, LoopWoken, TimerFires, DispatchMark, DispatchEnd, Restart
<1>2. ASSUME NEW k \in Jobs, ScheduleNew(k) \/ Reschedule(k) \/ DispatchSubmit(k) \/ DispatchRefused(k)
      PROVE  (cur' = cur /\ ~Restart) \/ DispatchSubmit(cur') \/ Reschedule(cur')
  BY <1>2 DEF ScheduleNew, CreateJob, Reschedule, DispatchSubmit, DispatchRefused, Restart
<1>3. CASE \E ok \in BOOLEAN : DispatchSave(ok) \/ RescheduleSave(ok)
  BY <1>3 DEF DispatchSave, RescheduleSave
<1>4. ASSUME NEW w \in Workers, WorkerStep(w)
      PROVE  (cur' = cur /\ ~Restart) \/ (Callback(w) /\ cur' = wjob[w])
  BY <1>4 DEF WorkerStep, WorkerTake, WorkerBegin, Execute, HandleTokenRefresh, HandlerWrite,
     WorkerLock, Callback, CallbackSave, Restart
<1>5. CASE ForceCheck \/ Stop \/ PoolStop \/ Tick \/ Restart \/ UNCHANGED vars
  BY <1>5 DEF ForceCheck, Stop, PoolStop, Tick, Restart, vars
<1> QED BY <1>1, <1>2, <1>3, <1>4, <1>5 DEF Next, LoopStep, ClientSave

(* A submission that is not marked yet stays so until it is, or is lost    *)
(* with the process.                                                       *)
LEMMA SubmittedStep ==
  ASSUME TypeOK, Control, [Next]_vars, lpc = "submitted"
  PROVE  DispatchMark \/ Restart \/ (lpc' = "submitted" /\ cur' = cur)
<1> USE SetsAssumption
<1>1. jobMu = Loop /\ jobMu # Free /\ jobMu # Client /\ \A w \in Workers : wpc[w] # "saving"
  BY DEF Control, LoopHoldsJobMu, WorkersHold
<1>2. CASE Start \/ LoopStep
  BY <1>2 DEF Start, LoopStep, FindNext, LoopExit, LoopWoken, TimerFires, DispatchEnd,
     DispatchSubmit, DispatchRefused, DispatchSave
<1>3. CASE ClientSave \/ \E k \in Jobs : ScheduleNew(k) \/ Reschedule(k)
  BY <1>1, <1>3 DEF ClientSave, RescheduleSave, ScheduleNew, Reschedule
<1>4. ASSUME NEW w \in Workers, WorkerStep(w) PROVE lpc' = "submitted" /\ cur' = cur
  BY <1>1, <1>4 DEF WorkerStep, WorkerTake, WorkerBegin, Execute, HandleTokenRefresh,
     HandlerWrite, WorkerLock, Callback, CallbackSave
<1>5. CASE ForceCheck \/ Stop \/ PoolStop \/ Tick \/ UNCHANGED vars
  BY <1>5 DEF ForceCheck, Stop, PoolStop, Tick, vars
<1> QED BY <1>2, <1>3, <1>4, <1>5 DEF Next

(* What the store learns of a job: nothing, its row when it is created, or *)
(* what memory has of the job in hand; only that settles a submission.     *)
LEMMA SaveStep ==
  ASSUME TypeOK, Control, [Next]_vars, NEW k \in Jobs
  PROVE  \/ db'[k] = db[k] /\ (k \in unsaved => k \in unsaved')
         \/ ScheduleNew(k) /\ db'[k] = mem'[k]
         \/ /\ cur = k /\ lpc # "submitted"
            /\ db'[k] = mem[k] /\ UNCHANGED <<mem, ranAt>>
<1> USE SetsAssumption DEF TypeOK
<1>1. CASE UNCHANGED <<db, unsaved>>
  BY <1>1
<1>2. CASE Start \/ FindNext \/ LoopExit \/ LoopWoken \/ TimerFires \/ DispatchMark \/ DispatchEnd
  BY <1>1, <1>2 DEF Start, FindNext, LoopExit, LoopWoken, TimerFires, DispatchMark, DispatchEnd
<1>3. CASE \E j \in Jobs : Reschedule(j) \/ DispatchSubmit(j) \/ DispatchRefused(j)
  BY <1>3 DEF Reschedule, DispatchSubmit, DispatchRefused
<1>4. ASSUME NEW j \in Jobs, ScheduleNew(j)
      PROVE  (db'[k] = db[k] /\ unsaved' = unsaved) \/ (j = k /\ db'[k] = mem'[k])
  BY <1>4 DEF ScheduleNew, CreateJob
<1>5. ASSUME NEW ok \in BOOLEAN, UpdateJob(ok), UNCHANGED <<mem, ranAt>>, lpc # "submitted"
      PROVE  \/ db'[k] = db[k] /\ (k \in unsaved => k \in unsaved')
             \/ cur = k /\ db'[k] = mem[k]
  BY <1>5 DEF UpdateJob, Stored
<1>6. ASSUME NEW ok \in BOOLEAN, DispatchSave(ok) \/ RescheduleSave(ok)
      PROVE  UpdateJob(ok) /\ UNCHANGED <<mem, ranAt>> /\ lpc # "submitted"
  BY <1>6 DEF DispatchSave, RescheduleSave, Control, LoopHoldsJobMu
<1>7. ASSUME NEW w \in Workers, NEW ok \in BOOLEAN, CallbackSave(w, ok)
      PROVE  UpdateJob(ok) /\ UNCHANGED <<mem, ranAt>> /\ lpc # "submitted"
  BY <1>7 DEF CallbackSave, Control, WorkersHold, LoopHoldsJobMu
<1>8. ASSUME NEW w \in Workers,
             WorkerTake(w) \/ WorkerBegin(w) \/ Execute(w) \/ HandleTokenRefresh(w)
               \/ HandlerWrite(w) \/ WorkerLock(w) \/ Callback(w)
      PROVE  UNCHANGED <<db, unsaved>>
  BY <1>8 DEF WorkerTake, WorkerBegin, Execute, HandleTokenRefresh, HandlerWrite, WorkerLock, Callback
<1>9. CASE ForceCheck \/ Stop \/ PoolStop \/ Tick \/ Restart \/ UNCHANGED vars
  BY <1>1, <1>9 DEF ForceCheck, Stop, PoolStop, Tick, Restart, vars
<1>10. ASSUME NEW ok \in BOOLEAN, UpdateJob(ok), UNCHANGED <<mem, ranAt>>, lpc # "submitted"
       PROVE  \/ db'[k] = db[k] /\ (k \in unsaved => k \in unsaved')
              \/ cur = k /\ lpc # "submitted" /\ db'[k] = mem[k] /\ UNCHANGED <<mem, ranAt>>
  BY <1>5, <1>10
<1> QED BY <1>1, <1>2, <1>3, <1>4, <1>6, <1>7, <1>8, <1>9, <1>10
        DEF Next, LoopStep, WorkerStep, ClientSave

(* Every step keeps DueOnce. *)
LEMMA DueOnceStep ==
  ASSUME TypeOK, Control, CurState, DueOnce, [Next]_vars
  PROVE  DueOnce'
<1> USE SetsAssumption
<1>a. /\ now \in Nat /\ now' \in Nat /\ now <= now' /\ now + Hour \in Nat /\ now + Hour > now
      /\ \A k \in Jobs : ranAt[k] \in Nat /\ ranAt'[k] \in Nat /\ mem[k].nextRun \in Nat
                          /\ mem'[k].nextRun \in Nat /\ db'[k].nextRun \in Nat
  <2>1. TypeOK'
    BY TypeStep
  <2>2. now \in Nat /\ now' \in Nat /\ \A k \in Jobs : ranAt[k] \in Nat /\ ranAt'[k] \in Nat
    BY <2>1 DEF TypeOK
  <2>3. \A k \in Jobs : mem[k] \in Rows /\ mem'[k] \in Rows /\ db'[k] \in Rows
    BY <2>1 DEF TypeOK
  <2>4. now <= now'
    BY <2>2, HistoryStep DEF Tick
  <2> QED BY <2>2, <2>3, <2>4, TimesAssumption DEF Rows
<1>b. ASSUME NEW k \in Jobs
      PROVE  ranAt'[k] = ranAt[k] \/ (DispatchSubmit(k) /\ ranAt'[k] = now)
  <2>1. ASSUME NEW j \in Jobs, DispatchSubmit(j)
        PROVE  ranAt'[k] = ranAt[k] \/ (j = k /\ ranAt'[k] = now)
    BY <2>1 DEF DispatchSubmit, TypeOK
  <2> QED BY <2>1, HistoryStep
<1>c. ASSUME NEW k \in Jobs, Reschedule(k) \/ ScheduleNew(k) PROVE ranAt' = ranAt
  BY <1>c DEF Reschedule, ScheduleNew
<1>1. \A k \in Jobs : ranAt'[k] <= now'
  BY <1>a, <1>b DEF DueOnce
<1>2. lpc' \in {"dispatch", "submitted", "marked"} => next' <= now'
  <2>1. CASE lpc \in {"dispatch", "submitted", "marked"} /\ next' = next
    <3>1. next \in Nat /\ next <= now
      BY <2>1 DEF TypeOK, DueOnce
    <3> QED BY <1>a, <2>1, <3>1
  <2>2. CASE TimerFires
    BY <2>2 DEF TimerFires, TypeOK
  <2>3. CASE lpc' \in {"dispatch", "submitted", "marked"} /\ ~TimerFires
    <3>1. CASE Start \/ LoopStep \/ Restart
      BY <2>1, <2>3, <3>1 DEF Start, LoopStep, FindNext, LoopExit, LoopWoken, DispatchMark, DispatchEnd,
         DispatchSubmit, DispatchRefused, DispatchSave, Restart
    <3>2. CASE ClientSave \/ \E k \in Jobs : ScheduleNew(k) \/ Reschedule(k)
      BY <2>1, <2>3, <3>2 DEF ClientSave, RescheduleSave, ScheduleNew, Reschedule
    <3>3. CASE \E w \in Workers : WorkerStep(w)
      BY <2>1, <2>3, <3>3 DEF WorkerStep, WorkerTake, WorkerBegin, Execute, HandleTokenRefresh,
         HandlerWrite, WorkerLock, Callback, CallbackSave
    <3>4. CASE ForceCheck \/ Stop \/ PoolStop \/ Tick \/ UNCHANGED vars
      BY <2>1, <2>3, <3>4 DEF ForceCheck, Stop, PoolStop, Tick, vars
    <3> QED BY <3>1, <3>2, <3>3, <3>4 DEF Next
  <2> QED BY <2>2, <2>3
<1>3. ASSUME NEW k \in Jobs, mem'[k].status = "pending"
      PROVE  mem'[k].nextRun > ranAt'[k] \/ k \in forgotten' \/ (lpc' = "submitted" /\ cur' = k)
  <2>1. CASE DispatchSubmit(k)
    BY <2>1 DEF DispatchSubmit
  <2>2. CASE Reschedule(k) \/ ScheduleNew(k)
    <3>1. mem'[k].nextRun > now
      <4>1. NoRow \in Rows /\ mem[k] \in Rows
        BY DEF NoRow, Rows, Statuses, TypeOK
      <4>2. mem'[k] = Rescheduled(k, NoRow) \/ mem'[k] = Rescheduled(k, mem[k])
        BY <2>2 DEF Reschedule, ScheduleNew, TypeOK
      <4> QED BY <4>1, <4>2, RowFields
    <3>2. ranAt'[k] = ranAt[k] /\ ranAt[k] <= now
      BY <1>c, <2>2 DEF DueOnce
    <3> QED BY <1>a, <3>1, <3>2
  <2>3. CASE Restart
    BY <1>3, <2>3 DEF Restart, ListJobs, DueOnce
  <2>4. CASE ~DispatchSubmit(k) /\ ~Reschedule(k) /\ ~ScheduleNew(k) /\ ~Restart
    <3>1. mem[k].status = "pending" /\ mem'[k].nextRun \in {mem[k].nextRun, now + Hour}
      BY <1>3, <2>4, PendingStep
    <3>2. ranAt'[k] = ranAt[k]
      BY <1>b, <2>4
    <3>3. CASE mem'[k].nextRun = now + Hour
      BY <1>a, <3>2, <3>3 DEF DueOnce
    <3>4. CASE mem'[k].nextRun = mem[k].nextRun /\ mem[k].nextRun > ranAt[k]
      BY <3>2, <3>4
    <3>5. CASE k \in forgotten
      <4>1. ASSUME NEW j \in Jobs, j # k, DispatchSubmit(j) \/ Reschedule(j)
            PROVE  k \in forgotten'
        BY <3>5, <4>1 DEF DispatchSubmit, Reschedule
      <4> QED BY <2>4, <3>5, <4>1, HistoryStep
    <3>6. CASE lpc = "submitted" /\ cur = k
      <4>1. ~DispatchMark
        <5>1. SUFFICES ASSUME DispatchMark PROVE FALSE
          OBVIOUS
        <5>2. mem' = [mem EXCEPT ![k] = Marked(mem[k])] /\ mem[k] \in Rows
          BY <3>6, <5>1 DEF DispatchMark, TypeOK
        <5>3. Marked(mem[k]).status = "running"
          BY <5>2, RowFields
        <5> QED BY <1>3, <5>2, <5>3 DEF TypeOK
      <4> QED BY <2>4, <3>6, <4>1, SubmittedStep
    <3> QED BY <3>1, <3>3, <3>4, <3>5, <3>6 DEF DueOnce
  <2> QED BY <2>1, <2>2, <2>3, <2>4
<1>4. ASSUME NEW k \in Jobs, db'[k].status = "pending"
      PROVE  db'[k].nextRun > ranAt'[k] \/ k \in unsaved'
  <2>1. CASE DispatchSubmit(k)
    BY <2>1 DEF DispatchSubmit
  <2>2. CASE ~DispatchSubmit(k) /\ db'[k] = db[k] /\ (k \in unsaved => k \in unsaved')
    BY <1>4, <1>b, <2>2 DEF DueOnce
  <2>3. CASE ScheduleNew(k) /\ db'[k] = mem'[k]
    <3>1. mem'[k] = Rescheduled(k, NoRow) /\ NoRow \in Rows
      BY <2>3 DEF ScheduleNew, NoRow, Rows, Statuses, TypeOK
    <3>2. mem'[k].nextRun > now
      BY <3>1, RowFields
    <3>3. ranAt'[k] = ranAt[k] /\ ranAt[k] <= now
      BY <1>c, <2>3 DEF DueOnce
    <3> QED BY <1>a, <2>3, <3>2, <3>3
  <2>4. CASE cur = k /\ lpc # "submitted" /\ db'[k] = mem[k] /\ UNCHANGED <<mem, ranAt>>
    BY <1>4, <2>4 DEF DueOnce
  <2> QED BY <2>1, <2>2, <2>3, <2>4, SaveStep
<1>5. ASSUME cur' \in Jobs, mem'[cur'].status = "pending" PROVE cur' \notin forgotten'
  <2>1. CASE DispatchSubmit(cur') \/ Reschedule(cur')
    BY <2>1 DEF DispatchSubmit, Reschedule
  <2>2. ASSUME NEW w \in Workers, Callback(w), cur' = wjob[w] PROVE FALSE
    <3>1. mem[wjob[w]] \in Rows /\ wjob[w] \in Jobs
      BY <1>5, <2>2 DEF TypeOK
    <3>2. Failed(mem[wjob[w]]).status = "failed" /\ Succeeded(wjob[w], mem[wjob[w]]).status = "completed"
      BY <3>1, RowFields
    <3> QED BY <1>5, <2>2, <3>1, <3>2 DEF Callback, TypeOK
  <2>3. CASE cur' = cur /\ ~Restart /\ ~Reschedule(cur)
    <3>1. jobMu # Free
      BY <1>5, <2>3 DEF Control, CurInHand
    <3>2. ~ScheduleNew(cur)
      BY <3>1 DEF ScheduleNew
    <3>3. mem[cur].status = "pending" /\ cur \in Jobs
      BY <1>5, <2>3, <3>2, PendingStep
    <3>4. cur \notin forgotten
      BY <3>3 DEF DueOnce
    <3>5. forgotten' \subseteq forgotten
      BY <2>3, HistoryStep DEF DispatchSubmit, Reschedule
    <3> QED BY <2>3, <3>4, <3>5
  <2> QED BY <1>5, <2>1, <2>2, <2>3, CurStep
<1> QED BY <1>1, <1>2, <1>3, <1>4, <1>5 DEF DueOnce

(* Every step keeps PendingIsFresh. *)
LEMMA PendingIsFreshStep ==
  ASSUME TypeOK, Control, PendingIsFresh, [Next]_vars
  PROVE  PendingIsFresh'
<1> USE SetsAssumption DEF TypeOK
<1> DEFINE Clean(r) == r.status = "pending" => r.retry = 0 /\ r.nextRun > 0
<1>1. \A k \in Jobs : Clean(mem[k]) /\ Clean(db[k])
  BY DEF PendingIsFresh
<1>2. ASSUME NEW k \in Jobs
      PROVE  Clean(mem'[k]) /\ Clean(db'[k])
  <2>1. Clean(mem'[k])
    <3>1. SUFFICES ASSUME mem'[k].status = "pending"
                   PROVE  mem'[k].retry = 0 /\ mem'[k].nextRun > 0
      OBVIOUS
    <3>2. now + Hour > 0 /\ now \in Nat
      BY TimesAssumption
    <3>3. Restart => mem'[k] = db[k]
      BY DEF Restart, ListJobs
    <3>4. mem'[k].nextRun > now /\ mem'[k].nextRun \in Nat => mem'[k].nextRun > 0
      BY <3>2
    <3>5. mem'[k].nextRun \in Nat
      BY TypeStep DEF Rows
    <3> QED BY <1>1, <3>1, <3>2, <3>3, <3>4, <3>5, PendingStep
  <2>2. db'[k] = db[k] \/ db'[k] = mem'[k]
    BY StoreStep
  <2> QED BY <1>1, <2>1, <2>2
<1> QED BY <1>2 DEF PendingIsFresh

-----------------------------------------------------------------------------
(* A refresh stays unsettled until its callback saves the job. *)
LEMMA UnsettledStep ==
  ASSUME TypeOK, Control, [Next]_vars, NEW k \in Jobs, Unsettled(k)
  PROVE  \/ Unsettled(k)' \/ Restart
         \/ \E w \in Workers, ok \in BOOLEAN : CallbackSave(w, ok) /\ cur = k
<1> USE SetsAssumption DEF TypeOK
<1>1. CASE UNCHANGED <<wpc, wjob, werr>>
  BY <1>1 DEF Unsettled
<1>2. PICK v \in Workers : wjob[v] = k /\ ~werr[v] /\ wpc[v] \in {"writing", "finishing", "callback", "saving"}
  BY DEF Unsettled
<1>3. k \in TokenJobs
  BY DEF Unsettled
<1>4. ASSUME NEW w \in Workers,
             WorkerTake(w) \/ WorkerBegin(w) \/ Execute(w) \/ HandleTokenRefresh(w)
      PROVE  Unsettled(k)'
  <2>1. v # w /\ wjob'[v] = k /\ ~werr'[v] /\ wpc'[v] = wpc[v]
    BY <1>2, <1>4 DEF WorkerTake, WorkerBegin, Execute, HandleTokenRefresh
  <2> QED BY <1>2, <1>3, <2>1 DEF Unsettled
<1>5. ASSUME NEW w \in Workers, HandlerWrite(w) \/ WorkerLock(w) \/ Callback(w)
      PROVE  Unsettled(k)'
  <2>1. wjob' = wjob /\ werr' = werr /\ wpc'[v] \in {"writing", "finishing", "callback", "saving"}
    BY <1>2, <1>5 DEF HandlerWrite, WorkerLock, Callback
  <2> QED BY <1>2, <1>3, <2>1 DEF Unsettled
<1>6. ASSUME NEW w \in Workers, NEW ok \in BOOLEAN, CallbackSave(w, ok)
      PROVE  Unsettled(k)' \/ cur = k
  <2>1. CASE v = w
    BY <1>2, <1>6, <2>1 DEF CallbackSave, Control, WorkersHold
  <2>2. CASE v # w
    BY <1>2, <1>3, <1>6, <2>2 DEF CallbackSave, Unsettled
  <2> QED BY <2>1, <2>2
<1>7. CASE Start \/ FindNext \/ LoopExit \/ LoopWoken \/ TimerFires \/ DispatchMark \/ DispatchEnd
  BY <1>1, <1>7 DEF Start, FindNext, LoopExit, LoopWoken, TimerFires, DispatchMark, DispatchEnd
<1>8. CASE \E j \in Jobs : ScheduleNew(j) \/ Reschedule(j) \/ DispatchSubmit(j) \/ DispatchRefused(j)
  BY <1>1, <1>8 DEF ScheduleNew, CreateJob, Reschedule, DispatchSubmit, DispatchRefused
<1>9. CASE \E ok \in BOOLEAN : DispatchSave(ok) \/ RescheduleSave(ok)
  BY <1>1, <1>9 DEF DispatchSave, RescheduleSave
<1>10. CASE ForceCheck \/ Stop \/ PoolStop \/ Tick \/ UNCHANGED vars
  BY <1>1, <1>10 DEF ForceCheck, Stop, PoolStop, Tick, vars
<1> QED BY <1>4, <1>5, <1>6, <1>7, <1>8, <1>9, <1>10 DEF Next, LoopStep, WorkerStep, ClientSave

(* HandlerWrite leaves the refresh it belongs to unsettled. *)
LEMMA HandlerWriteUnsettled ==
  ASSUME TypeOK, Control, NEW w \in Workers, HandlerWrite(w)
  PROVE  \A k \in Jobs : IF k = wjob[w] THEN Unsettled(k)' ELSE mem'[k] = mem[k]
<1> USE SetsAssumption DEF TypeOK
<1>1. wpc[w] = "writing" /\ wjob[w] \in TokenJobs /\ ~werr[w]
  BY DEF HandlerWrite, Control, WorkersHold
<1>2. wjob' = wjob /\ werr' = werr /\ wpc'[w] \in {"writing", "finishing"}
  BY DEF HandlerWrite
<1>3. \A k \in Jobs : k # wjob[w] => mem'[k] = mem[k]
  BY DEF HandlerWrite
<1> QED BY <1>1, <1>2, <1>3 DEF Unsettled

(* Every step keeps StoreFollowsMemory. *)
LEMMA StoreFollowsMemoryStep ==
  ASSUME TypeOK, Control, StoreFollowsMemory, [Next]_vars
  PROVE  StoreFollowsMemory'
<1> USE SetsAssumption DEF TypeOK
<1> SUFFICES ASSUME NEW k \in Jobs, cur' # k
             PROVE  db'[k] = mem'[k] \/ k \in stale' \/ Unsettled(k)'
  BY DEF StoreFollowsMemory
<1>1. CASE Restart
  BY <1>1 DEF Restart, ListJobs
<1>2. CASE ~Restart /\ cur # k /\ db'[k] = db[k] /\ mem'[k] = mem[k]
           /\ (k \in stale => k \in stale')
  <2>1. CASE Unsettled(k)
    BY <1>2, <2>1, UnsettledStep
  <2>2. CASE ~Unsettled(k)
    BY <1>2, <2>2 DEF StoreFollowsMemory
  <2> QED BY <2>1, <2>2
<1>3. ASSUME NEW ok \in BOOLEAN, UpdateJob(ok), UNCHANGED mem, ~Restart
      PROVE  db'[k] = mem'[k] \/ k \in stale' \/ Unsettled(k)'
  <2>1. CASE k = cur
    BY <1>3, <2>1 DEF UpdateJob, Stored
  <2>2. CASE k # cur
    BY <1>2, <1>3, <2>2 DEF UpdateJob
  <2> QED BY <2>1, <2>2
<1>4. ASSUME NEW ok \in BOOLEAN, DispatchSave(ok) \/ RescheduleSave(ok)
      PROVE  UpdateJob(ok) /\ UNCHANGED mem
  BY <1>4 DEF DispatchSave, RescheduleSave
<1>5. ASSUME NEW w \in Workers, NEW ok \in BOOLEAN, CallbackSave(w, ok)
      PROVE  UpdateJob(ok) /\ UNCHANGED mem
  BY <1>5 DEF CallbackSave
<1>6. ASSUME NEW j \in Jobs, ScheduleNew(j), ~Restart
      PROVE  db'[k] = mem'[k] \/ k \in stale' \/ Unsettled(k)'
  <2>1. CASE k = j
    BY <1>6, <2>1 DEF ScheduleNew, CreateJob
  <2>2. CASE k # j
    BY <1>2, <1>6, <2>2 DEF ScheduleNew, CreateJob
  <2> QED BY <2>1, <2>2
<1>7. ASSUME NEW j \in Jobs, Reschedule(j) \/ DispatchSubmit(j) \/ DispatchRefused(j), ~Restart
      PROVE  db'[k] = mem'[k] \/ k \in stale' \/ Unsettled(k)'
  <2>1. cur \notin Jobs
    BY <1>7 DEF Reschedule, DispatchSubmit, DispatchRefused, Control, CurInHand
  <2> QED BY <1>2, <1>7, <2>1 DEF Reschedule, DispatchSubmit, DispatchRefused
<1>8. CASE DispatchMark /\ ~Restart
  BY <1>2, <1>8 DEF DispatchMark
<1>9. ASSUME NEW w \in Workers, Callback(w), ~Restart
      PROVE  db'[k] = mem'[k] \/ k \in stale' \/ Unsettled(k)'
  <2>1. cur \notin Jobs
    BY <1>9 DEF Callback, Control, CurInHand
  <2> QED BY <1>2, <1>9, <2>1 DEF Callback
<1>10. ASSUME NEW w \in Workers, HandlerWrite(w), ~Restart
       PROVE  db'[k] = mem'[k] \/ k \in stale' \/ Unsettled(k)'
  <2>1. CASE k = wjob[w]
    BY <1>10, <2>1, HandlerWriteUnsettled
  <2>2. CASE k # wjob[w]
    BY <1>2, <1>10, <2>2, HandlerWriteUnsettled DEF HandlerWrite
  <2> QED BY <2>1, <2>2
<1>11. ASSUME NEW w \in Workers, ~Restart,
              WorkerTake(w) \/ WorkerBegin(w) \/ Execute(w) \/ HandleTokenRefresh(w) \/ WorkerLock(w)
       PROVE  db'[k] = mem'[k] \/ k \in stale' \/ Unsettled(k)'
  BY <1>2, <1>11 DEF WorkerTake, WorkerBegin, Execute, HandleTokenRefresh, WorkerLock
<1>12. CASE ~Restart /\ (Start \/ FindNext \/ LoopExit \/ LoopWoken \/ TimerFires \/ DispatchEnd)
  BY <1>2, <1>12 DEF Start, FindNext, LoopExit, LoopWoken, TimerFires, DispatchEnd
<1>13. CASE ~Restart /\ (ForceCheck \/ Stop \/ PoolStop \/ Tick \/ UNCHANGED vars)
  BY <1>2, <1>13 DEF ForceCheck, Stop, PoolStop, Tick, vars
<1> QED BY <1>1, <1>3, <1>4, <1>5, <1>6, <1>7, <1>8, <1>9, <1>10, <1>11, <1>12, <1>13
        DEF Next, LoopStep, WorkerStep, ClientSave

(* Every step keeps NoLostWakeup. *)
LEMMA NoLostWakeupStep ==
  ASSUME TypeOK, Control, NoLostWakeup, [Next]_vars
  PROVE  NoLostWakeup'
<1> USE SetsAssumption DEF TypeOK
<1> DEFINE Covered(k) == wakeup \/ (jobMu # Free /\ cur = k) \/ k \in unsignalled \/ Unsettled(k)
<1> SUFFICES ASSUME NEW k \in Jobs, lpc' = "select", mem'[k].status = "pending",
                    mem'[k].nextRun < next'
             PROVE  Covered(k)'
  BY DEF NoLostWakeup
<1>1. ~Restart /\ ~LoopExit /\ ~LoopWoken /\ ~TimerFires /\ ~DispatchMark /\ ~DispatchEnd /\ ~Start
  BY DEF Restart, ListJobs, LoopExit, LoopWoken, TimerFires, DispatchMark, DispatchEnd, Start
<1>2. ASSUME lpc = "select", mem'[k] = mem[k], next' = next, UNCHANGED <<wakeup, unsignalled>>,
             jobMu # Free /\ cur = k => jobMu' # Free /\ cur' = k,
             \A w \in Workers, ok \in BOOLEAN : ~CallbackSave(w, ok)
      PROVE  Covered(k)'
  <2>1. Covered(k)
    BY <1>2 DEF NoLostWakeup
  <2>2. CASE Unsettled(k)
    BY <1>1, <1>2, <2>2, UnsettledStep
  <2> QED BY <1>2, <2>1, <2>2
<1>3. CASE FindNext
  <2>1. PICK n \in Wakeups : (\A x \in Wakeups : n <= x) /\ next' = n
    BY <1>3 DEF FindNext
  <2>2. mem' = mem
    BY <1>3 DEF FindNext
  <2>3. mem[k].nextRun \in Wakeups
    BY <2>2 DEF Wakeups
  <2>4. mem[k].nextRun \in Nat /\ Wakeups \subseteq Int
    <3>1. \A j \in Jobs : mem[j].nextRun \in Nat
      BY DEF Rows
    <3>2. now + Horizon \in Nat
      BY TimesAssumption
    <3> QED BY <3>1, <3>2 DEF Wakeups
  <2> QED BY <2>1, <2>2, <2>3, <2>4
<1>4. CASE ForceCheck \/ \E j \in Jobs : ScheduleNew(j)
  BY <1>4 DEF ForceCheck, ScheduleNew, CreateJob, signalCronWakeup
<1>5. ASSUME NEW w \in Workers, NEW ok \in BOOLEAN, CallbackSave(w, ok)
      PROVE  Covered(k)'
  BY <1>5 DEF CallbackSave, signalCronWakeup
<1>6. ASSUME NEW j \in Jobs, Reschedule(j)
      PROVE  Covered(k)'
  <2>1. CASE k = j
    BY <1>6, <2>1 DEF Reschedule
  <2>2. CASE k # j
    <3>1. \A w \in Workers, ok \in BOOLEAN : ~CallbackSave(w, ok)
      BY <1>6 DEF Reschedule, CallbackSave, Control, WorkersHold
    <3> QED BY <1>2, <1>6, <2>2, <3>1 DEF Reschedule
  <2> QED BY <2>1, <2>2
<1>7. ASSUME NEW ok \in BOOLEAN, RescheduleSave(ok)
      PROVE  Covered(k)'
  <2>1. CASE ok
    BY <1>7, <2>1 DEF RescheduleSave, signalCronWakeup
  <2>2. CASE ~ok /\ k = cur
    BY <1>7, <2>2 DEF RescheduleSave
  <2>3. CASE ~ok /\ k # cur
    <3>1. lpc = "select" /\ mem' = mem /\ next' = next
          /\ unsignalled \subseteq unsignalled' /\ wakeup' = wakeup
      BY <1>7, <2>3 DEF RescheduleSave
    <3>2. \A w \in Workers, o \in BOOLEAN : ~CallbackSave(w, o)
      BY <1>7 DEF RescheduleSave, CallbackSave, Control, WorkersHold
    <3>3. Covered(k)
      BY <3>1 DEF NoLostWakeup
    <3>4. Unsettled(k) => Unsettled(k)'
      BY <1>1, <3>2, UnsettledStep
    <3> QED BY <2>3, <3>1, <3>3, <3>4
  <2> QED BY <2>1, <2>2, <2>3
<1>8. ASSUME NEW w \in Workers, HandlerWrite(w)
      PROVE  Covered(k)'
  <2>1. CASE k = wjob[w]
    BY <1>8, <2>1, HandlerWriteUnsettled
  <2>2. CASE k # wjob[w]
    <3>1. \A v \in Workers, ok \in BOOLEAN : ~CallbackSave(v, ok)
      BY <1>8 DEF HandlerWrite, CallbackSave
    <3> QED BY <1>2, <1>8, <2>2, <3>1, HandlerWriteUnsettled DEF HandlerWrite
  <2> QED BY <2>1, <2>2
<1>9. ASSUME NEW w \in Workers, Callback(w)
      PROVE  Covered(k)'
  <2>1. wjob[w] \in Jobs
    BY <1>9 DEF Callback, Control, WorkersHold
  <2>2. Failed(mem[wjob[w]]).status = "failed" /\ Succeeded(wjob[w], mem[wjob[w]]).status = "completed"
    BY <2>1, RowFields
  <2>3. k # wjob[w]
    BY <1>9, <2>1, <2>2 DEF Callback
  <2>4. \A v \in Workers, ok \in BOOLEAN : ~CallbackSave(v, ok)
    BY <1>9 DEF Callback, CallbackSave, Control, WorkersHold
  <2> QED BY <1>2, <1>9, <2>3, <2>4 DEF Callback
<1>10. ASSUME NEW w \in Workers,
              WorkerTake(w) \/ WorkerBegin(w) \/ Execute(w) \/ HandleTokenRefresh(w) \/ WorkerLock(w)
       PROVE  Covered(k)'
  <2>1. \A v \in Workers, ok \in BOOLEAN : ~CallbackSave(v, ok)
    BY <1>10 DEF WorkerTake, WorkerBegin, Execute, HandleTokenRefresh, WorkerLock, CallbackSave
  <2> QED BY <1>2, <1>10, <2>1 DEF WorkerTake, WorkerBegin, Execute, HandleTokenRefresh, WorkerLock
<1>11. CASE (\E j \in Jobs : DispatchSubmit(j) \/ DispatchRefused(j))
            \/ (\E ok \in BOOLEAN : DispatchSave(ok))
  BY <1>11 DEF DispatchSubmit, DispatchRefused, DispatchSave
<1>12. CASE Stop \/ PoolStop \/ Tick \/ UNCHANGED vars
  <2>1. CASE \E w \in Workers, ok \in BOOLEAN : CallbackSave(w, ok)
    BY <1>5, <2>1
  <2>2. CASE \A w \in Workers, ok \in BOOLEAN : ~CallbackSave(w, ok)
    BY <1>2, <1>12, <2>2 DEF Stop, PoolStop, Tick, vars
  <2> QED BY <2>1, <2>2
<1> QED BY <1>1, <1>3, <1>4, <1>5, <1>6, <1>7, <1>8, <1>9, <1>10, <1>11, <1>12
        DEF Next, LoopStep, WorkerStep, ClientSave

-----------------------------------------------------------------------------
(* The inductive invariant: the properties, and of the control state what  *)
(* makes them survive every step.                                          *)
IInv ==
  /\ TypeOK /\ Control /\ CurState
  /\ NoLostWakeup /\ RunningHasTask /\ StoreFollowsMemory /\ PendingIsFresh /\ DueOnce

(* The inductive invariant holds initially ... *)
LEMMA InitIInv == Init => IInv
<1> SUFFICES ASSUME Init PROVE IInv
  OBVIOUS
<1> USE SetsAssumption, TimesAssumption DEF Init
<1>1. TypeOK
  <2>1. NoRow \in Rows
    BY DEF NoRow, Rows, Statuses
  <2>2. queue \in Seq(Jobs) /\ Len(queue) <= QueueCap
    BY QueueCapType
  <2>3. /\ now \in 1..MaxTime /\ next \in Nat /\ faults \in 0..MaxFaults /\ crashes \in 0..MaxCrashes
        /\ calls \in [Jobs -> 0..MaxSchedules] /\ ranAt \in [Jobs -> Nat]
    OBVIOUS
  <2>4. /\ mem \in [Jobs -> Rows] /\ db \in [Jobs -> Rows]
        /\ wpc \in [Workers -> WorkerPc] /\ wjob \in [Workers -> Jobs \cup {NoJob}]
        /\ werr \in [Workers -> BOOLEAN] /\ towrite \in [Workers -> SUBSET {"status", "retry", "nextRun"}]
    BY <2>1 DEF WorkerPc
  <2> QED BY <2>2, <2>3, <2>4 DEF TypeOK, LoopPc
<1>2. Control /\ CurState
  BY DEF Control, LoopHoldsJobMu, WorkersHold, CurInHand, CurState
<1>3. \A k \in Jobs : mem[k].status = "absent" /\ db[k] = mem[k]
  BY DEF NoRow
<1>4. DueOnce
  BY <1>3 DEF DueOnce
<1> QED BY <1>1, <1>2, <1>3, <1>4
        DEF IInv, NoLostWakeup, RunningHasTask, StoreFollowsMemory, PendingIsFresh

(* ... is kept by every step ... *)
LEMMA NextIInv == IInv /\ [Next]_vars => IInv'
  BY TypeStep, ControlStep, CurStateStep, NoLostWakeupStep, RunningHasTaskStep,
     StoreFollowsMemoryStep, PendingIsFreshStep, DueOnceStep
  DEF IInv

(* ... and so holds in every reachable state. *)
LEMMA SpecIInv == Spec => []IInv
  BY InitIInv, NextIInv, PTL DEF Spec

(* Every variable keeps its type; the pool's channel stays in its bound. *)
THEOREM TypeCorrect == Spec => []TypeOK
<1>1. IInv => TypeOK
  BY DEF IInv
<1> QED BY <1>1, SpecIInv, PTL

(* The loop never sleeps past a pending job, for every number of jobs and  *)
(* workers and every schedule.                                             *)
THEOREM WakeupSafe == Spec => []NoLostWakeup
<1>1. IInv => NoLostWakeup
  BY DEF IInv
<1> QED BY <1>1, SpecIInv, PTL

(* A job shown as running has a task in flight, or was so loaded.          *)
THEOREM RunningSafe == Spec => []RunningHasTask
<1>1. IInv => RunningHasTask
  BY DEF IInv
<1> QED BY <1>1, SpecIInv, PTL

(* Memory and store agree outside critical sections, failed saves and      *)
(* unlocked handler writes excepted.                                       *)
THEOREM StoreSafe == Spec => []StoreFollowsMemory
<1>1. IInv => StoreFollowsMemory
  BY DEF IInv
<1> QED BY <1>1, SpecIInv, PTL

(* Only jobs with a clean retry count and a next run are ever pending.     *)
THEOREM PendingSafe == Spec => []PendingIsFresh
<1>1. IInv => PendingIsFresh
  BY DEF IInv
<1> QED BY <1>1, SpecIInv, PTL

(* dispatchDueJobs submits no job before its time, and none twice for one  *)
(* time, unless a process that died had not saved the first submission.    *)
THEOREM OncePerDueTimeSafe == Spec => OncePerDueTime
<1>1. ASSUME IInv, NEW k \in Jobs, DispatchSubmit(k)
      PROVE  mem[k].nextRun <= now /\ (mem[k].nextRun > ranAt[k] \/ k \in forgotten)
  <2>1. lpc = "dispatch" /\ mem[k].status = "pending" /\ mem[k].nextRun <= next
    BY <1>1 DEF DispatchSubmit, Due
  <2>2. mem[k].nextRun \in Nat /\ next \in Nat /\ now \in Nat /\ next <= now
    BY <1>1, <2>1 DEF IInv, TypeOK, Rows, DueOnce
  <2>3. mem[k].nextRun > ranAt[k] \/ k \in forgotten
    BY <1>1, <2>1 DEF IInv, DueOnce
  <2> QED BY <2>1, <2>2, <2>3
<1>2. IInv /\ [Next]_vars
        => [\A k \in Jobs : DispatchSubmit(k) =>
              /\ mem[k].nextRun <= now
              /\ mem[k].nextRun > ranAt[k] \/ k \in forgotten]_vars
  BY <1>1
<1> QED BY <1>2, SpecIInv, PTL DEF Spec, OncePerDueTime
=============================================================================
