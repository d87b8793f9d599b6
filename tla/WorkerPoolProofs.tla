-------------------------- MODULE WorkerPoolProofs --------------------------
(***************************************************************************)
(* Theorems about WorkerPool, for every number of workers, submitters and  *)
(* tasks.                                                                  *)
(***************************************************************************)
EXTENDS WorkerPool, TLAPS, FiniteSetTheorems

Busy == {"taken", "running", "finishing", "callback"}

(* Which task a goroutine has in hand, and who is inside metrics.mu. *)
Hands ==
  /\ \A w \in Workers : wtask[w] \in Tasks <=> wpc[w] \in Busy
  /\ \A w \in Workers : metricsMu = w <=> wpc[w] = "callback"
  /\ \A s \in Submitters : stask[s] \in Tasks <=> spc[s] = "checked"

(* A task is in one place at most: with one submitter, at one position of  *)
(* the channel, with one worker, or at the end of its life.                *)
WorkerPlace ==
  \A w \in Workers : wtask[w] \in Tasks =>
    /\ fate[wtask[w]] = "none"
    /\ \A v \in Workers : wtask[v] = wtask[w] => v = w
    /\ \A i \in 1..Len(tasks) : tasks[i] # wtask[w]
QueuePlace ==
  \A i \in 1..Len(tasks) :
    /\ fate[tasks[i]] = "none"
    /\ \A j \in 1..Len(tasks) : tasks[j] = tasks[i] => j = i
SubmitPlace ==
  \A s \in Submitters : stask[s] \in Tasks =>
    /\ fate[stask[s]] = "none"
    /\ \A r \in Submitters : stask[r] = stask[s] => r = s
    /\ \A w \in Workers : wtask[w] # stask[s]
    /\ \A i \in 1..Len(tasks) : tasks[i] # stask[s]
OnePlace == WorkerPlace /\ QueuePlace /\ SubmitPlace

(* How far Stop has come. *)
StopOrder ==
  /\ closed <=> stopPc \in {"closed", "done"}
  /\ stopPc = "done" => \A w \in Workers : wpc[w] \in {"off", "exited"}

PInv == TypeOK /\ Hands /\ OnePlace /\ StopOrder

-----------------------------------------------------------------------------
(* The capacity of the channel is a natural number. *)
LEMMA CapacityType == Capacity \in Nat
  BY WorkersAssumption, FS_CardinalityType DEF Capacity

(* Every update of p.metrics leaves integers in it. *)
LEMMA CounterTypes ==
  ASSUME NEW c \in Counters, NEW err \in BOOLEAN
  PROVE  /\ CountQueued(c) \in Counters /\ CountTaken(c) \in Counters
         /\ CountResult(c, err) \in Counters /\ ZeroCounters(c) \in Counters
<1>1. CountQueued(c) \in Counters
  BY DEF CountQueued, Counters
<1>2. CountTaken(c) \in Counters
  BY DEF CountTaken, Counters
<1>3. CountResult(c, err) \in Counters
  BY DEF CountResult, Counters
<1>4. ZeroCounters(c) \in Counters
  BY DEF ZeroCounters, Counters
<1> QED BY <1>1, <1>2, <1>3, <1>4

(* NewWorkerPool establishes the inductive invariant. *)
LEMMA PoolInitInv == NewWorkerPool => PInv
<1> SUFFICES ASSUME NewWorkerPool PROVE PInv
  OBVIOUS
<1> USE NamesAssumption, BoundsAssumption, CapacityType DEF NewWorkerPool
<1>1. TypeOK
  <2>1. tasks \in Seq(Tasks) /\ Len(tasks) <= Capacity /\ resets \in 0..MaxResets
    OBVIOUS
  <2>2. m \in Counters /\ forgotten \in [queued : Int, completed : Nat, failed : Nat]
    BY DEF Counters
  <2> QED BY <2>1, <2>2 DEF TypeOK, WorkerPc, SubmitPc, StopPc, Fates
<1>2. Hands /\ OnePlace /\ StopOrder
  BY DEF Hands, OnePlace, WorkerPlace, QueuePlace, SubmitPlace, StopOrder, Busy
<1> QED BY <1>1, <1>2 DEF PInv

(* Every step keeps the state in its declared shape. *)
LEMMA PoolTypeStep ==
  ASSUME TypeOK, Hands, [PoolNext]_poolVars
  PROVE  TypeOK'
<1> USE NamesAssumption DEF TypeOK
<1>1. CASE UNCHANGED poolVars
  BY <1>1 DEF poolVars
<1>2. CASE Start
  BY <1>2 DEF Start, WorkerPc
<1>3. ASSUME NEW s \in Submitters, NEW t \in Tasks, SubmitCheck(s, t)
      PROVE  TypeOK'
  BY <1>3 DEF SubmitCheck, SubmitPc, Fates
<1>4. ASSUME NEW s \in Submitters, SubmitSend(s)
      PROVE  TypeOK'
  <2>1. stask[s] \in Tasks
    BY <1>4 DEF SubmitSend, Hands
  <2>2. tasks' \in Seq(Tasks) /\ Len(tasks') <= Capacity
    <3>1. CASE tasks' = tasks
      BY <3>1
    <3>2. CASE HasRoom /\ tasks' = Append(tasks, stask[s])
      BY <2>1, <3>2, CapacityType DEF HasRoom
    <3> QED BY <1>4, <3>1, <3>2 DEF SubmitSend
  <2> QED BY <1>4, <2>1, <2>2 DEF SubmitSend, SubmitPc, Fates
<1>5. ASSUME NEW s \in Submitters, SubmitCount(s)
      PROVE  TypeOK'
  <2>1. CountQueued(m) \in Counters
    BY CounterTypes
  <2> QED BY <1>5, <2>1 DEF SubmitCount, SubmitPc
<1>6. ASSUME NEW w \in Workers, WorkerExit(w) \/ WorkerExecute(w)
      PROVE  TypeOK'
  <2>1. CASE WorkerExit(w)
    BY <2>1 DEF WorkerExit, WorkerPc
  <2>2. CASE WorkerExecute(w)
    BY <2>2 DEF WorkerExecute, WorkerPc
  <2> QED BY <1>6, <2>1, <2>2
<1>7. ASSUME NEW w \in Workers, WorkerTake(w)
      PROVE  TypeOK'
  <2>1. Head(tasks) \in Tasks /\ Tail(tasks) \in Seq(Tasks) /\ Len(Tail(tasks)) <= Capacity
    BY <1>7, CapacityType DEF WorkerTake
  <2> QED BY <1>7, <2>1 DEF WorkerTake, WorkerPc
<1>8. ASSUME NEW w \in Workers, WorkerCountTaken(w)
      PROVE  TypeOK'
  <2>1. CountTaken(m) \in Counters
    BY CounterTypes
  <2> QED BY <1>8, <2>1 DEF WorkerCountTaken, WorkerPc
<1>9. ASSUME NEW w \in Workers, WorkerLock(w)
      PROVE  TypeOK'
  <2>1. CountResult(m, werr[w]) \in Counters
    BY CounterTypes
  <2> QED BY <1>9, <2>1 DEF WorkerLock, WorkerPc
<1>10. ASSUME NEW w \in Workers, WorkerUnlock(w)
       PROVE  TypeOK'
  BY <1>10 DEF WorkerUnlock, HolderAfterCallback, WorkerPc, Fates
<1>11. CASE StopFlag \/ StopStep
  BY <1>11 DEF StopFlag, StopStep, StopCancel, StopClose, StopReturn, StopPc
<1>12. CASE ResetMetrics
  <2>1. ZeroCounters(m) \in Counters
    BY CounterTypes
  <2>2. resets' \in 0..MaxResets
    BY <1>12, BoundsAssumption DEF ResetMetrics
  <2>3. forgotten' \in [queued : Int, completed : Nat, failed : Nat]
    BY <1>12 DEF ResetMetrics, Counters
  <2> QED BY <1>12, <2>1, <2>2, <2>3 DEF ResetMetrics
<1> QED BY <1>1, <1>2, <1>3, <1>4, <1>5, <1>6, <1>7, <1>8, <1>9, <1>10, <1>11, <1>12
        DEF PoolNext, WorkerStep, SubmitStep

(* Every step keeps Hands. *)
LEMMA HandsStep ==
  ASSUME TypeOK, Hands, [PoolNext]_poolVars
  PROVE  Hands'
<1> USE NamesAssumption DEF TypeOK, Hands, Busy
<1>1. CASE UNCHANGED poolVars
  BY <1>1 DEF poolVars
<1>2. CASE Start
  BY <1>2 DEF Start
<1>3. ASSUME NEW s \in Submitters, NEW t \in Tasks, SubmitCheck(s, t)
      PROVE  Hands'
  BY <1>3 DEF SubmitCheck
<1>4. ASSUME NEW s \in Submitters, SubmitSend(s) \/ SubmitCount(s)
      PROVE  Hands'
  <2>1. UNCHANGED <<wpc, wtask, metricsMu>>
    BY <1>4 DEF SubmitSend, SubmitCount
  <2>2. \/ UNCHANGED <<spc, stask>>
        \/ spc[s] = "sent" /\ spc' = [spc EXCEPT ![s] = "idle"] /\ stask' = stask
        \/ \E c \in {"sent", "idle"} : spc' = [spc EXCEPT ![s] = c]
              /\ stask' = [stask EXCEPT ![s] = NoTask]
    BY <1>4 DEF SubmitSend, SubmitCount
  <2>3. \A r \in Submitters : stask'[r] \in Tasks <=> spc'[r] = "checked"
    <3>1. CASE UNCHANGED <<spc, stask>>
      BY <3>1
    <3>2. CASE spc[s] = "sent" /\ spc' = [spc EXCEPT ![s] = "idle"] /\ stask' = stask
      BY <3>2
    <3>3. ASSUME NEW c \in {"sent", "idle"}, spc' = [spc EXCEPT ![s] = c],
                 stask' = [stask EXCEPT ![s] = NoTask]
          PROVE  \A r \in Submitters : stask'[r] \in Tasks <=> spc'[r] = "checked"
      BY <3>3
    <3> QED BY <2>2, <3>1, <3>2, <3>3
  <2> QED BY <2>1, <2>3
<1>5. ASSUME NEW w \in Workers, WorkerExit(w) \/ WorkerCountTaken(w) \/ WorkerExecute(w)
      PROVE  Hands'
  BY <1>5 DEF WorkerExit, WorkerCountTaken, WorkerExecute
<1>6. ASSUME NEW w \in Workers, WorkerTake(w)
      PROVE  Hands'
  <2>1. Head(tasks) \in Tasks
    BY <1>6 DEF WorkerTake
  <2> QED BY <1>6, <2>1 DEF WorkerTake
<1>7. ASSUME NEW w \in Workers, WorkerLock(w) \/ WorkerUnlock(w)
      PROVE  Hands'
  BY <1>7 DEF WorkerLock, WorkerUnlock, HolderAfterCallback
<1>8. CASE StopFlag \/ StopStep \/ ResetMetrics
  BY <1>8 DEF StopFlag, StopStep, StopCancel, StopClose, StopReturn, ResetMetrics
<1> QED BY <1>1, <1>2, <1>3, <1>4, <1>5, <1>6, <1>7, <1>8
        DEF PoolNext, WorkerStep, SubmitStep

(* Every step keeps StopOrder. *)
LEMMA StopOrderStep ==
  ASSUME TypeOK, StopOrder, [PoolNext]_poolVars
  PROVE  StopOrder'
<1> USE DEF TypeOK, StopOrder
<1>1. CASE UNCHANGED poolVars
  BY <1>1 DEF poolVars
<1>2. CASE Start \/ ResetMetrics
  BY <1>2 DEF Start, ResetMetrics
<1>3. ASSUME NEW s \in Submitters, SubmitStep(s) \/ \E t \in Tasks : SubmitCheck(s, t)
      PROVE  StopOrder'
  BY <1>3 DEF SubmitStep, SubmitCheck, SubmitSend, SubmitCount
<1>4. ASSUME NEW w \in Workers, WorkerStep(w)
      PROVE  StopOrder'
  <2>1. stopPc = "done" => FALSE \/ wpc[w] \in {"off", "exited"}
    BY DEF StopOrder
  <2> QED BY <1>4, <2>1 DEF WorkerStep, WorkerExit, WorkerTake, WorkerCountTaken, WorkerExecute,
          WorkerLock, WorkerUnlock
<1>5. CASE StopFlag \/ StopStep
  BY <1>5 DEF StopFlag, StopStep, StopCancel, StopClose, StopReturn, WaitGroupDone
<1> QED BY <1>1, <1>2, <1>3, <1>4, <1>5 DEF PoolNext

(* Every step keeps each task in one place: Submit hands it to the         *)
(* channel, a receive to one worker, a callback ends its life.             *)
LEMMA OnePlaceStep ==
  ASSUME TypeOK, Hands, OnePlace, [PoolNext]_poolVars
  PROVE  OnePlace'
<1> USE NamesAssumption DEF TypeOK, OnePlace
<1>1. CASE UNCHANGED <<tasks, wtask, stask, fate>>
  BY <1>1 DEF WorkerPlace, QueuePlace, SubmitPlace
<1>2. ASSUME NEW s \in Submitters, NEW t \in Tasks, SubmitCheck(s, t)
      PROVE  OnePlace'
  <2>1. /\ Fresh(t) /\ UNCHANGED <<tasks, wtask>>
        /\ \/ fate' = [fate EXCEPT ![t] = "refused"] /\ stask' = stask
           \/ fate' = fate /\ stask' = [stask EXCEPT ![s] = t]
    BY <1>2 DEF SubmitCheck
  <2>2. WorkerPlace'
    BY <2>1 DEF WorkerPlace, Fresh
  <2>3. QueuePlace'
    BY <2>1 DEF QueuePlace, Fresh
  <2>4. SubmitPlace'
    <3>1. CASE fate' = [fate EXCEPT ![t] = "refused"] /\ stask' = stask
      BY <2>1, <3>1 DEF SubmitPlace, Fresh
    <3>2. CASE fate' = fate /\ stask' = [stask EXCEPT ![s] = t]
      <4>1. ASSUME NEW r \in Submitters, stask'[r] \in Tasks
            PROVE  /\ fate[stask'[r]] = "none"
                   /\ \A q \in Submitters : stask'[q] = stask'[r] => q = r
                   /\ \A w \in Workers : wtask[w] # stask'[r]
                   /\ \A i \in 1..Len(tasks) : tasks[i] # stask'[r]
        <5>1. CASE r = s
          BY <2>1, <3>2, <5>1 DEF Fresh
        <5>2. CASE r # s
          <6>1. stask'[r] = stask[r] /\ stask[r] # t
            BY <2>1, <3>2, <5>2 DEF Fresh
          <6> QED BY <2>1, <3>2, <4>1, <5>2, <6>1 DEF SubmitPlace
        <5> QED BY <5>1, <5>2
      <4> QED BY <2>1, <3>2, <4>1 DEF SubmitPlace
    <3> QED BY <2>1, <3>1, <3>2
  <2> QED BY <2>2, <2>3, <2>4
<1>3. ASSUME NEW s \in Submitters, SubmitSend(s)
      PROVE  OnePlace'
  <2>1. stask[s] \in Tasks
    BY <1>3 DEF SubmitSend, Hands
  <2>2. CASE UNCHANGED <<tasks, stask, fate>>
    BY <1>1, <1>3, <2>2 DEF SubmitSend
  <2>3. CASE tasks' = Append(tasks, stask[s]) /\ stask' = [stask EXCEPT ![s] = NoTask] /\ fate' = fate
    <3>1. /\ Len(tasks') = Len(tasks) + 1 /\ tasks'[Len(tasks) + 1] = stask[s]
          /\ \A i \in 1..Len(tasks) : tasks'[i] = tasks[i]
      BY <2>1, <2>3
    <3>2. wtask' = wtask
      BY <1>3 DEF SubmitSend
    <3>3. \A i \in 1..Len(tasks') : i \in 1..Len(tasks) \/ i = Len(tasks) + 1
      BY <3>1
    <3>4. WorkerPlace'
      <4>1. ASSUME NEW w \in Workers, wtask[w] \in Tasks, NEW i \in 1..Len(tasks')
            PROVE  tasks'[i] # wtask[w]
        <5>1. CASE i \in 1..Len(tasks)
          BY <3>1, <4>1, <5>1 DEF WorkerPlace
        <5>2. CASE i = Len(tasks) + 1
          BY <2>1, <3>1, <4>1, <5>2 DEF SubmitPlace
        <5> QED BY <3>3, <5>1, <5>2
      <4>2. ASSUME NEW w \in Workers, wtask[w] \in Tasks
            PROVE  fate'[wtask[w]] = "none" /\ \A v \in Workers : wtask[v] = wtask[w] => v = w
        BY <2>3, <4>2 DEF WorkerPlace
      <4> QED BY <3>2, <4>1, <4>2 DEF WorkerPlace
    <3>5. QueuePlace'
      <4>1. ASSUME NEW i \in 1..Len(tasks'), NEW j \in 1..Len(tasks'), tasks'[j] = tasks'[i]
            PROVE  j = i
        <5>1. \A k \in 1..Len(tasks) : tasks[k] # stask[s]
          BY <2>1 DEF SubmitPlace
        <5>2. CASE i \in 1..Len(tasks) /\ j \in 1..Len(tasks)
          <6>1. tasks[j] = tasks[i]
            BY <3>1, <4>1, <5>2
          <6> QED BY <5>2, <6>1 DEF QueuePlace
        <5>3. CASE i = Len(tasks) + 1 /\ j \in 1..Len(tasks)
          BY <3>1, <4>1, <5>1, <5>3
        <5>4. CASE i \in 1..Len(tasks) /\ j = Len(tasks) + 1
          BY <3>1, <4>1, <5>1, <5>4
        <5> QED BY <3>3, <5>2, <5>3, <5>4
      <4>2. ASSUME NEW i \in 1..Len(tasks')
            PROVE  fate'[tasks'[i]] = "none"
        <5>1. fate[stask[s]] = "none"
          BY <2>1 DEF SubmitPlace
        <5>2. CASE i \in 1..Len(tasks)
          BY <2>3, <3>1, <5>2 DEF QueuePlace
        <5>3. CASE i = Len(tasks) + 1
          BY <2>3, <3>1, <5>1, <5>3
        <5> QED BY <3>3, <5>2, <5>3
      <4> QED BY <4>1, <4>2 DEF QueuePlace
    <3>6. SubmitPlace'
      <4>1. ASSUME NEW r \in Submitters, stask'[r] \in Tasks
            PROVE  /\ r # s /\ stask'[r] = stask[r] /\ stask[r] # stask[s]
                   /\ fate[stask[r]] = "none"
                   /\ \A w \in Workers : wtask[w] # stask[r]
                   /\ \A i \in 1..Len(tasks) : tasks[i] # stask[r]
        <5>1. r # s /\ stask'[r] = stask[r]
          BY <2>3, <4>1
        <5> QED BY <2>1, <4>1, <5>1 DEF SubmitPlace
      <4>2. ASSUME NEW r \in Submitters, stask'[r] \in Tasks, NEW i \in 1..Len(tasks')
            PROVE  tasks'[i] # stask'[r]
        <5>1. CASE i \in 1..Len(tasks)
          BY <3>1, <4>1, <4>2, <5>1
        <5>2. CASE i = Len(tasks) + 1
          BY <3>1, <4>1, <4>2, <5>2
        <5> QED BY <3>3, <5>1, <5>2
      <4>3. ASSUME NEW r \in Submitters, stask'[r] \in Tasks,
                   NEW q \in Submitters, stask'[q] = stask'[r]
            PROVE  q = r
        <5>1. stask[q] = stask[r] /\ stask[r] \in Tasks
          BY <4>1, <4>3
        <5> QED BY <5>1 DEF SubmitPlace
      <4> QED BY <2>3, <3>2, <4>1, <4>2, <4>3 DEF SubmitPlace
    <3> QED BY <3>4, <3>5, <3>6
  <2>4. CASE UNCHANGED tasks /\ fate' = [fate EXCEPT ![stask[s]] = "refused"]
             /\ stask' = [stask EXCEPT ![s] = NoTask]
    <3>1. wtask' = wtask
      BY <1>3 DEF SubmitSend
    <3>2. \A t \in Tasks : t # stask[s] => fate'[t] = fate[t]
      BY <2>4
    <3>3. WorkerPlace'
      BY <2>1, <2>4, <3>1, <3>2 DEF WorkerPlace, SubmitPlace
    <3>4. QueuePlace'
      <4>1. \A i \in 1..Len(tasks) : tasks[i] \in Tasks /\ tasks[i] # stask[s]
        BY <2>1 DEF SubmitPlace
      <4> QED BY <2>4, <3>2, <4>1 DEF QueuePlace
    <3>5. SubmitPlace'
      <4>1. \A r \in Submitters : stask'[r] \in Tasks =>
               r # s /\ stask'[r] = stask[r] /\ stask[r] # stask[s]
        BY <2>1, <2>4 DEF SubmitPlace
      <4> QED BY <2>4, <3>1, <3>2, <4>1 DEF SubmitPlace
    <3> QED BY <3>3, <3>4, <3>5
  <2> QED BY <1>3, <2>2, <2>3, <2>4 DEF SubmitSend
<1>4. ASSUME NEW w \in Workers, WorkerTake(w)
      PROVE  OnePlace'
  <2>1. /\ tasks # <<>> /\ tasks' = Tail(tasks) /\ UNCHANGED <<stask, fate>>
        /\ wtask' = [wtask EXCEPT ![w] = tasks[1]]
    BY <1>4 DEF WorkerTake
  <2>2. /\ Len(tasks) \in Nat \ {0} /\ Len(tasks') = Len(tasks) - 1 /\ 1 \in 1..Len(tasks)
        /\ \A i \in 1..Len(tasks') : i + 1 \in 1..Len(tasks) /\ tasks'[i] = tasks[i + 1] /\ i + 1 # 1
    BY <2>1
  <2>3. tasks[1] \in Tasks
    BY <2>2
  <2>4. WorkerPlace'
    <3>1. \A v \in Workers : v # w => wtask'[v] = wtask[v]
      BY <2>1
    <3>2. ASSUME NEW i \in 1..Len(tasks')
          PROVE  tasks'[i] # tasks[1]
      <4>1. i + 1 \in 1..Len(tasks) /\ tasks'[i] = tasks[i + 1] /\ i + 1 # 1
        BY <2>2
      <4> QED BY <2>2, <4>1 DEF QueuePlace
    <3>3. wtask'[w] = tasks[1] /\ fate'[tasks[1]] = "none"
      BY <2>1, <2>2 DEF QueuePlace
    <3>4. ASSUME NEW v \in Workers, v # w, wtask[v] \in Tasks
          PROVE  /\ wtask[v] # tasks[1] /\ fate'[wtask[v]] = "none"
                 /\ \A i \in 1..Len(tasks') : tasks'[i] # wtask[v]
      <4>1. \A i \in 1..Len(tasks) : tasks[i] # wtask[v]
        BY <3>4 DEF WorkerPlace
      <4>2. fate[wtask[v]] = "none"
        BY <3>4 DEF WorkerPlace
      <4> QED BY <2>1, <2>2, <4>1, <4>2
    <3>5. ASSUME NEW v \in Workers, wtask'[v] \in Tasks
          PROVE  /\ fate'[wtask'[v]] = "none"
                 /\ \A u \in Workers : wtask'[u] = wtask'[v] => u = v
                 /\ \A i \in 1..Len(tasks') : tasks'[i] # wtask'[v]
      <4>1. CASE v = w
        <5>1. ASSUME NEW u \in Workers, wtask'[u] = wtask'[v]
              PROVE  u = v
          BY <2>3, <3>1, <3>3, <3>4, <4>1, <5>1
        <5> QED BY <3>2, <3>3, <4>1, <5>1
      <4>2. CASE v # w
        <5>1. wtask'[v] = wtask[v] /\ wtask[v] \in Tasks
          BY <3>1, <3>5, <4>2
        <5>2. ASSUME NEW u \in Workers, wtask'[u] = wtask'[v]
              PROVE  u = v
          <6>1. u # w
            BY <3>3, <3>4, <4>2, <5>1, <5>2
          <6> QED BY <3>1, <5>1, <5>2, <6>1 DEF WorkerPlace
        <5> QED BY <3>4, <4>2, <5>1, <5>2
      <4> QED BY <4>1, <4>2
    <3> QED BY <3>5 DEF WorkerPlace
  <2>5. QueuePlace'
    BY <2>1, <2>2 DEF QueuePlace
  <2>6. SubmitPlace'
    BY <2>1, <2>2, <2>3 DEF SubmitPlace
  <2> QED BY <2>4, <2>5, <2>6
<1>5. ASSUME NEW w \in Workers, WorkerUnlock(w)
      PROVE  OnePlace'
  <2>1. wtask[w] \in Tasks
    BY <1>5 DEF WorkerUnlock, Hands, Busy
  <2>2. /\ fate' = [fate EXCEPT ![wtask[w]] = IF werr[w] THEN "failed" ELSE "succeeded"]
        /\ wtask' = [wtask EXCEPT ![w] = NoTask] /\ UNCHANGED <<tasks, stask>>
    BY <1>5 DEF WorkerUnlock
  <2> QED BY <2>1, <2>2 DEF WorkerPlace, QueuePlace, SubmitPlace
<1>6. ASSUME NEW w \in Workers,
             WorkerExit(w) \/ WorkerCountTaken(w) \/ WorkerExecute(w) \/ WorkerLock(w)
      PROVE  UNCHANGED <<tasks, wtask, stask, fate>>
  BY <1>6 DEF WorkerExit, WorkerCountTaken, WorkerExecute, WorkerLock
<1>7. CASE Start \/ StopFlag \/ StopStep \/ ResetMetrics \/ UNCHANGED poolVars
           \/ \E s \in Submitters : SubmitCount(s)
  BY <1>1, <1>7 DEF Start, StopFlag, StopStep, StopCancel, StopClose, StopReturn, ResetMetrics,
     poolVars, SubmitCount
<1> QED BY <1>1, <1>2, <1>3, <1>4, <1>5, <1>6, <1>7 DEF PoolNext, WorkerStep, SubmitStep

(* The strengthened invariant holds in every reachable state. *)
LEMMA PoolInvariant == PoolSpec => []PInv
<1>1. PInv /\ [PoolNext]_poolVars => PInv'
  BY PoolTypeStep, HandsStep, OnePlaceStep, StopOrderStep DEF PInv
<1> QED BY PoolInitInv, <1>1, PTL DEF PoolSpec

(* The state of the pool has the declared shape, and the channel never     *)
(* holds more than its buffer, 2 * workerCount, whatever the interleaving. *)
THEOREM PoolTypeCorrect == PoolSpec => []TypeOK
<1>1. PInv => TypeOK
  BY DEF PInv
<1> QED BY PoolInvariant, <1>1, PTL

-----------------------------------------------------------------------------
(* The refinement mapping.  A step that changes no fate, hand or queue,    *)
(* and no worker's being at "taken", moves no task.                        *)
LEMMA StatusKept ==
  ASSUME UNCHANGED <<fate, wtask, tasks>>, NEW t \in Tasks,
         \A w \in Workers : wtask[w] = t => (wpc'[w] = "taken" <=> wpc[w] = "taken")
  PROVE  StatusOf(t)' = StatusOf(t)
  BY DEF StatusOf

(* The step of the abstract specification that moves one task. *)
LEMMA StatusMoved ==
  ASSUME NEW u \in Tasks, NEW from, NEW to, UNCHANGED stopPc,
         StatusOf(u) = from, StatusOf(u)' = to,
         \A t \in Tasks : t # u => StatusOf(t)' = StatusOf(t)
  PROVE  Lifecycle!Move(u, from, to)
  BY DEF Lifecycle!Move

(* What the mapping says of a task in each of its places. *)
LEMMA StatusByPlace ==
  ASSUME TypeOK, OnePlace, NEW t \in Tasks
  PROVE  /\ \A w \in Workers : wtask[w] = t /\ wpc[w] = "taken" => StatusOf(t) = "accepted"
         /\ \A w \in Workers : wtask[w] = t /\ wpc[w] # "taken" => StatusOf(t) = "running"
         /\ \A i \in 1..Len(tasks) : tasks[i] = t => StatusOf(t) = "accepted"
         /\ \A s \in Submitters : stask[s] = t => StatusOf(t) = "new"
         /\ Fresh(t) => StatusOf(t) = "new"
         /\ fate[t] # "none" => StatusOf(t) = fate[t]
<1> USE DEF TypeOK, OnePlace
<1>1. \A w \in Workers : wtask[w] = t /\ wpc[w] = "taken" => StatusOf(t) = "accepted"
  BY DEF WorkerPlace, StatusOf
<1>2. \A w \in Workers : wtask[w] = t /\ wpc[w] # "taken" => StatusOf(t) = "running"
  BY DEF WorkerPlace, StatusOf
<1>3. \A i \in 1..Len(tasks) : tasks[i] = t => StatusOf(t) = "accepted"
  BY DEF WorkerPlace, QueuePlace, StatusOf
<1>4. \A s \in Submitters : stask[s] = t => StatusOf(t) = "new"
  BY DEF SubmitPlace, StatusOf
<1>5. Fresh(t) => StatusOf(t) = "new"
  BY DEF Fresh, StatusOf
<1>6. fate[t] # "none" => StatusOf(t) = fate[t]
  BY DEF StatusOf
<1> QED BY <1>1, <1>2, <1>3, <1>4, <1>5, <1>6

(* Every step of the pool is a step of TaskLifecycle or leaves it alone. *)
LEMMA LifecycleStep ==
  ASSUME PInv, PInv', [PoolNext]_poolVars
  PROVE  [Lifecycle!LifeNext]_(Lifecycle!lifeVars)
<1> USE DEF PInv
<1>1. CASE /\ UNCHANGED <<fate, wtask, tasks>> /\ (stopPc' = "done" <=> stopPc = "done")
           /\ \A w \in Workers : wtask[w] \in Tasks => (wpc'[w] = "taken" <=> wpc[w] = "taken")
  <2>1. \A t \in Tasks : StatusOf(t)' = StatusOf(t)
    BY <1>1, StatusKept
  <2> QED BY <1>1, <2>1 DEF Lifecycle!lifeVars
<1>2. ASSUME NEW s \in Submitters, NEW t \in Tasks, SubmitCheck(s, t)
      PROVE  [Lifecycle!LifeNext]_(Lifecycle!lifeVars)
  <2>1. CASE fate' = fate
    BY <1>1, <1>2, <2>1 DEF SubmitCheck
  <2>2. CASE fate' = [fate EXCEPT ![t] = "refused"]
    <3>1. StatusOf(t) = "new"
      BY <1>2, StatusByPlace DEF SubmitCheck
    <3>2. StatusOf(t)' = "refused"
      BY <2>2 DEF TypeOK, StatusOf
    <3>3. \A u \in Tasks : u # t => StatusOf(u)' = StatusOf(u)
      BY <1>2, <2>2 DEF TypeOK, StatusOf, SubmitCheck
    <3>4. Lifecycle!Move(t, "new", "refused")
      BY <1>2, <3>1, <3>2, <3>3, StatusMoved DEF SubmitCheck
    <3> QED BY <3>4 DEF Lifecycle!LifeNext, Lifecycle!Refuse
  <2> QED BY <1>2, <2>1, <2>2 DEF SubmitCheck
<1>3. ASSUME NEW s \in Submitters, SubmitSend(s)
      PROVE  [Lifecycle!LifeNext]_(Lifecycle!lifeVars)
  <2>1. PICK u \in Tasks : u = stask[s]
    BY <1>3 DEF SubmitSend, Hands
  <2>2. StatusOf(u) = "new" /\ stopPc' = stopPc /\ wpc' = wpc /\ wtask' = wtask
    BY <1>3, <2>1, StatusByPlace DEF SubmitSend
  <2>3. CASE UNCHANGED <<tasks, fate>>
    BY <1>1, <2>2, <2>3
  <2>4. CASE ~closed /\ tasks' = Append(tasks, u) /\ fate' = fate
    <3>1. /\ Len(tasks') = Len(tasks) + 1 /\ tasks'[Len(tasks) + 1] = u
          /\ \A i \in 1..Len(tasks) : tasks'[i] = tasks[i]
      BY <2>4 DEF TypeOK
    <3>2. Len(tasks) + 1 \in 1..Len(tasks')
      BY <3>1 DEF TypeOK
    <3>3. fate'[u] = "none" /\ \A w \in Workers : wtask'[w] # u
      BY <2>1, <2>2, <2>4 DEF OnePlace, SubmitPlace
    <3>4. StatusOf(u)' = "accepted"
      BY <3>1, <3>2, <3>3 DEF StatusOf
    <3>5. ASSUME NEW t \in Tasks, t # u
          PROVE  (\E i \in 1..Len(tasks') : tasks'[i] = t) <=> (\E i \in 1..Len(tasks) : tasks[i] = t)
      <4>1. \A i \in 1..Len(tasks) : i \in 1..Len(tasks')
        BY <3>1 DEF TypeOK
      <4>2. \A i \in 1..Len(tasks') : i \in 1..Len(tasks) \/ i = Len(tasks) + 1
        BY <3>1 DEF TypeOK
      <4> QED BY <3>1, <3>5, <4>1, <4>2
    <3>6. \A t \in Tasks : t # u => StatusOf(t)' = StatusOf(t)
      BY <2>2, <2>4, <3>5 DEF StatusOf
    <3>7. Lifecycle!Move(u, "new", "accepted")
      BY <2>2, <3>4, <3>6, StatusMoved
    <3>8. stopPc # "done"
      BY <2>4 DEF StopOrder
    <3> QED BY <3>7, <3>8 DEF Lifecycle!LifeNext, Lifecycle!Accept
  <2>5. CASE tasks' = tasks /\ fate' = [fate EXCEPT ![u] = "refused"]
    <3>1. StatusOf(u)' = "refused"
      BY <2>5 DEF TypeOK, StatusOf
    <3>2. \A t \in Tasks : t # u => StatusOf(t)' = StatusOf(t)
      BY <2>2, <2>5 DEF TypeOK, StatusOf
    <3>3. Lifecycle!Move(u, "new", "refused")
      BY <2>2, <3>1, <3>2, StatusMoved
    <3> QED BY <3>3 DEF Lifecycle!LifeNext, Lifecycle!Refuse
  <2> QED BY <1>3, <2>1, <2>3, <2>4, <2>5 DEF SubmitSend
<1>4. ASSUME NEW w \in Workers, WorkerTake(w)
      PROVE  [Lifecycle!LifeNext]_(Lifecycle!lifeVars)
  <2>1. PICK u \in Tasks : u = tasks[1] /\ wtask' = [wtask EXCEPT ![w] = u]
    <3>1. tasks # <<>> /\ wtask' = [wtask EXCEPT ![w] = tasks[1]]
      BY <1>4 DEF WorkerTake
    <3>2. tasks[1] \in Tasks
      BY <3>1 DEF TypeOK
    <3> QED BY <3>1, <3>2
  <2>2. /\ tasks # <<>> /\ tasks' = Tail(tasks) /\ UNCHANGED <<fate, stopPc>>
        /\ wpc' = [wpc EXCEPT ![w] = "taken"] /\ wpc[w] = "select"
    BY <1>4 DEF WorkerTake
  <2>3. /\ Len(tasks') = Len(tasks) - 1 /\ Len(tasks) \in Nat \ {0} /\ 1 \in 1..Len(tasks)
        /\ \A i \in 1..Len(tasks') : i + 1 \in 1..Len(tasks) /\ tasks'[i] = tasks[i + 1]
    BY <2>2 DEF TypeOK
  <2>4. wtask[w] \notin Tasks
    BY <2>2 DEF Hands, Busy
  <2>5. StatusOf(u)' = StatusOf(u)
    <3>1. StatusOf(u) = "accepted"
      BY <2>1, <2>3, StatusByPlace
    <3>2. wtask'[w] = u /\ wpc'[w] = "taken"
      BY <2>1, <2>2 DEF TypeOK
    <3>3. fate'[u] = "none"
      BY <2>1, <2>2, <2>3 DEF OnePlace, QueuePlace
    <3>4. \A v \in Workers : wtask'[v] = u => v = w
      BY <3>2 DEF OnePlace, WorkerPlace
    <3> QED BY <3>1, <3>2, <3>3, <3>4 DEF StatusOf
  <2>6. ASSUME NEW t \in Tasks, t # u
        PROVE  StatusOf(t)' = StatusOf(t)
    <3>1. (\E i \in 1..Len(tasks') : tasks'[i] = t) <=> (\E i \in 1..Len(tasks) : tasks[i] = t)
      <4>1. ASSUME NEW i \in 1..Len(tasks), i # 1
            PROVE  i - 1 \in 1..Len(tasks') /\ tasks'[i - 1] = tasks[i]
        BY <2>3, <4>1
      <4> QED BY <2>1, <2>3, <2>6, <4>1
    <3>2. \A v \in Workers : /\ wtask'[v] = t <=> wtask[v] = t
                             /\ wtask[v] = t => wpc'[v] = wpc[v]
      BY <2>1, <2>2, <2>4, <2>6 DEF TypeOK
    <3> QED BY <2>2, <3>1, <3>2 DEF StatusOf
  <2> QED BY <2>2, <2>5, <2>6 DEF Lifecycle!lifeVars
<1>5. ASSUME NEW w \in Workers, WorkerCountTaken(w)
      PROVE  [Lifecycle!LifeNext]_(Lifecycle!lifeVars)
  <2>1. PICK u \in Tasks : u = wtask[w]
    BY <1>5 DEF WorkerCountTaken, Hands, Busy
  <2>2. /\ UNCHANGED <<fate, wtask, tasks, stopPc>> /\ wpc[w] = "taken"
        /\ wpc' = [wpc EXCEPT ![w] = "running"]
    BY <1>5 DEF WorkerCountTaken
  <2>3. StatusOf(u) = "accepted"
    BY <2>1, <2>2, StatusByPlace
  <2>4. StatusOf(u)' = "running"
    <3>1. fate'[u] = "none" /\ wtask'[w] = u /\ wpc'[w] = "running"
      BY <2>1, <2>2 DEF TypeOK, OnePlace, WorkerPlace
    <3> QED BY <3>1 DEF StatusOf
  <2>5. \A t \in Tasks : t # u => StatusOf(t)' = StatusOf(t)
    BY <2>1, <2>2, StatusKept DEF TypeOK
  <2>6. Lifecycle!Move(u, "accepted", "running")
    BY <2>2, <2>3, <2>4, <2>5, StatusMoved
  <2>7. stopPc # "done"
    BY <2>2 DEF StopOrder
  <2> QED BY <2>6, <2>7 DEF Lifecycle!LifeNext, Lifecycle!Run
<1>6. ASSUME NEW w \in Workers, WorkerUnlock(w)
      PROVE  [Lifecycle!LifeNext]_(Lifecycle!lifeVars)
  <2>1. PICK u \in Tasks : u = wtask[w]
    BY <1>6 DEF WorkerUnlock, Hands, Busy
  <2>2. PICK outcome \in {"succeeded", "failed"} : fate' = [fate EXCEPT ![u] = outcome]
    BY <1>6, <2>1 DEF WorkerUnlock
  <2>3. /\ UNCHANGED <<tasks, stopPc>> /\ wpc[w] = "callback"
        /\ wpc' = [wpc EXCEPT ![w] = "select"] /\ wtask' = [wtask EXCEPT ![w] = NoTask]
    BY <1>6 DEF WorkerUnlock
  <2>4. StatusOf(u) = "running"
    BY <2>1, <2>3, StatusByPlace
  <2>5. StatusOf(u)' = outcome
    BY <2>2 DEF TypeOK, StatusOf
  <2>6. ASSUME NEW t \in Tasks, t # u
        PROVE  StatusOf(t)' = StatusOf(t)
    <3>1. fate'[t] = fate[t]
      BY <2>2, <2>6 DEF TypeOK
    <3>2. \A v \in Workers : /\ wtask'[v] = t <=> wtask[v] = t
                             /\ wtask[v] = t => wpc'[v] = wpc[v]
      BY <2>1, <2>3, <2>6, NamesAssumption DEF TypeOK
    <3> QED BY <2>3, <3>1, <3>2 DEF StatusOf
  <2>7. Lifecycle!Move(u, "running", outcome)
    BY <2>3, <2>4, <2>5, <2>6, StatusMoved
  <2> QED BY <2>2, <2>7 DEF Lifecycle!LifeNext, Lifecycle!Finish
<1>7. CASE StopReturn
  <2>1. /\ stopPc # "done" /\ stopPc' = "done" /\ UNCHANGED <<fate, wtask, tasks, wpc>>
        /\ \A w \in Workers : wpc[w] \in {"off", "exited"}
    BY <1>7 DEF StopReturn, WaitGroupDone
  <2>2. \A t \in Tasks : StatusOf(t)' = StatusOf(t)
    BY <2>1, StatusKept
  <2>3. \A t \in Tasks : StatusOf(t) # "running"
    BY <2>1 DEF StatusOf, Hands, Busy, TypeOK, Fates
  <2>4. Lifecycle!Stopped
    BY <2>1, <2>2, <2>3 DEF Lifecycle!Stopped
  <2> QED BY <2>4 DEF Lifecycle!LifeNext
<1>8. CASE Start \/ StopFlag \/ StopCancel \/ StopClose \/ ResetMetrics \/ UNCHANGED poolVars
           \/ \E s \in Submitters : SubmitCount(s)
  BY <1>1, <1>8 DEF Start, StopFlag, StopCancel, StopClose, ResetMetrics, SubmitCount, poolVars,
     Hands, Busy
<1>9. ASSUME NEW w \in Workers, WorkerExit(w) \/ WorkerExecute(w) \/ WorkerLock(w)
      PROVE  [Lifecycle!LifeNext]_(Lifecycle!lifeVars)
  BY <1>1, <1>9 DEF WorkerExit, WorkerExecute, WorkerLock, TypeOK
<1> QED BY <1>2, <1>3, <1>4, <1>5, <1>6, <1>7, <1>8, <1>9
        DEF PoolNext, WorkerStep, SubmitStep, StopStep

(* The pool implements TaskLifecycle: for any number of workers, callers   *)
(* of Submit and tasks, an accepted task is executed at most once and gets *)
(* the one callback that matches its result, and nothing runs once Stop    *)
(* has returned.                                                           *)
THEOREM PoolImplementsLifecycle == PoolSpec => ImplementsLifecycle
<1>1. NewWorkerPool => Lifecycle!LifeInit
  BY NamesAssumption DEF NewWorkerPool, Lifecycle!LifeInit, StatusOf
<1>2. PInv /\ PInv' /\ [PoolNext]_poolVars => [Lifecycle!LifeNext]_(Lifecycle!lifeVars)
  BY LifecycleStep
<1> QED BY PoolInvariant, <1>1, <1>2, PTL DEF PoolSpec, ImplementsLifecycle, Lifecycle!LifeSpec

-----------------------------------------------------------------------------
(* activeWorkers follows the set of workers between the critical sections. *)
LEMMA ActiveGaugeStep ==
  ASSUME TypeOK, ActiveGauge, [PoolNext]_poolVars
  PROVE  ActiveGauge'
<1> DEFINE Between == At({"running", "finishing"})
<1>1. IsFiniteSet(Between)
  <2>1. Between \subseteq Workers
    BY DEF At
  <2> QED BY <2>1, WorkersAssumption, FS_Subset
<1>2. CASE Between' = Between /\ m'.active = m.active
  BY <1>2 DEF ActiveGauge
<1>3. ASSUME NEW w \in Workers, WorkerCountTaken(w)
      PROVE  ActiveGauge'
  <2>1. w \notin Between /\ Between' = Between \cup {w}
    BY <1>3 DEF WorkerCountTaken, At, TypeOK
  <2>2. m'.active = m.active + 1
    BY <1>3 DEF WorkerCountTaken, CountTaken
  <2>3. Cardinality(Between \cup {w}) = Cardinality(Between) + 1
    BY <1>1, <2>1, FS_AddElement
  <2> QED BY <2>1, <2>2, <2>3 DEF ActiveGauge
<1>4. ASSUME NEW w \in Workers, WorkerLock(w)
      PROVE  ActiveGauge'
  <2>1. w \in Between /\ Between' = Between \ {w}
    BY <1>4 DEF WorkerLock, At, TypeOK
  <2>2. m'.active = m.active - 1
    BY <1>4 DEF WorkerLock, CountResult
  <2>3. Cardinality(Between \ {w}) = Cardinality(Between) - 1
    BY <1>1, <2>1, FS_RemoveElement
  <2> QED BY <2>1, <2>2, <2>3 DEF ActiveGauge
<1>5. ASSUME NEW w \in Workers,
             WorkerExit(w) \/ WorkerTake(w) \/ WorkerExecute(w) \/ WorkerUnlock(w)
      PROVE  ActiveGauge'
  <2>1. Between' = Between
    BY <1>5 DEF WorkerExit, WorkerTake, WorkerExecute, WorkerUnlock, At, TypeOK
  <2>2. m' = m
    BY <1>5 DEF WorkerExit, WorkerTake, WorkerExecute, WorkerUnlock
  <2> QED BY <1>2, <2>1, <2>2
<1>6. ASSUME NEW s \in Submitters, SubmitStep(s) \/ \E t \in Tasks : SubmitCheck(s, t)
      PROVE  ActiveGauge'
  <2>1. wpc' = wpc /\ m'.active = m.active
    BY <1>6 DEF SubmitStep, SubmitCheck, SubmitSend, SubmitCount, CountQueued, TypeOK, Counters
  <2> QED BY <1>2, <2>1 DEF At
<1>7. CASE Start
  BY <1>2, <1>7 DEF Start, At
<1>8. CASE StopFlag \/ StopStep \/ ResetMetrics \/ UNCHANGED poolVars
  <2>1. wpc' = wpc /\ m'.active = m.active
    BY <1>8 DEF StopFlag, StopStep, StopCancel, StopClose, StopReturn, ResetMetrics, ZeroCounters,
       poolVars
  <2> QED BY <1>2, <2>1 DEF At
<1> QED BY <1>3, <1>4, <1>5, <1>6, <1>7, <1>8 DEF PoolNext, WorkerStep

(* The activeWorkers that GetMetrics reports is exact at any number of     *)
(* workers and across any number of calls of ResetMetrics.                 *)
THEOREM ActiveGaugeExact == PoolSpec => []ActiveGauge
<1>1. NewWorkerPool => ActiveGauge
  <2> SUFFICES ASSUME NewWorkerPool PROVE ActiveGauge
    OBVIOUS
  <2>1. At({"running", "finishing"}) = {}
    BY DEF NewWorkerPool, At
  <2> QED BY <2>1, FS_EmptySet DEF ActiveGauge, NewWorkerPool
<1> QED BY PoolTypeCorrect, ActiveGaugeStep, <1>1, PTL DEF PoolSpec

-----------------------------------------------------------------------------
(* queuedTasks follows the channel, the workers that have received and not *)
(* counted, and the submitters that have sent and not counted.             *)
LEMMA QueueGaugeStep ==
  ASSUME TypeOK, QueueGauge, [PoolNext]_poolVars
  PROVE  QueueGauge'
<1> DEFINE Taken == At({"taken"})
           Sent == {s \in Submitters : spc[s] = "sent"}
<1>1. IsFiniteSet(Taken) /\ IsFiniteSet(Sent)
  <2>1. Taken \subseteq Workers /\ Sent \subseteq Submitters
    BY DEF At
  <2> QED BY <2>1, WorkersAssumption, BoundsAssumption, FS_Subset
<1>a. /\ m.queued + forgotten.queued = Len(tasks) + Cardinality(Taken) - Cardinality(Sent)
      /\ QueueGauge' <=> m'.queued + forgotten'.queued
                           = Len(tasks') + Cardinality(Taken') - Cardinality(Sent')
  BY DEF QueueGauge
<1>2. Cardinality(Taken) \in Nat /\ Cardinality(Sent) \in Nat /\ Len(tasks) \in Nat
  BY <1>1, FS_CardinalityType DEF TypeOK
<1>3. m.queued \in Int /\ forgotten.queued \in Int
  BY DEF TypeOK, Counters
<1>4. CASE /\ Taken' = Taken /\ Sent' = Sent /\ tasks' = tasks
           /\ m'.queued + forgotten'.queued = m.queued + forgotten.queued
  BY <1>4 DEF QueueGauge
<1>5. ASSUME NEW w \in Workers, WorkerTake(w)
      PROVE  QueueGauge'
  <2>1. w \notin Taken /\ Taken' = Taken \cup {w}
    BY <1>5 DEF WorkerTake, At, TypeOK
  <2>2. Cardinality(Taken \cup {w}) = Cardinality(Taken) + 1
    BY <1>1, <2>1, FS_AddElement
  <2>3. Len(tasks') = Len(tasks) - 1
    BY <1>5 DEF WorkerTake, TypeOK
  <2>4. Sent' = Sent /\ m' = m /\ forgotten' = forgotten
    BY <1>5 DEF WorkerTake
  <2> HIDE DEF Taken, Sent
  <2> QED BY <1>a, <1>2, <1>3, <2>1, <2>2, <2>3, <2>4
<1>6. ASSUME NEW w \in Workers, WorkerCountTaken(w)
      PROVE  QueueGauge'
  <2>1. w \in Taken /\ Taken' = Taken \ {w}
    BY <1>6 DEF WorkerCountTaken, At, TypeOK
  <2>2. Cardinality(Taken \ {w}) = Cardinality(Taken) - 1
    BY <1>1, <2>1, FS_RemoveElement
  <2>3. m'.queued = m.queued - 1
    BY <1>6 DEF WorkerCountTaken, CountTaken
  <2>4. Sent' = Sent /\ tasks' = tasks /\ forgotten' = forgotten
    BY <1>6 DEF WorkerCountTaken
  <2> HIDE DEF Taken, Sent
  <2> QED BY <1>a, <1>2, <1>3, <2>1, <2>2, <2>3, <2>4
<1>7. ASSUME NEW w \in Workers,
             WorkerExit(w) \/ WorkerExecute(w) \/ WorkerLock(w) \/ WorkerUnlock(w)
      PROVE  QueueGauge'
  <2>1. Taken' = Taken
    BY <1>7 DEF WorkerExit, WorkerExecute, WorkerLock, WorkerUnlock, At, TypeOK
  <2>2. m'.queued = m.queued
    BY <1>7 DEF WorkerExit, WorkerExecute, WorkerLock, WorkerUnlock, CountResult
  <2>3. Sent' = Sent /\ tasks' = tasks /\ forgotten' = forgotten
    BY <1>7 DEF WorkerExit, WorkerExecute, WorkerLock, WorkerUnlock
  <2> QED BY <1>4, <2>1, <2>2, <2>3
<1>8. ASSUME NEW s \in Submitters, SubmitSend(s)
      PROVE  QueueGauge'
  <2>1. Taken' = Taken /\ m' = m /\ forgotten' = forgotten
    BY <1>8 DEF SubmitSend, At
  <2>2. CASE spc'[s] = "sent"
    <3>1. s \notin Sent /\ Sent' = Sent \cup {s}
      BY <1>8, <2>2 DEF SubmitSend, TypeOK
    <3>2. Cardinality(Sent \cup {s}) = Cardinality(Sent) + 1
      BY <1>1, <3>1, FS_AddElement
    <3>3. stask[s] \in Tasks \cup {NoTask} /\ tasks' = Append(tasks, stask[s])
      BY <1>8, <2>2 DEF SubmitSend, TypeOK
    <3>4. Len(tasks') = Len(tasks) + 1
      BY <3>3 DEF TypeOK
    <3>5. Cardinality(Sent') = Cardinality(Sent) + 1 /\ Cardinality(Taken') = Cardinality(Taken)
      BY <2>1, <3>1, <3>2
    <3> HIDE DEF Taken, Sent
    <3> QED BY <1>a, <1>2, <1>3, <2>1, <3>4, <3>5
  <2>3. CASE spc'[s] # "sent"
    <3>1. Sent' = Sent /\ tasks' = tasks
      BY <1>8, <2>3 DEF SubmitSend, TypeOK
    <3> QED BY <1>4, <2>1, <3>1
  <2> QED BY <2>2, <2>3
<1>9. ASSUME NEW s \in Submitters, SubmitCount(s)
      PROVE  QueueGauge'
  <2>1. s \in Sent /\ Sent' = Sent \ {s}
    BY <1>9 DEF SubmitCount, TypeOK
  <2>2. Cardinality(Sent \ {s}) = Cardinality(Sent) - 1
    BY <1>1, <2>1, FS_RemoveElement
  <2>3. m'.queued = m.queued + 1
    BY <1>9 DEF SubmitCount, CountQueued, TypeOK, Counters
  <2>4. Taken' = Taken /\ tasks' = tasks /\ forgotten' = forgotten
    BY <1>9 DEF SubmitCount, At
  <2> HIDE DEF Taken, Sent
  <2> QED BY <1>a, <1>2, <1>3, <2>1, <2>2, <2>3, <2>4
<1>10. ASSUME NEW s \in Submitters, NEW t \in Tasks, SubmitCheck(s, t)
       PROVE  QueueGauge'
  <2>1. Sent' = Sent
    BY <1>10 DEF SubmitCheck, TypeOK
  <2> QED BY <1>4, <1>10, <2>1 DEF SubmitCheck, At
<1>11. CASE ResetMetrics
  <2>1. m'.queued + forgotten'.queued = m.queued + forgotten.queued
    BY <1>3, <1>11 DEF ResetMetrics, ZeroCounters
  <2> QED BY <1>4, <1>11, <2>1 DEF ResetMetrics, At
<1>12. CASE Start
  BY <1>4, <1>12 DEF Start, At
<1>13. CASE StopFlag \/ StopStep \/ UNCHANGED poolVars
  BY <1>4, <1>13 DEF StopFlag, StopStep, StopCancel, StopClose, StopReturn, poolVars, At
<1> QED BY <1>5, <1>6, <1>7, <1>8, <1>9, <1>10, <1>11, <1>12, <1>13
        DEF PoolNext, WorkerStep, SubmitStep

(* queuedTasks, with what ResetMetrics has thrown away, is the length of   *)
(* the channel up to the goroutines between a channel operation and their  *)
(* count, for any number of workers and submitters.                        *)
THEOREM QueueGaugeExact == PoolSpec => []QueueGauge
<1>1. NewWorkerPool => QueueGauge
  <2> SUFFICES ASSUME NewWorkerPool PROVE QueueGauge
    OBVIOUS
  <2>1. At({"taken"}) = {} /\ {s \in Submitters : spc[s] = "sent"} = {}
    BY DEF NewWorkerPool, At
  <2>2. Cardinality(At({"taken"})) = 0 /\ Cardinality({s \in Submitters : spc[s] = "sent"}) = 0
    BY <2>1, FS_EmptySet
  <2>3. m.queued = 0 /\ forgotten.queued = 0 /\ Len(tasks) = 0
    BY DEF NewWorkerPool
  <2> QED BY <2>2, <2>3 DEF QueueGauge
<1> QED BY PoolTypeCorrect, QueueGaugeStep, <1>1, PTL DEF PoolSpec

-----------------------------------------------------------------------------
(* completedTasks and failedTasks follow the tasks that have ended and the *)
(* worker whose callback is running.                                       *)
LEMMA OutcomeCountsStep ==
  ASSUME PInv, OutcomeCounts, [PoolNext]_poolVars
  PROVE  OutcomeCounts'
<1> DEFINE Good == {w \in At({"callback"}) : ~werr[w]}
           Bad == {w \in At({"callback"}) : werr[w]}
           Succ == Ended("succeeded")
           Fail == Ended("failed")
<1>1. IsFiniteSet(Good) /\ IsFiniteSet(Bad) /\ IsFiniteSet(Succ) /\ IsFiniteSet(Fail)
  <2>1. Good \subseteq Workers /\ Bad \subseteq Workers /\ Succ \subseteq Tasks /\ Fail \subseteq Tasks
    BY DEF At, Ended
  <2> QED BY <2>1, WorkersAssumption, BoundsAssumption, FS_Subset
<1>2. /\ Cardinality(Good) \in Nat /\ Cardinality(Bad) \in Nat
      /\ Cardinality(Succ) \in Nat /\ Cardinality(Fail) \in Nat
  BY <1>1, FS_CardinalityType
<1>3. /\ m.completed \in Nat /\ m.failed \in Nat
      /\ forgotten.completed \in Nat /\ forgotten.failed \in Nat
  BY DEF PInv, TypeOK, Counters
<1>a. /\ m.completed + forgotten.completed = Cardinality(Succ) + Cardinality(Good)
      /\ m.failed + forgotten.failed = Cardinality(Fail) + Cardinality(Bad)
  BY DEF OutcomeCounts
<1>b. OutcomeCounts' <=>
        /\ m'.completed + forgotten'.completed = Cardinality(Succ') + Cardinality(Good')
        /\ m'.failed + forgotten'.failed = Cardinality(Fail') + Cardinality(Bad')
  BY DEF OutcomeCounts
<1>4. CASE /\ Good' = Good /\ Bad' = Bad /\ Succ' = Succ /\ Fail' = Fail
           /\ m'.completed + forgotten'.completed = m.completed + forgotten.completed
           /\ m'.failed + forgotten'.failed = m.failed + forgotten.failed
  <2> HIDE DEF Good, Bad, Succ, Fail
  <2> QED BY <1>a, <1>b, <1>4
<1>5. ASSUME NEW w \in Workers, WorkerLock(w)
      PROVE  OutcomeCounts'
  <2>0. forgotten'.completed = forgotten.completed /\ forgotten'.failed = forgotten.failed
    BY <1>5 DEF WorkerLock
  <2>1. w \notin Good /\ w \notin Bad /\ Succ' = Succ /\ Fail' = Fail
    BY <1>5 DEF WorkerLock, At, Ended
  <2>2. CASE werr[w]
    <3>1. Bad' = Bad \cup {w} /\ Good' = Good
      BY <1>5, <2>2 DEF WorkerLock, At, PInv, TypeOK
    <3>2. Cardinality(Bad') = Cardinality(Bad) + 1
      BY <1>1, <2>1, <3>1, FS_AddElement
    <3>3. m'.failed = m.failed + 1 /\ m'.completed = m.completed
      BY <1>5, <2>2 DEF WorkerLock, CountResult
    <3>4. /\ Cardinality(Succ') = Cardinality(Succ) /\ Cardinality(Fail') = Cardinality(Fail)
          /\ Cardinality(Good') = Cardinality(Good)
      BY <2>1, <3>1
    <3> HIDE DEF Good, Bad, Succ, Fail
    <3>5. m'.completed + forgotten'.completed = Cardinality(Succ') + Cardinality(Good')
      BY <1>a, <1>2, <1>3, <2>0, <3>2, <3>3, <3>4
    <3>6. (m.failed + 1) + forgotten.failed = Cardinality(Fail) + (Cardinality(Bad) + 1)
      BY <1>a, <1>2, <1>3
    <3>7. m'.failed + forgotten'.failed = Cardinality(Fail') + Cardinality(Bad')
      BY <2>0, <3>2, <3>3, <3>4, <3>6
    <3> QED BY <1>b, <3>5, <3>7
  <2>3. CASE ~werr[w]
    <3>1. Good' = Good \cup {w} /\ Bad' = Bad
      BY <1>5, <2>3 DEF WorkerLock, At, PInv, TypeOK
    <3>2. Cardinality(Good') = Cardinality(Good) + 1
      BY <1>1, <2>1, <3>1, FS_AddElement
    <3>3. m'.completed = m.completed + 1 /\ m'.failed = m.failed
      BY <1>5, <2>3 DEF WorkerLock, CountResult
    <3>4. /\ Cardinality(Succ') = Cardinality(Succ) /\ Cardinality(Fail') = Cardinality(Fail)
          /\ Cardinality(Bad') = Cardinality(Bad)
      BY <2>1, <3>1
    <3> HIDE DEF Good, Bad, Succ, Fail
    <3>5. (m.completed + 1) + forgotten.completed = Cardinality(Succ) + (Cardinality(Good) + 1)
      BY <1>a, <1>2, <1>3
    <3>7. m'.completed + forgotten'.completed = Cardinality(Succ') + Cardinality(Good')
      BY <2>0, <3>2, <3>3, <3>4, <3>5
    <3>6. m'.failed + forgotten'.failed = Cardinality(Fail') + Cardinality(Bad')
      BY <1>a, <1>2, <1>3, <2>0, <3>2, <3>3, <3>4
    <3> QED BY <1>b, <3>6, <3>7
  <2> QED BY <2>2, <2>3
<1>6. ASSUME NEW w \in Workers, WorkerUnlock(w)
      PROVE  OutcomeCounts'
  <2> DEFINE t == wtask[w]
  <2>1. t \in Tasks /\ fate[t] = "none" /\ m' = m /\ forgotten' = forgotten
    BY <1>6 DEF WorkerUnlock, PInv, TypeOK, Hands, Busy, OnePlace, WorkerPlace
  <2>2. t \notin Succ /\ t \notin Fail
    BY <2>1 DEF Ended
  <2>3. CASE werr[w]
    <3>1. Bad' = Bad \ {w} /\ w \in Bad /\ Good' = Good
      BY <1>6, <2>3 DEF WorkerUnlock, At, PInv, TypeOK
    <3>2. Fail' = Fail \cup {t} /\ Succ' = Succ
      BY <1>6, <2>1, <2>3 DEF WorkerUnlock, Ended, PInv, TypeOK
    <3>3. Cardinality(Bad') = Cardinality(Bad) - 1
      BY <1>1, <3>1, FS_RemoveElement
    <3>4. Cardinality(Fail') = Cardinality(Fail) + 1
      BY <1>1, <2>2, <3>2, FS_AddElement
    <3> HIDE DEF Good, Bad, Succ, Fail
    <3> QED BY <1>a, <1>b, <1>2, <1>3, <2>1, <3>1, <3>2, <3>3, <3>4
  <2>4. CASE ~werr[w]
    <3>1. Good' = Good \ {w} /\ w \in Good /\ Bad' = Bad
      BY <1>6, <2>4 DEF WorkerUnlock, At, PInv, TypeOK
    <3>2. Succ' = Succ \cup {t} /\ Fail' = Fail
      BY <1>6, <2>1, <2>4 DEF WorkerUnlock, Ended, PInv, TypeOK
    <3>3. Cardinality(Good') = Cardinality(Good) - 1
      BY <1>1, <3>1, FS_RemoveElement
    <3>4. Cardinality(Succ') = Cardinality(Succ) + 1
      BY <1>1, <2>2, <3>2, FS_AddElement
    <3> HIDE DEF Good, Bad, Succ, Fail
    <3> QED BY <1>a, <1>b, <1>2, <1>3, <2>1, <3>1, <3>2, <3>3, <3>4
  <2> QED BY <2>3, <2>4
<1>7. ASSUME NEW w \in Workers,
             WorkerExit(w) \/ WorkerTake(w) \/ WorkerCountTaken(w) \/ WorkerExecute(w)
      PROVE  OutcomeCounts'
  <2>1. Good' = Good /\ Bad' = Bad
    BY <1>7 DEF WorkerExit, WorkerTake, WorkerCountTaken, WorkerExecute, At, PInv, TypeOK
  <2>2. fate' = fate /\ forgotten' = forgotten
    BY <1>7 DEF WorkerExit, WorkerTake, WorkerCountTaken, WorkerExecute
  <2>3. m'.completed = m.completed /\ m'.failed = m.failed
    BY <1>7 DEF WorkerExit, WorkerTake, WorkerCountTaken, WorkerExecute, CountTaken
  <2> QED BY <1>4, <2>1, <2>2, <2>3 DEF Ended
<1>8. ASSUME NEW s \in Submitters, SubmitStep(s) \/ \E t \in Tasks : SubmitCheck(s, t)
      PROVE  OutcomeCounts'
  <2>1. wpc' = wpc /\ werr' = werr /\ forgotten' = forgotten
    BY <1>8 DEF SubmitStep, SubmitCheck, SubmitSend, SubmitCount
  <2>2. m'.completed = m.completed /\ m'.failed = m.failed
    BY <1>8 DEF SubmitStep, SubmitCheck, SubmitSend, SubmitCount, CountQueued, PInv, TypeOK, Counters
  <2>3. fate' = fate \/ \E t \in Tasks : fate[t] = "none" /\ fate' = [fate EXCEPT ![t] = "refused"]
    <3>1. CASE SubmitStep(s)
      BY <3>1 DEF SubmitStep, SubmitSend, SubmitCount, PInv, TypeOK, Hands, OnePlace, SubmitPlace
    <3>2. CASE \E t \in Tasks : SubmitCheck(s, t)
      BY <3>2 DEF SubmitCheck, Fresh
    <3> QED BY <1>8, <3>1, <3>2
  <2>4. Succ' = Succ /\ Fail' = Fail
    BY <2>3 DEF Ended, PInv, TypeOK
  <2> QED BY <1>4, <2>1, <2>2, <2>4 DEF At
<1>9. CASE ResetMetrics
  <2>1. /\ m'.completed + forgotten'.completed = m.completed + forgotten.completed
        /\ m'.failed + forgotten'.failed = m.failed + forgotten.failed
    BY <1>3, <1>9 DEF ResetMetrics, ZeroCounters
  <2> QED BY <1>4, <1>9, <2>1 DEF ResetMetrics, At, Ended
<1>10. CASE Start
  BY <1>4, <1>10 DEF Start, At, Ended
<1>11. CASE StopFlag \/ StopStep \/ UNCHANGED poolVars
  BY <1>4, <1>11 DEF StopFlag, StopStep, StopCancel, StopClose, StopReturn, poolVars, At, Ended
<1> QED BY <1>5, <1>6, <1>7, <1>8, <1>9, <1>10, <1>11 DEF PoolNext, WorkerStep

(* Every callback is counted once, as a success or as a failure, for any   *)
(* number of workers and tasks and across calls of ResetMetrics.           *)
THEOREM OutcomeCountsExact == PoolSpec => []OutcomeCounts
<1>1. NewWorkerPool => OutcomeCounts
  <2> SUFFICES ASSUME NewWorkerPool PROVE OutcomeCounts
    OBVIOUS
  <2>1. At({"callback"}) = {} /\ Ended("succeeded") = {} /\ Ended("failed") = {}
    BY DEF NewWorkerPool, At, Ended
  <2>2. /\ {w \in At({"callback"}) : werr[w]} = {}
        /\ {w \in At({"callback"}) : ~werr[w]} = {}
    BY <2>1
  <2>3. m.completed = 0 /\ m.failed = 0 /\ forgotten.completed = 0 /\ forgotten.failed = 0
    BY DEF NewWorkerPool
  <2> QED BY <2>1, <2>2, <2>3, FS_EmptySet DEF OutcomeCounts
<1> QED BY PoolInvariant, OutcomeCountsStep, <1>1, PTL DEF PoolSpec
=============================================================================
