\* One token refresh job, two workers, three ScheduleJob calls, one store failure and
\* one restart: a job can be rescheduled, run twice at once and overwritten.
SPECIFICATION Spec
CONSTANTS
  Jobs = {j1}
  TokenJobs = {j1}
  Workers = {w1, w2}
  Free = Free
  Loop = Loop
  Client = Client
  NoJob = NoJob
  NextRunTime <- EveryMinute
  Horizon = 3
  Hour = 1
  MaxRetries = 2
  MaxTime = 3
  MaxSchedules = 3
  MaxFaults = 1
  MaxCrashes = 1
INVARIANTS NoLostWakeup RunningHasTask StoreFollowsMemory PendingIsFresh
PROPERTY OncePerDueTime
CHECK_DEADLOCK FALSE
