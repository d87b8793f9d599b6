\* Two jobs: one is submitted while the callback of the other begins.
SPECIFICATION Spec
CONSTANTS
  Jobs = {j1, j2}
  TokenJobs = {}
  Workers = {w1}
  Free = Free
  Loop = Loop
  Client = Client
  NoJob = NoJob
  NextRunTime <- EveryMinute
  Horizon = 3
  Hour = 1
  MaxRetries = 2
  MaxTime = 3
  MaxSchedules = 1
  MaxFaults = 0
  MaxCrashes = 0
INVARIANT NoCircularWait
CHECK_DEADLOCK FALSE
