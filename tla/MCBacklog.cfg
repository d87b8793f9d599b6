\* Three jobs due in the same minute, one worker (capacity 2): Submit refuses one.
SPECIFICATION FairSpec
CONSTANTS
  Jobs = {j1, j2, j3}
  TokenJobs = {j1}
  Workers = {w1}
  Free = Free
  Loop = Loop
  Client = Client
  NoJob = NoJob
  NextRunTime <- EveryMinute
  Horizon = 3
  Hour = 1
  MaxRetries = 2
  MaxTime = 2
  MaxSchedules = 1
  MaxFaults = 0
  MaxCrashes = 0
INVARIANTS TypeOK NoLostWakeup RunningHasTask
PROPERTY DueJobIsDispatched
CHECK_DEADLOCK FALSE
