\* One job, scheduled once.
SPECIFICATION FairSpec
CONSTANTS
  Jobs = {j1}
  TokenJobs = {}
  Workers = {w1}
  Free = Free
  Loop = Loop
  Client = Client
  NoJob = NoJob
  NextRunTime <- EveryMinute
  Horizon = 3
  Hour = 1
  MaxRetries = 2
  MaxTime = 4
  MaxSchedules = 1
  MaxFaults = 0
  MaxCrashes = 0
PROPERTY NextRunHappens
CHECK_DEADLOCK FALSE
