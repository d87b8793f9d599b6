\* A worker (capacity 2), two submitters and three tasks: the buffer fills and
\* a task is refused, the submitters and the worker race for metrics.mu, and
\* Stop and ResetMetrics interleave.  No symmetry, for the liveness properties.
SPECIFICATION FairPoolSpec
CONSTANTS
  Workers = {w1}
  Submitters = {s1, s2}
  Tasks = {t1, t2, t3}
  Nobody = Nobody
  NoTask = NoTask
  MaxResets = 1
INVARIANTS TypeOK ActiveGauge QueueGauge OutcomeCounts
PROPERTIES ImplementsLifecycle AcceptedRuns StopTerminates
CHECK_DEADLOCK FALSE
