\* One user, one message, two goroutines and six calls: enough for a write
\* between any two statements of a Backup, a cleanup or a checked mark, and
\* for a second Backup or a Restore after the first.  DETACH may succeed or
\* not, more than SQLite does, so that the rest of Backup and Restore runs too.
SPECIFICATION Spec
CONSTANTS
  Users = {u1}
  Msgs = {m1}
  Clients = {c1, c2}
  Inactivity = 1
  Retention = 0
  MaxTime = 2
  MaxRows = 2
  Detaches = {TRUE, FALSE}
  MaxCalls = 6
SYMMETRY StorageSymmetry
INVARIANTS TypeOK CheckedMarkIsExclusive TxMetricsAreOneState BackupIsSnapshot TablesPresent
PROPERTY CleanupIsWhole
CHECK_DEADLOCK FALSE
