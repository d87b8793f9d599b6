\* Calls one after the other, nothing failing, and DETACH as SQLite answers it.
SPECIFICATION CalmSpec
CONSTANTS
  Users = {u1}
  Msgs = {m1}
  Clients = {c1}
  Inactivity = 1
  Retention = 0
  MaxTime = 0
  MaxRows = 1
  Detaches = {FALSE}
  MaxCalls = 3
PROPERTY BackupReturnsNil
CHECK_DEADLOCK FALSE
