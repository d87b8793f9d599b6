\* Two logins, three callbacks, one protected request; sessions can expire.
SPECIFICATION FairLoginSpec
CONSTANTS
  Logins = {l1, l2}
  Callbacks = {c1, c2, c3}
  Requests = {r1}
  Nothing = Nothing
  SessionLife = 1
  MaxTime = 3
INVARIANTS TypeOK StateUsedOnce LoginUndisturbed SessionHasToken
PROPERTIES AdmissionIsCurrent CallbackAnswered
CHECK_DEADLOCK FALSE
