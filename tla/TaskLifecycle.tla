--------------------------- MODULE TaskLifecycle ---------------------------
(***************************************************************************)
(* What the worker pool promises its callers, without queue, goroutines,   *)
(* locks or channel: every task handed to Submit is either refused or      *)
(* accepted; an accepted task is executed at most once and gets exactly    *)
(* one callback, the one that matches its result; and once Stop has        *)
(* returned nothing is running, nothing is accepted and nothing starts any *)
(* more.  WorkerPool is shown to implement this specification.             *)
(***************************************************************************)
CONSTANT Tasks

VARIABLES
  status,   \* status[t]: where task t is in its life
  stopped   \* Stop has returned

lifeVars == <<status, stopped>>

Stages == {"new", "refused", "accepted", "running", "succeeded", "failed"}

LifeTypeOK ==
  /\ status \in [Tasks -> Stages]
  /\ stopped \in BOOLEAN

LifeInit ==
  /\ status = [t \in Tasks |-> "new"]
  /\ stopped = FALSE

Move(t, from, to) ==
  /\ status[t] = from
  /\ status' = [status EXCEPT ![t] = to]
  /\ UNCHANGED stopped

(* Submit returns true: only while the pool has not been shut down. *)
Accept(t) == ~stopped /\ Move(t, "new", "accepted")

(* Submit returns false. *)
Refuse(t) == Move(t, "new", "refused")

(* A worker starts Execute. *)
Run(t) == ~stopped /\ Move(t, "accepted", "running")

(* The callback of the task's result has returned. *)
Finish(t) == \E outcome \in {"succeeded", "failed"} : Move(t, "running", outcome)

(* Stop returns: no task is half done. *)
Stopped ==
  /\ ~stopped
  /\ \A t \in Tasks : status[t] # "running"
  /\ stopped' = TRUE
  /\ UNCHANGED status

LifeNext ==
  \/ \E t \in Tasks : Accept(t) \/ Refuse(t) \/ Run(t) \/ Finish(t)
  \/ Stopped

LifeSpec == LifeInit /\ [][LifeNext]_lifeVars
=============================================================================
