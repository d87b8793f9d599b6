--------------------------- MODULE MCJobScheduler ---------------------------
(* JobScheduler on small instances. *)
EXTENDS JobScheduler

(* "* * * * *": jobs scheduled in the same minute fall due together. *)
EveryMinute(k, t) == t + 1
=============================================================================
