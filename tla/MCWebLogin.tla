---------------------------- MODULE MCWebLogin ----------------------------
(* WebLogin for TLC. *)
EXTENDS WebLogin
=============================================================================
