------------------------------ MODULE MCDaemon ------------------------------
(* Two daemons, one after the other, on one machine. *)
EXTENDS Daemon
=============================================================================
