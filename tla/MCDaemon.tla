------------------------------ MODULE MCDaemon ------------------------------
(* Daemon for TLC; tasks and signals are strings.                          *)
EXTENDS Daemon
=============================================================================
