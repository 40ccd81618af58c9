----------------------------- MODULE MCScpSender -----------------------------
(* ScpSender for TLC; the threads are strings given in the cfg.            *)
EXTENDS ScpSender
=============================================================================
