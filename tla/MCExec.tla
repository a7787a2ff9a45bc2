------------------------------- MODULE MCExec -------------------------------
(* Exec for TLC; the threads are given in the configuration.               *)
EXTENDS Exec
=============================================================================
