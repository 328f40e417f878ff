------------------------------ MODULE MCDaemon ------------------------------
(* Two processes that run beside or after one another. *)
EXTENDS Daemon, TLC

Alike == Permutations(Procs) \cup Permutations(Keys)
=============================================================================
