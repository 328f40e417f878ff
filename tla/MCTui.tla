------------------------------- MODULE MCTui -------------------------------
(* One unit of time is a second: the intervals are those of tui.go. *)
EXTENDS Tui
=============================================================================
