------------------------------- MODULE MCCheckers -------------------------------
(* Checkers for TLC: the configuration gives the constants their values. *)
EXTENDS Checkers
================================================================================
