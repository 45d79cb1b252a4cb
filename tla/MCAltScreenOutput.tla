-------------------------- MODULE MCAltScreenOutput --------------------------
(* TLC instances of AltScreenOutput. *)
EXTENDS AltScreenOutput, TLC

(* Two sessions that may overlap, or one whose stream is disturbed. *)
SomeBudgets == {[sessions |-> 2, faults |-> 0], [sessions |-> 1, faults |-> 3]}
=============================================================================
