---------------------------- MODULE MCPeriphery ----------------------------
(* A small instance of Periphery for TLC: three messages, two of which the  *)
(* listeners' filters cannot tell apart, and one whose item shows no time;  *)
(* two executions and two calls that may overlap.                           *)
EXTENDS Periphery

CONSTANTS m1, m2, m3

MCMessage == {m1, m2, m3}
MCKey(m) == IF m = m2 THEN m1 ELSE m
MCTimed == {m1, m2}
=============================================================================
