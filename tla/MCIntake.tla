------------------------------ MODULE MCIntake ------------------------------
(* Small instance of Intake for TLC: two calls carry the same message, and  *)
(* two another one, in one of them without its content.                     *)
EXTENDS Intake

CONSTANTS p1, p2, p3, p4, m1, m2

MCPush == {p1, p2, p3, p4}
MCMsgId == {m1, m2}
MCMsgIdOf(p) == IF p \in {p1, p2} THEN m1 ELSE m2
MCMalformed == {p4}
=============================================================================
