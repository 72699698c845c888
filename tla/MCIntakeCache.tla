--------------------------- MODULE MCIntakeCache ---------------------------
(* Small instance of Intake for TLC, about the cache: three calls that carry *)
(* one message and two that carry another, against a cache of two. Calls    *)
(* with the same message are interchangeable.                               *)
EXTENDS Intake, TLC

CONSTANTS p1, p2, p3, p4, p5, m1, m2

MCPush == {p1, p2, p3, p4, p5}
MCMsgId == {m1, m2}
MCMsgIdOf(p) == IF p \in {p1, p2, p3} THEN m1 ELSE m2
MCMalformed == {}

Symmetry == Permutations({p1, p2, p3}) \cup Permutations({p4, p5})
=============================================================================
