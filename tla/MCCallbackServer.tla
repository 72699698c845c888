-------------------------- MODULE MCCallbackServer --------------------------
(* Small instances of CallbackServer for TLC: two tasks of one priority,    *)
(* with or without one that overtakes them.                                 *)
EXTENDS CallbackServer, TLC

CONSTANTS t1, t2, t3

MCTask == {t1, t2, t3}
MCTwoTasks == {t1, t2}
MCPriority(t) == IF t = t3 THEN 2 ELSE 1

Symmetry == Permutations({t1, t2})
=============================================================================
