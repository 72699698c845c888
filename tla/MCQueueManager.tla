--------------------------- MODULE MCQueueManager ---------------------------
(* Small instance of QueueManager for TLC. *)
EXTENDS QueueManager, TLC

CONSTANT MaxPlaced  \* bound: appends to the deque in one behaviour

Symmetry == Permutations(TaskId)

(* Bounds every counter: each one grows only with an item that was placed.  *)
Bounded == placed <= MaxPlaced
=============================================================================
