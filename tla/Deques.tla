------------------------------- MODULE Deques -------------------------------
(* The operations on collections.deque that the queues use (remove, insert, *)
(* popleft), by their names in the community modules, under one prefix.     *)
SX == INSTANCE SequencesExt
=============================================================================
