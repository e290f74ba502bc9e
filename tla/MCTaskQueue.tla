---------------------------- MODULE MCTaskQueue ------------------------------
(* TaskQueue with its threads and tasks as model values.                   *)
EXTENDS TaskQueue, TLC

CONSTANTS p1, p2, c1, c2, c3, a

MCProducers == {p1, p2}
MCConsumers == {c1, c2, c3}
MCTask == {a}
QueueSymmetry == Permutations(MCProducers) \cup Permutations(MCConsumers)
=============================================================================
