---------------------------- MODULE MCThreadpool -----------------------------
(* Threadpool with its threads and tasks as model values.                  *)
EXTENDS Threadpool

CONSTANTS w1, w2, a, b, c

MCProducers == {Main}
TwoWorkers == {w1, w2}
MCTask == {a, b, c}
=============================================================================
