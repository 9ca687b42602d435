----------------------------- MODULE MCLifecycle -----------------------------
(***************************************************************************)
(* Lifecycle with two closers and two writers, and with arguments on both  *)
(* sides of every comparison in normalize and autoShardCount.              *)
(***************************************************************************)
EXTENDS Lifecycle

SomeCounts == {-1, 1, 5}
SomeLoads == {10, 100, NaN}
SomeIntervals == {-1, 0}
SomeExpected == {-1, 1, 400, 999999, 10000000, 100000000}
===============================================================================
