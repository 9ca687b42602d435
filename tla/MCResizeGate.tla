----------------------------- MODULE MCResizeGate -----------------------------
(***************************************************************************)
(* ResizeGate with three goroutines: a resizer, a writer that is inside    *)
(* and a writer that arrives, or two that compete for the resize bit.      *)
(* ShardResizing only has to exceed the number of goroutines; 16 keeps it  *)
(* inside TLC's integers.                                                  *)
(***************************************************************************)
EXTENDS ResizeGate
===============================================================================
