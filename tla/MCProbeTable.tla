----------------------------- MODULE MCProbeTable -----------------------------
(***************************************************************************)
(* ProbeTable with two goroutines of two calls each and three keys, in     *)
(* tables that start at 2 slots: k1 and k2 share their home slot, k1 and   *)
(* k3 their fingerprint, so that chains wrap around, lookups meet foreign  *)
(* entries with their own fingerprint, and a table fills up.               *)
(***************************************************************************)
EXTENDS ProbeTable, TLC

CONSTANTS k1, k2, k3

\* index = hash & mask, then (index + 1) & mask.
Home == k1 :> 1 @@ k2 :> 1 @@ k3 :> 0
LinearProbe(n, k, d) == (Home[k] + d) % n
Fingerprint == k1 :> 1 @@ k2 :> 3 @@ k3 :> 1

AllCalls == ({"insert", "delete", "lookup"} \X Key) \cup {<<"cleanup", Nil>>, <<"clear", Nil>>}

ThreadSymmetry == Permutations(Thread)
===============================================================================
