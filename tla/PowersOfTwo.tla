------------------------------ MODULE PowersOfTwo ------------------------------
(***************************************************************************)
(* Table sizes are powers of two, in Map and in TypedMap.                  *)
(***************************************************************************)
EXTENDS Integers

MaxInt(a, b) == IF a > b THEN a ELSE b

\* 1 << i
Power[i \in Nat] == IF i = 0 THEN 1 ELSE 2 * Power[i - 1]
IsPowerOfTwo(n) == \E i \in 0..n : n = Power[i]

\* 1 << bits.Len(uint(v - 1)): the first power of two that is at least v.
NextPowerOfTwo(v) ==
    Power[CHOOSE i \in 0..MaxInt(v, 0) : Power[i] >= v /\ (i > 0 => Power[i - 1] < v)]
===============================================================================
