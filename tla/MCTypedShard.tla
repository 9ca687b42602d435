----------------------------- MODULE MCTypedShard -----------------------------
(***************************************************************************)
(* TypedShard with three concurrent calls.  k1 and k2 share a home slot,   *)
(* the last but one of 8, so that chains wrap around; f1 to f3 fill the    *)
(* table up to the point where it grows.                                   *)
(***************************************************************************)
EXTENDS TypedShard

CONSTANTS k1, k2, f1, f2, f3, a1, a2

Hashes == k1 :> 6 @@ k2 :> 14 @@ f1 :> 0 @@ f2 :> 1 @@ f3 :> 9

CallSymmetry == Permutations(Call)

\* The tables the calls find: k1 behind k2, k1 behind the tombstone of k2,
\* two tombstones, and a table in which the next insertion is one too many.
Slots(f) == f @@ Empty(8)
Behind == Slots(6 :> k2 @@ 7 :> k1)
AfterTomb == Slots(6 :> Tomb @@ 7 :> k1)
OnlyTombs == Slots(6 :> Tomb @@ 7 :> Tomb)
AlmostFull == Slots(0 :> f1 @@ 1 :> f2 @@ 2 :> f3 @@ 6 :> Tomb @@ 7 :> k1)
FullOfLive == Slots(0 :> f1 @@ 1 :> f2 @@ 2 :> f3 @@ 6 :> k2 @@ 7 :> k1)

Holds(T, k) == \E i \in DOMAIN T : T[i] = k
Stored(T, o) ==
    [k \in Key |-> IF ~Holds(T, k) THEN Operation("Delete", k, Nil)
                   ELSE IF k = k1 THEN o ELSE Operation("Store", k, a1)]
Plain1 == Operation("Store", k1, a1)
\* Without a TTL the clock does not matter: it has reached its bound.
Workload(T, o, ops) == [slots |-> T, first |-> Stored(T, o), ops |-> ops, now |-> MaxTime]

On1(kind, v) == Operation(kind, k1, v)
Load == On1("Load", Nil)
CleanUp == Operation("CleanupNow", Nil, Nil)

PlainOps ==
    {Load, On1("Store", a2), On1("LoadOrStore", a2), On1("Swap", a2), On1("Delete", Nil),
     Operation("Store", k2, a2), Operation("Delete", k2, Nil), CleanUp,
     Operation("Clear", Nil, Nil)}

ComputeOps ==
    {On1("Has", Nil), On1("ComputeUpdate", a2), On1("ComputeDelete", Nil),
     On1("ComputeCancel", Nil), [On1("CompareAndSwap", a2) EXCEPT !.old = a1],
     [On1("CompareAndDelete", Nil) EXCEPT !.old = a1], Operation("Store", k2, a2), CleanUp}

\* A function that panics under the mutex.
PanicOps ==
    {Load, On1("ComputePanic", Nil), On1("Store", a2), On1("Delete", Nil), CleanUp}

RangeOps ==
    {Operation("Range", Nil, Nil), Operation("Store", k2, a2), Operation("Delete", k2, Nil),
     [On1("Store", a2) EXCEPT !.hits = 1], CleanUp}
SnapshotOps == {Operation("Snapshot", Nil, Nil), [On1("Store", a2) EXCEPT !.hits = 1], CleanUp}

\* Calls on a key with one hit and a TTL, and on one that calls may limit.
LimitedStore == [On1("Store", a2) EXCEPT !.hits = 1, !.ttl = 1]
LimitedSwap == [On1("CompareAndSwap", a2) EXCEPT !.old = a1, !.hits = 1]
LimitOps == {Load, On1("Peek", Nil), On1("Store", a2), On1("LoadOrStore", a2), CleanUp}
RemoveOps == {Load, On1("Delete", Nil), On1("Swap", a2), LimitedSwap}
LimitingOps == {Load, LimitedStore, On1("Store", a2), LimitedSwap, CleanUp}

Timed(o, ops) == [Workload(AfterTomb, o, ops) EXCEPT !.now = 0]
Limited1 == [Plain1 EXCEPT !.hits = 1, !.ttl = 1]

TypedWorkloads ==
    {Workload(T, Plain1, PlainOps) : T \in {Behind, AfterTomb, OnlyTombs, AlmostFull}}
    \cup {Workload(T, Plain1, ComputeOps) : T \in {AfterTomb, AlmostFull}}
    \cup {Workload(T, Plain1, PanicOps) : T \in {OnlyTombs, AlmostFull}}
    \cup {Workload(FullOfLive, Plain1, RangeOps), Workload(Behind, Plain1, SnapshotOps)}
    \cup {Timed(Limited1, LimitOps), Timed(Limited1, RemoveOps), Timed(Plain1, LimitingOps)}
===============================================================================
