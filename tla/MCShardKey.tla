------------------------------ MODULE MCShardKey ------------------------------
(***************************************************************************)
(* ShardKey with three concurrent calls, each free to be any operation of  *)
(* a workload, on a key that the call before them left absent, as a        *)
(* tombstone, or with a value.  a1 and a2 have one dynamic type, b1 has    *)
(* another, whose EqualForMap may panic.                                   *)
(***************************************************************************)
EXTENDS ShardKey

CONSTANTS a1, a2, b1

Types == [v \in Value |-> IF v \in {a1, a2} THEN "A" ELSE "B"]
OneByte == [v \in Value |-> 1]

CallSymmetry == Permutations(Call)

Load == Plain("Load", Nil)
Delete == Plain("Delete", Nil)
CleanupNow == Plain("CleanupNow", Nil)

\* What the key holds before the calls.
AnyFirst == {Plain("Clear", Nil), Delete, Plain("Store", a1)}
StoredFirst == {Plain("Store", a1)}
HitsFirst == {Limited("StoreWithOptions", a1, h, 0) : h \in 1..2}
OneHitFirst == {Limited("StoreWithOptions", a1, 1, 0)}
TTLFirst == {Limited("StoreWithOptions", a1, 1, 1)}

\* Without a TTL the clock does not matter: it has reached its bound.
Workload(first, ops) == [first |-> first, ops |-> ops, now |-> MaxTime, noClone |-> TRUE]
Cloned(first, ops) == [Workload(first, ops) EXCEPT !.noClone = FALSE]
Timed(first, ops) == [Workload(first, ops) EXCEPT !.now = 0]

\* Values of one type, without limits: the in-place paths.
PlainWorkloads ==
    {Workload(AnyFirst, {Plain("Store", a1), Plain("Store", a2), Load, Delete,
                         Plain("Clear", Nil), CleanupNow}),
     Workload(AnyFirst, {Plain("Store", a2), Plain("LoadOrStore", a2), CleanupNow,
                         Compare("CompareAndSwap", a1, a2), Compare("CompareAndDelete", a1, Nil)})}

\* Stores that change the type, so that boxes are replaced under the readers.
TypesWorkloads ==
    {Workload({Plain("Clear", Nil), Plain("Store", a1)},
              {Plain("Store", a2), Plain("Store", b1), Plain("Peek", Nil), Delete,
               Plain("LoadOrStore", b1)}),
     Workload(StoredFirst, {Plain("Store", a2), Plain("Store", b1), Plain("Range", Nil),
                            Compare("CompareAndDelete", a1, Nil), CleanupNow})}

\* Swap, CompareAndSwap and Has on a key that stays present.
SwapWorkloads ==
    {Workload(StoredFirst, {Plain("Swap", a1), Plain("Swap", a2), Plain("Store", a2), Load,
                            Plain("LoadOrStore", a2), Plain("Has", Nil), CleanupNow,
                            Compare("CompareAndSwap", a1, a2), Compare("CompareAndSwap", a2, a1)})}

\* Has next to removals.
HasWorkloads ==
    {Workload(StoredFirst, {Plain("Has", Nil), Load, Delete, Plain("Store", a2)})}

\* A map with a cloner that tracks bytes: every box has metadata.
ClonedWorkloads ==
    {Cloned({Delete, Plain("Store", a1)},
            {Plain("Store", a2), Plain("Swap", a2), Delete, CleanupNow,
             Compare("CompareAndDelete", a1, Nil)}),
     Cloned({Delete}, {Plain("LoadOrStore", a2), Compare("CompareAndSwap", a2, a1), Delete})}

\* Calls that race for one or two hits.
HitsWorkloads ==
    {Workload(HitsFirst, {Load, CleanupNow, Plain("Store", a2), Delete,
                          Limited("SwapWithOptions", a2, 1, 0)}),
     Workload(OneHitFirst, {Load, Plain("Range", Nil), Plain("LoadOrStore", a2), CleanupNow,
                            [Compare("CompareAndSwapWithOptions", a1, a2) EXCEPT !.hits = 1]}),
     Workload(OneHitFirst, {Load, Plain("Peek", Nil), Plain("Has", Nil)})}

\* Calls around the moment of expiry.
TTLWorkloads ==
    {Timed(TTLFirst, {Load, CleanupNow, Limited("LoadOrStoreWithOptions", a2, 0, 1)}),
     Timed(TTLFirst, {Plain("Swap", a2), Compare("CompareAndSwap", a1, a2)}),
     Timed(TTLFirst, {Plain("Range", Nil), Delete}),
     Timed(OneHitFirst, {Load, Limited("StoreWithOptions", a2, 0, 1)})}

\* A comparison or a cloner that may panic, in the gate and before it.
PanicWorkloads ==
    {Workload({Plain("Store", b1)},
              {Compare("CompareAndDelete", b1, Nil), Compare("CompareAndSwap", b1, b1),
               Plain("Store", a1), Plain("Peek", Nil), CleanupNow}),
     Cloned({Plain("Clear", Nil), Delete},
            {Plain("LoadOrStore", b1), Plain("Store", a1), Load, Plain("Clear", Nil)})}

ShardWorkloads ==
    PlainWorkloads \cup TypesWorkloads \cup SwapWorkloads \cup HasWorkloads
        \cup ClonedWorkloads \cup HitsWorkloads \cup TTLWorkloads \cup PanicWorkloads

\* Swap and CompareAndSwap to another type, through the box pointer, next to
\* calls that replace or claim the data word.
PointerWorkloads ==
    {Workload(StoredFirst, {Plain("Swap", b1), Plain("Store", a2), Delete}),
     Workload(StoredFirst, {Plain("Swap", b1), Plain("Store", a2),
                            Compare("CompareAndSwap", a1, b1)})}

ReturnWorkloads ==
    {Workload(OneHitFirst, {Load, Plain("Store", a2)}),
     Workload(OneHitFirst, {Load, Delete}),
     Workload(OneHitFirst, {Plain("Swap", a2), Plain("Clear", Nil)}),
     Workload({Plain("Store", b1)}, {Compare("CompareAndDelete", b1, Nil), Plain("Clear", Nil)})}
        \cup PointerWorkloads

\* The calls of the runs that end in a violation.
ShapeWorkloads ==
    {Workload(StoredFirst, {Compare("CompareAndSwap", a1, b1), Plain("Store", a2)})}
HitRaceWorkloads == {Workload(OneHitFirst, {Load, Plain("Store", a2), CleanupNow})}
ExpiryWorkloads == {Timed(TTLFirst, {Load, CleanupNow})}
===============================================================================
