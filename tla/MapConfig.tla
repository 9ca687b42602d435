------------------------------- MODULE MapConfig -------------------------------
(***************************************************************************)
(* From options to tables: the arithmetic of New, NewTyped and             *)
(* NewTypedSized (map.go, typedmap.go) and of RecommendedShardCount.  Load *)
(* factors are in hundredths.                                              *)
(***************************************************************************)
EXTENDS PowersOfTwo

CONSTANT NaN    \* the float that no comparison holds of

DefaultCapacity == 1024
DefaultShardMultiplier == 4
DefaultShardCount == 32
LargeScaleCapacity == 1000000
VeryLargeScaleCapacity == 10000000
MassiveScaleCapacity == 100000000
MaxAutoShards == 1024
MinShardTargetEntries == 128

\* Sizing with the load factor of one map.
TableSizing(load) == INSTANCE Sizing WITH MinTableSlots <- 32, LoadNum <- load, LoadDen <- 100

DefaultConfig ==
    [capacity |-> DefaultCapacity, shardCount |-> 0, loadFactor |-> 72,
     cleanupInterval |-> 5, cloneValue |-> "default", prealloc |-> 0]

\* Mutant: the requested number of shards is taken as it is.
NormalizeAnyCount(cfg) ==
    [capacity |-> IF cfg.capacity < 1 THEN DefaultCapacity ELSE cfg.capacity,
     loadFactor |-> IF cfg.loadFactor = NaN THEN NaN
                    ELSE IF cfg.loadFactor < 50 THEN 50
                    ELSE IF cfg.loadFactor > 90 THEN 90 ELSE cfg.loadFactor,
     shardCount |-> IF cfg.shardCount <= 0 THEN DefaultShardCount ELSE cfg.shardCount,
     cleanupInterval |-> MaxInt(cfg.cleanupInterval, 0),
     cloneValue |-> IF cfg.cloneValue = "nil" THEN "default" ELSE cfg.cloneValue,
     hasCustomCloner |-> cfg.cloneValue = "custom",
     prealloc |-> cfg.prealloc]

\* Neither comparison holds of NaN, which stays.
Normalize(cfg) ==
    [capacity |-> IF cfg.capacity < 1 THEN DefaultCapacity ELSE cfg.capacity,
     loadFactor |-> IF cfg.loadFactor = NaN THEN NaN
                    ELSE IF cfg.loadFactor < 50 THEN 50
                    ELSE IF cfg.loadFactor > 90 THEN 90 ELSE cfg.loadFactor,
     shardCount |-> IF cfg.shardCount <= 0 THEN DefaultShardCount
                    ELSE NextPowerOfTwo(cfg.shardCount),
     cleanupInterval |-> MaxInt(cfg.cleanupInterval, 0),
     cloneValue |-> IF cfg.cloneValue = "nil" THEN "default" ELSE cfg.cloneValue,
     hasCustomCloner |-> cfg.cloneValue = "custom",
     prealloc |-> cfg.prealloc]

DivideRoundUp(value, divisor) == (value + divisor - 1) \div divisor

\* newTableForEntries.  Converted to an int, NaN is no number above 0.
TableForEntries(entries, load) ==
    IF load = NaN THEN [slots |-> 32, growAt |-> 1]
    ELSE LET slots == TableSizing(load)!SlotsForEntries(entries)
         IN [slots |-> slots, growAt |-> TableSizing(load)!GrowAt(slots)]

\* New, after normalize.
NewMap(cfg) ==
    LET table == TableForEntries(DivideRoundUp(cfg.capacity, cfg.shardCount), cfg.loadFactor)
    IN [typed |-> FALSE, capacity |-> cfg.capacity, shards |-> cfg.shardCount,
        slots |-> table.slots, growAt |-> table.growAt, depth |-> cfg.prealloc,
        loadFactor |-> cfg.loadFactor, cloneValue |-> cfg.cloneValue,
        noClone |-> ~cfg.hasCustomCloner, interval |-> cfg.cleanupInterval]

\* Mutant: as many slots as entries.
TypedSlotsTight(cfg) == NextPowerOfTwo(MaxInt(8, cfg.capacity \div cfg.shardCount))
TypedSlots(cfg) == NextPowerOfTwo(MaxInt(8, (cfg.capacity \div cfg.shardCount) * 2))

\* newTypedFromConfig: TypedMap has neither a load factor nor a cloner, and
\* takes the chunk size from its method Prealloc alone.
NewTypedMap(cfg) ==
    LET slots == TypedSlots(cfg)
    IN [typed |-> TRUE, capacity |-> cfg.capacity, shards |-> cfg.shardCount,
        slots |-> slots, growAt |-> (slots * 3) \div 4, depth |-> 0, interval |-> cfg.cleanupInterval]
-------------------------------------------------------------------------------
FloorPowerOfTwo(v) ==
    IF v <= 1 THEN 1
    ELSE LET p == NextPowerOfTwo(v) IN IF p = v THEN p ELSE p \div 2

Scale(capacity) ==
    IF capacity >= MassiveScaleCapacity THEN 16
    ELSE IF capacity >= VeryLargeScaleCapacity THEN 8
    ELSE IF capacity >= LargeScaleCapacity THEN 4
    ELSE 1

MinInt(a, b) == IF a < b THEN a ELSE b
MaxUseful(capacity) == MaxInt(1, capacity \div MinShardTargetEntries)

\* Mutant: rounded up.
AutoShardCountUp(capacity, procs) ==
    NextPowerOfTwo(MinInt(MaxUseful(capacity),
        MinInt(MaxAutoShards, MaxInt(1, procs * DefaultShardMultiplier * Scale(capacity)))))

AutoShardCount(capacity, procs) ==
    FloorPowerOfTwo(MinInt(MaxUseful(capacity),
        MinInt(MaxAutoShards, MaxInt(1, procs * DefaultShardMultiplier * Scale(capacity)))))

RecommendedShardCount(expected, procs) == AutoShardCount(MaxInt(expected, 1), procs)
===============================================================================
