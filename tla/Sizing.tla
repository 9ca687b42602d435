-------------------------------- MODULE Sizing --------------------------------
(***************************************************************************)
(* How large a shard's table is (map.go: newTableWithSlots,                *)
(* slotsForEntries, targetSlotCount, shouldShrink, shouldResizeWithTable). *)
(* The load factor is the fraction LoadNum / LoadDen; normalize keeps it   *)
(* between 0.50 and 0.90.                                                  *)
(***************************************************************************)
EXTENDS PowersOfTwo

CONSTANTS
    MinTableSlots,  \* minTableSlots, and every shard's initialSlots: 32
    LoadNum, LoadDen

ASSUME LoadFactorAssumption ==
    /\ LoadNum \in Nat /\ LoadDen \in Nat \ {0}
    /\ 2 * LoadNum >= LoadDen /\ 10 * LoadNum <= 9 * LoadDen
ASSUME MinTableSlotsAssumption ==
    MinTableSlots >= 2 /\ IsPowerOfTwo(MinTableSlots)

\* table.growAt: at least one slot of a table stays above it.
GrowAt(slots) ==
    MaxInt(1, LET g == (slots * LoadNum) \div LoadDen IN IF g >= slots THEN slots - 1 ELSE g)

\* math.Ceil(entries / loadFactor), at least minTableSlots, to a power of two.
SlotsForEntries(entries) ==
    NextPowerOfTwo(MaxInt(MinTableSlots,
        (MaxInt(entries, 1) * LoadDen + LoadNum - 1) \div LoadNum))

ShouldShrink(slots, live) ==
    /\ slots > MinTableSlots
    /\ SlotsForEntries(live) * 2 < slots

ShouldResize(slots, used, live) == used >= GrowAt(slots) \/ ShouldShrink(slots, live)

TargetSlotCount(slots, live, used, tombstones, force) ==
    LET required == SlotsForEntries(live)
        target ==
            IF used >= GrowAt(slots) \/ required > slots
            THEN MaxInt(4 * slots, required)
            ELSE IF /\ slots > MinTableSlots
                    /\ \/ tombstones > 0 /\ tombstones * 4 >= MaxInt(used, 1)
                       \/ required * 2 < slots
                       \/ force /\ required < slots
            THEN required
            ELSE slots
    IN NextPowerOfTwo(MaxInt(target, MinTableSlots))
===============================================================================
