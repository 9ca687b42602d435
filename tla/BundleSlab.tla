------------------------------ MODULE BundleSlab ------------------------------
(***************************************************************************)
(* Prealloc: a shard hands out entry nodes from chunks of slabDepth nodes. *)
(*                                                                         *)
(* Map (map.go, newBundle) does it without a lock: the writers of a shard  *)
(* race for the next index of the current slab, and those that find it     *)
(* exhausted race to install a fresh one, whose first node is theirs.      *)
(* TypedMap (typedmap.go, newEntry) does it under the shard's mutex, in a  *)
(* chunk that Clear drops.                                                 *)
(*                                                                         *)
(* A node is named by its slab and its index.  A step of newBundle is one  *)
(* access to shared memory; allocating a fresh slab and setting its offset *)
(* touch memory that nobody else sees yet and are one step.  Slabs are     *)
(* numbered as they are allocated; the garbage collector frees none that   *)
(* somebody still points to, so no number is used twice.                   *)
(***************************************************************************)
EXTENDS Naturals, FiniteSets

CONSTANTS
    Thread,     \* the goroutines that insert
    Depths,     \* what WithPrealloc may be given: 0 disables the slabs
    MaxCalls    \* the bound on the number of calls

ASSUME DepthsAssumption == Depths \subseteq Nat
ASSUME MaxCallsAssumption == MaxCalls \in Nat

VARIABLES
    typed,      \* whether the shard is one of a TypedMap
    depth,      \* shard.slabDepth, typedShard.depth
    left,       \* how many calls may still begin
    slab,       \* shard.slab: the current slab, 0 for nil
    made,       \* how many slabs have been allocated
    off,        \* bundleSlab.off of each of them
    chunk,      \* typedShard.chunk: a slab of the TypedMap, 0 for nil
    next,       \* typedShard.off
    pc,         \* where each goroutine is in newBundle
    sl,         \* its local sl
    fresh,      \* its local fresh
    held,       \* the nodes it has been given
    calls       \* how many calls of it have returned

config == <<typed, depth>>
locals == <<pc, sl, fresh>>
given == <<held, calls>>
slabs == <<made, off>>
vars == <<config, left, slab, slabs, chunk, next, locals, given>>

NewSlab(o) ==
    /\ made' = made + 1
    /\ off' = [s \in 1..(made + 1) |-> IF s = made + 1 THEN o ELSE off[s]]

Init ==
    /\ typed \in BOOLEAN /\ depth \in Depths
    /\ left = MaxCalls
    /\ slab = 0 /\ chunk = 0 /\ next = 0
    /\ made = 0 /\ off = [s \in 1..0 |-> 0]
    /\ pc = [t \in Thread |-> "idle"]
    /\ sl = [t \in Thread |-> 0]
    /\ fresh = [t \in Thread |-> 0]
    /\ held = [t \in Thread |-> {}]
    /\ calls = [t \in Thread |-> 0]

Goto(t, l) == pc' = [pc EXCEPT ![t] = l]
Begin(t) == pc[t] = "idle" /\ left > 0 /\ left' = left - 1

\* A call is given a node; in newBundle it also drops its locals.
Give(t, node) ==
    /\ held' = [held EXCEPT ![t] = @ \cup {node}]
    /\ calls' = [calls EXCEPT ![t] = @ + 1]
Return(t, node) ==
    /\ Give(t, node)
    /\ Goto(t, "idle")
    /\ sl' = [sl EXCEPT ![t] = 0]
    /\ fresh' = [fresh EXCEPT ![t] = 0]
-------------------------------------------------------------------------------
\* Without Prealloc every node is an allocation of its own, in Map and in
\* TypedMap.
NewSingle(t) ==
    /\ depth = 0
    /\ Begin(t)
    /\ NewSlab(1)
    /\ Give(t, <<made + 1, 0>>)
    /\ UNCHANGED <<config, slab, chunk, next, locals>>

\* s.slab.Load(), at the head of the loop.
LoadSlab(t) ==
    /\ ~typed /\ depth > 0
    /\ \/ Begin(t)
       \/ pc[t] = "load" /\ UNCHANGED left
    /\ sl' = [sl EXCEPT ![t] = slab]
    /\ Goto(t, IF slab = 0 THEN "fresh" ELSE "add")
    /\ UNCHANGED <<config, slab, slabs, chunk, next, fresh, given>>

\* Mutant: an exhausted slab sends the caller back to the head of the loop.
AddOffsetRetries(t) ==
    /\ pc[t] = "add"
    /\ off' = [off EXCEPT ![sl[t]] = IF @ < depth THEN @ + 1 ELSE @]
    /\ IF off[sl[t]] < depth
       THEN Return(t, <<sl[t], off[sl[t]]>>)
       ELSE Goto(t, "load") /\ UNCHANGED <<sl, fresh, given>>
    /\ UNCHANGED <<config, left, slab, made, chunk, next>>

\* Mutant: the offset is compared after the addition, with one node too many.
AddOffsetPastEnd(t) ==
    /\ pc[t] = "add"
    /\ off' = [off EXCEPT ![sl[t]] = @ + 1]
    /\ IF off[sl[t]] <= depth
       THEN Return(t, <<sl[t], off[sl[t]]>>)
       ELSE Goto(t, "fresh") /\ UNCHANGED <<sl, fresh, given>>
    /\ UNCHANGED <<config, left, slab, made, chunk, next>>

\* sl.off.Add(1) - 1: an index of its own, which may lie beyond the slab.
AddOffset(t) ==
    /\ pc[t] = "add"
    /\ off' = [off EXCEPT ![sl[t]] = @ + 1]
    /\ IF off[sl[t]] < depth
       THEN Return(t, <<sl[t], off[sl[t]]>>)
       ELSE Goto(t, "fresh") /\ UNCHANGED <<sl, fresh, given>>
    /\ UNCHANGED <<config, left, slab, made, chunk, next>>

\* Mutant: the fresh slab starts at 0, although its first node is taken.
AllocateAtZero(t) ==
    /\ pc[t] = "fresh"
    /\ NewSlab(0)
    /\ fresh' = [fresh EXCEPT ![t] = made + 1]
    /\ Goto(t, "install")
    /\ UNCHANGED <<config, left, slab, chunk, next, sl, given>>

\* make, and fresh.off.Store(1) for the node the caller keeps.
Allocate(t) ==
    /\ pc[t] = "fresh"
    /\ NewSlab(1)
    /\ fresh' = [fresh EXCEPT ![t] = made + 1]
    /\ Goto(t, "install")
    /\ UNCHANGED <<config, left, slab, chunk, next, sl, given>>

\* CompareAndSwap(sl, fresh): the loser drops its slab and starts again.
Install(t) ==
    /\ pc[t] = "install"
    /\ IF slab = sl[t]
       THEN slab' = fresh[t] /\ Return(t, <<fresh[t], 0>>)
       ELSE Goto(t, "load") /\ UNCHANGED <<slab, sl, fresh, given>>
    /\ UNCHANGED <<config, left, slabs, chunk, next>>
-------------------------------------------------------------------------------
\* newEntry, under the mutex: all of it in one step.
NewEntry(t) ==
    /\ typed /\ depth > 0
    /\ Begin(t)
    /\ IF chunk = 0 \/ next >= depth
       THEN /\ NewSlab(1)
            /\ chunk' = made + 1 /\ next' = 1
            /\ Give(t, <<made + 1, 0>>)
       ELSE /\ next' = next + 1
            /\ Give(t, <<chunk, next>>)
            /\ UNCHANGED <<slabs, chunk>>
    /\ UNCHANGED <<config, slab, locals>>

\* Mutant: Clear starts the chunk again, whose nodes readers may still hold.
ClearChunkKeeps ==
    /\ chunk # 0
    /\ next' = 0
    /\ UNCHANGED <<config, left, slab, slabs, chunk, locals, given>>

\* TypedMap.Clear drops the chunk.
ClearChunk ==
    /\ chunk # 0
    /\ chunk' = 0 /\ next' = 0
    /\ UNCHANGED <<config, left, slab, slabs, locals, given>>

\* All calls have been made and have returned.
Finished ==
    /\ left = 0 /\ \A t \in Thread : pc[t] = "idle"
    /\ UNCHANGED vars

Step(t) == LoadSlab(t) \/ AddOffset(t) \/ Allocate(t) \/ Install(t)
Next ==
    \/ \E t \in Thread : NewSingle(t) \/ Step(t) \/ NewEntry(t)
    \/ ClearChunk \/ Finished

Spec == Init /\ [][Next]_vars

\* A goroutine inside newBundle keeps running.
FairSpec == Spec /\ \A t \in Thread : WF_vars(pc[t] # "idle" /\ Step(t))
-------------------------------------------------------------------------------
TypeOK ==
    /\ typed \in BOOLEAN /\ depth \in Depths /\ left \in Nat /\ made \in Nat
    /\ off \in [1..made -> Nat]
    /\ slab \in 0..made /\ chunk \in 0..made /\ next \in Nat
    /\ pc \in [Thread -> {"idle", "load", "add", "fresh", "install"}]
    /\ sl \in [Thread -> 0..made] /\ fresh \in [Thread -> 0..made]
    /\ calls \in [Thread -> Nat]
    /\ held \in [Thread -> SUBSET ((1..made) \X Nat)]

\* No node is handed out twice, to two goroutines or to one: two entries of
\* the map never share their memory (newBundle, newEntry).
OwnNodes ==
    /\ \A t, u \in Thread : t # u => held[t] \cap held[u] = {}
    /\ \A t \in Thread : Cardinality(held[t]) = calls[t]

\* Every node lies inside the slab it is taken from: &sl.buf[i] does not
\* panic, although off runs past the end of an exhausted slab.
NodesInBounds ==
    \A t \in Thread : \A n \in held[t] : n[2] < (IF depth = 0 THEN 1 ELSE depth)

\* newBundle returns: whoever loses the race to install a slab finds a slab
\* with free nodes, or somebody else has made progress.
NewBundleReturns == \A t \in Thread : pc[t] # "idle" ~> pc[t] = "idle"
===============================================================================
