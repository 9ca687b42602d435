--------------------------- MODULE BundleSlabProofs ---------------------------
(***************************************************************************)
(* Proofs about BundleSlab, for any set of goroutines, any depth and any   *)
(* number of calls: a node is handed out once, and lies inside its slab.   *)
(*                                                                         *)
(* OwnNodes is not inductive.  That the node of an Add is new follows from *)
(* all nodes of the slab lying below its offset (BelowMark); that the node *)
(* of an Install is new, from the slab being unknown to everybody else     *)
(* until then (FreshIsPrivate).                                            *)
(***************************************************************************)
EXTENDS BundleSlab, FiniteSetTheorems, TLAPS

\* Only Map, and only with Prealloc, is ever inside newBundle's loop.
LoopOfMap == \A t \in Thread : pc[t] # "idle" => ~typed /\ depth > 0

\* A goroutine that is about to add to an offset has a slab.
AddHasSlab == \A t \in Thread : pc[t] = "add" => sl[t] # 0

\* The nodes handed out lie below the offset from which the next is taken.
BelowMark ==
    \A t \in Thread : \A n \in held[t] :
        IF typed /\ depth > 0 THEN n[1] = chunk => n[2] < next ELSE n[2] < off[n[1]]

\* A slab that is not installed yet belongs to the one who allocated it.
FreshIsPrivate ==
    \A t \in Thread : pc[t] = "install" =>
        /\ fresh[t] \in 1..made /\ off[fresh[t]] = 1 /\ slab # fresh[t]
        /\ \A u \in Thread :
              /\ sl[u] # fresh[t]
              /\ \A n \in held[u] : n[1] # fresh[t]
              /\ u # t /\ pc[u] = "install" => fresh[u] # fresh[t]

Disjoint == \A t, u \in Thread : t # u => held[t] \cap held[u] = {}
Counted == \A t \in Thread : IsFiniteSet(held[t]) /\ Cardinality(held[t]) = calls[t]

SlabInv ==
    /\ TypeOK /\ LoopOfMap /\ AddHasSlab /\ BelowMark /\ FreshIsPrivate
    /\ Disjoint /\ Counted /\ NodesInBounds
-------------------------------------------------------------------------------
\* A goroutine that is given a node nobody has keeps the nodes separate and
\* counted (Give, the end of newBundle and newEntry).
LEMMA GiveNew ==
    ASSUME TypeOK, Disjoint, Counted, NEW t \in Thread, NEW node,
           Give(t, node), \A u \in Thread : node \notin held[u]
    PROVE  Disjoint' /\ Counted'
<1>1. /\ held' = [held EXCEPT ![t] = @ \cup {node}]
      /\ calls' = [calls EXCEPT ![t] = @ + 1]
      /\ held \in [Thread -> SUBSET ((1..made) \X Nat)] /\ calls \in [Thread -> Nat]
  BY DEF Give, TypeOK
<1>2. Disjoint'
  BY <1>1 DEF Disjoint
<1>3. ASSUME NEW u \in Thread
      PROVE  IsFiniteSet(held'[u]) /\ Cardinality(held'[u]) = calls'[u]
  <2>1. CASE u = t
    <3>1. held'[u] = held[t] \cup {node} /\ calls'[u] = calls[t] + 1
      BY <1>1, <2>1
    <3>2. IsFiniteSet(held[t]) /\ Cardinality(held[t]) = calls[t] /\ node \notin held[t]
      BY DEF Counted
    <3>3. /\ IsFiniteSet(held[t] \cup {node})
          /\ Cardinality(held[t] \cup {node}) = Cardinality(held[t]) + 1
      BY <3>2, FS_AddElement
    <3>4. QED BY <3>1, <3>2, <3>3
  <2>2. CASE u # t
    BY <1>1, <2>2 DEF Counted
  <2>3. QED BY <2>1, <2>2
<1>4. QED BY <1>2, <1>3 DEF Counted

\* A slab that has just been allocated leaves the others as they are (make in
\* newBundle and newEntry).
LEMMA NewSlabKeeps ==
    ASSUME TypeOK, NEW o \in Nat, NewSlab(o)
    PROVE  /\ made' \in Nat /\ made' = made + 1 /\ made' \in 1..made' /\ off'[made'] = o
           /\ off' \in [1..made' -> Nat]
           /\ \A s \in 1..made : s \in 1..made' /\ s # made' /\ off'[s] = off[s]
           /\ 0..made \subseteq 0..made'
           /\ (1..made) \X Nat \subseteq (1..made') \X Nat
  BY DEF TypeOK, NewSlab

\* Nobody has a node of a slab that is only being allocated.
LEMMA NewSlabUnheld ==
    ASSUME TypeOK
    PROVE  \A u \in Thread : \A n \in held[u] :
               n \in (1..made) \X Nat /\ n[1] \in 1..made /\ n[1] # made + 1 /\ n[2] \in Nat
  BY DEF TypeOK

\* Every initial state satisfies the invariant.
LEMMA SlabInit == ASSUME Init PROVE SlabInv
<1>1. TypeOK
  BY DepthsAssumption, MaxCallsAssumption DEF Init, TypeOK
<1>2. Counted
  BY FS_EmptySet DEF Init, Counted
<1>3. QED
  BY <1>1, <1>2 DEF Init, SlabInv, LoopOfMap, AddHasSlab, BelowMark, FreshIsPrivate,
     Disjoint, NodesInBounds

\* Without Prealloc the node is a slab of its own.
LEMMA StepNewSingle ==
    ASSUME SlabInv, NEW t \in Thread, NewSingle(t) PROVE SlabInv'
<1> DEFINE node == <<made + 1, 0>>
<1>0. /\ TypeOK /\ LoopOfMap /\ BelowMark /\ Disjoint /\ Counted /\ NodesInBounds
      /\ depth = 0 /\ NewSlab(1) /\ Give(t, node)
      /\ UNCHANGED <<typed, depth, slab, chunk, next, pc, sl, fresh>>
      /\ left' \in Nat
  BY DEF SlabInv, NewSingle, Begin, config, locals, TypeOK
<1>1. /\ made' = made + 1 /\ made' \in Nat /\ off'[made'] = 1 /\ off' \in [1..made' -> Nat]
      /\ \A s \in 1..made : off'[s] = off[s]
      /\ 0..made \subseteq 0..made' /\ (1..made) \X Nat \subseteq (1..made') \X Nat
      /\ node \in (1..made') \X Nat
  BY <1>0, NewSlabKeeps
<1>2. \A u \in Thread : node \notin held[u]
  BY <1>0, NewSlabUnheld
<1>3. Disjoint' /\ Counted'
  BY <1>0, <1>2, GiveNew
<1>4. /\ held' = [held EXCEPT ![t] = @ \cup {node}]
      /\ calls' = [calls EXCEPT ![t] = @ + 1]
  BY <1>0 DEF Give
<1>5. TypeOK'
  <2>1. held' \in [Thread -> SUBSET ((1..made') \X Nat)]
    BY <1>0, <1>1, <1>4 DEF TypeOK
  <2>2. QED BY <1>0, <1>1, <1>4, <2>1, SMTT(30) DEF TypeOK
<1>6. \A u \in Thread : \A n \in held'[u] : n = node \/ n \in held[u]
  BY <1>0, <1>4 DEF TypeOK
<1>7. BelowMark' /\ NodesInBounds'
  BY <1>0, <1>1, <1>6, NewSlabUnheld DEF BelowMark, NodesInBounds
<1>8. LoopOfMap' /\ AddHasSlab' /\ FreshIsPrivate'
  BY <1>0 DEF LoopOfMap, AddHasSlab, FreshIsPrivate
<1>9. QED BY <1>3, <1>5, <1>7, <1>8 DEF SlabInv
\* The head of newBundle's loop.
LEMMA StepLoadSlab ==
    ASSUME SlabInv, NEW t \in Thread, LoadSlab(t) PROVE SlabInv'
<1>0. /\ SlabInv /\ TypeOK /\ ~typed /\ depth > 0 /\ left' \in Nat
      /\ sl' = [sl EXCEPT ![t] = slab]
      /\ pc' = [pc EXCEPT ![t] = IF slab = 0 THEN "fresh" ELSE "add"]
      /\ UNCHANGED <<typed, depth, slab, made, off, chunk, next, fresh, held, calls>>
  BY SMTT(30) DEF SlabInv, LoadSlab, Begin, Goto, config, slabs, given, TypeOK
<1>1. TypeOK'
  BY <1>0 DEF TypeOK
<1>2. \A u \in Thread : pc'[u] = "install" => u # t /\ pc[u] = "install"
  BY <1>0 DEF TypeOK
<1>3. \A u \in Thread : sl'[u] = slab \/ sl'[u] = sl[u]
  BY <1>0 DEF TypeOK
<1>4. FreshIsPrivate'
  BY <1>0, <1>2, <1>3 DEF SlabInv, FreshIsPrivate
<1>5. LoopOfMap' /\ AddHasSlab'
  BY <1>0 DEF TypeOK, SlabInv, LoopOfMap, AddHasSlab
<1>6. BelowMark' /\ Disjoint' /\ Counted' /\ NodesInBounds'
  BY <1>0 DEF SlabInv, BelowMark, Disjoint, Counted, NodesInBounds
<1>7. QED BY <1>1, <1>4, <1>5, <1>6 DEF SlabInv

\* The addition to the offset: the node is new because every node of the slab
\* lies below the offset.
LEMMA StepAddOffset ==
    ASSUME SlabInv, NEW t \in Thread, AddOffset(t) PROVE SlabInv'
<1> DEFINE s == sl[t]
           node == <<s, off[s]>>
<1>0. /\ TypeOK /\ LoopOfMap /\ AddHasSlab /\ BelowMark /\ FreshIsPrivate
      /\ Disjoint /\ Counted /\ NodesInBounds
      /\ pc[t] = "add" /\ off' = [off EXCEPT ![s] = @ + 1]
      /\ UNCHANGED <<typed, depth, left, slab, made, chunk, next>>
  BY DEF SlabInv, AddOffset, config
<1>1. ~typed /\ depth > 0 /\ depth \in Nat /\ s \in 1..made /\ off[s] \in Nat
  BY <1>0, DepthsAssumption DEF LoopOfMap, AddHasSlab, TypeOK
<1>2. /\ off' \in [1..made -> Nat] /\ off'[s] = off[s] + 1
      /\ \A r \in 1..made : r # s => off'[r] = off[r]
      /\ \A r \in 1..made : off[r] \in Nat /\ off[r] <= off'[r]
  BY <1>0, <1>1 DEF TypeOK
<1>3. \A u \in Thread : node \notin held[u]
  BY <1>0, <1>1 DEF BelowMark, TypeOK
<1>4. \A u \in Thread : pc[u] = "install" => s # fresh[u] /\ u # t
  BY <1>0 DEF FreshIsPrivate
<1>5. CASE off[s] < depth
  <2>1. /\ Give(t, node)
        /\ held' = [held EXCEPT ![t] = @ \cup {node}]
        /\ calls' = [calls EXCEPT ![t] = @ + 1]
        /\ pc' = [pc EXCEPT ![t] = "idle"]
        /\ sl' = [sl EXCEPT ![t] = 0] /\ fresh' = [fresh EXCEPT ![t] = 0]
    BY <1>5 DEF AddOffset, Return, Give, Goto
  <2>2. Disjoint' /\ Counted'
    BY <1>0, <1>3, <2>1, GiveNew
  <2>3. TypeOK'
    BY <1>0, <1>1, <1>2, <2>1, SMTT(30) DEF TypeOK
  <2>4. \A u \in Thread : \A n \in held'[u] : n = node \/ n \in held[u]
    BY <1>0, <2>1 DEF TypeOK
  <2>5. BelowMark'
    BY <1>0, <1>1, <1>2, <2>4, NewSlabUnheld DEF BelowMark
  <2>6. NodesInBounds'
    BY <1>0, <1>1, <1>5, <2>4 DEF NodesInBounds
  <2>7. \A u \in Thread : /\ pc'[u] = "install" => u # t /\ pc[u] = "install" /\ fresh'[u] = fresh[u]
                          /\ sl'[u] = 0 \/ sl'[u] = sl[u]
                          /\ pc'[u] # "idle" => u # t /\ pc'[u] = pc[u] /\ sl'[u] = sl[u]
    BY <1>0, <2>1 DEF TypeOK
  <2>8. FreshIsPrivate'
    <3> SUFFICES ASSUME NEW w \in Thread, pc'[w] = "install"
                 PROVE  /\ fresh'[w] \in 1..made' /\ off'[fresh'[w]] = 1 /\ slab' # fresh'[w]
                        /\ \A u \in Thread :
                              /\ sl'[u] # fresh'[w]
                              /\ \A n \in held'[u] : n[1] # fresh'[w]
                              /\ u # w /\ pc'[u] = "install" => fresh'[u] # fresh'[w]
      BY DEF FreshIsPrivate
    <3>1. pc[w] = "install" /\ fresh'[w] = fresh[w] /\ fresh[w] # s /\ fresh[w] \in 1..made
      BY <1>0, <1>4, <2>7 DEF FreshIsPrivate
    <3>2. off'[fresh'[w]] = 1 /\ slab' # fresh'[w]
      BY <1>0, <1>2, <3>1 DEF FreshIsPrivate
    <3>3. ASSUME NEW u \in Thread PROVE sl'[u] # fresh'[w]
      BY <1>0, <2>7, <3>1 DEF FreshIsPrivate
    <3>4. ASSUME NEW u \in Thread, NEW n \in held'[u] PROVE n[1] # fresh'[w]
      BY <1>0, <2>4, <3>1 DEF FreshIsPrivate
    <3>5. ASSUME NEW u \in Thread, u # w, pc'[u] = "install" PROVE fresh'[u] # fresh'[w]
      BY <1>0, <2>7, <3>1, <3>5 DEF FreshIsPrivate
    <3>6. QED BY <1>0, <3>1, <3>2, <3>3, <3>4, <3>5
  <2>9. LoopOfMap' /\ AddHasSlab'
    BY <1>0, <2>7 DEF LoopOfMap, AddHasSlab
  <2>10. QED BY <2>2, <2>3, <2>5, <2>6, <2>8, <2>9 DEF SlabInv
<1>6. CASE ~(off[s] < depth)
  <2>1. pc' = [pc EXCEPT ![t] = "fresh"] /\ UNCHANGED <<sl, fresh, held, calls>>
    BY <1>6 DEF AddOffset, Goto, given
  <2>2. TypeOK'
    BY <1>0, <1>1, <1>2, <2>1 DEF TypeOK
  <2>3. \A u \in Thread : pc'[u] \in {"add", "install"} => u # t /\ pc'[u] = pc[u]
    BY <1>0, <2>1 DEF TypeOK
  <2>4. LoopOfMap' /\ AddHasSlab'
    BY <1>0, <1>1, <2>1, <2>3 DEF LoopOfMap, AddHasSlab, TypeOK
  <2>5. BelowMark'
    BY <1>0, <1>1, <1>2, <2>1, NewSlabUnheld DEF BelowMark
  <2>6. FreshIsPrivate'
    BY <1>0, <1>2, <1>4, <2>1, <2>3 DEF FreshIsPrivate
  <2>7. Disjoint' /\ Counted' /\ NodesInBounds'
    BY <1>0, <2>1 DEF Disjoint, Counted, NodesInBounds
  <2>8. QED BY <2>2, <2>4, <2>5, <2>6, <2>7 DEF SlabInv
<1>7. QED BY <1>5, <1>6
\* The allocation of a slab, which nobody else has seen yet.
LEMMA StepAllocate ==
    ASSUME SlabInv, NEW t \in Thread, Allocate(t) PROVE SlabInv'
<1>0. /\ TypeOK /\ LoopOfMap /\ AddHasSlab /\ BelowMark /\ FreshIsPrivate
      /\ Disjoint /\ Counted /\ NodesInBounds /\ NewSlab(1) /\ pc[t] = "fresh"
      /\ pc' = [pc EXCEPT ![t] = "install"] /\ fresh' = [fresh EXCEPT ![t] = made + 1]
      /\ UNCHANGED <<typed, depth, left, slab, chunk, next, sl, held, calls>>
  BY DEF SlabInv, Allocate, Goto, config, given
<1>1. /\ made' = made + 1 /\ made' \in Nat /\ made' \in 1..made' /\ off'[made'] = 1
      /\ off' \in [1..made' -> Nat]
      /\ \A r \in 1..made : r \in 1..made' /\ r # made' /\ off'[r] = off[r]
      /\ 0..made \subseteq 0..made' /\ (1..made) \X Nat \subseteq (1..made') \X Nat
  BY <1>0, NewSlabKeeps
<1>2. ~typed /\ depth > 0
  BY <1>0 DEF LoopOfMap
<1>3. TypeOK'
  <2>1. held' \in [Thread -> SUBSET ((1..made') \X Nat)]
    BY <1>0, <1>1 DEF TypeOK
  <2>2. QED BY <1>0, <1>1, <2>1 DEF TypeOK
<1>4. LoopOfMap' /\ AddHasSlab'
  BY <1>0, <1>2 DEF LoopOfMap, AddHasSlab, TypeOK
<1>5. BelowMark'
  BY <1>0, <1>1, NewSlabUnheld DEF BelowMark
<1>6. FreshIsPrivate'
  <2> SUFFICES ASSUME NEW w \in Thread, pc'[w] = "install"
               PROVE  /\ fresh'[w] \in 1..made' /\ off'[fresh'[w]] = 1 /\ slab' # fresh'[w]
                      /\ \A u \in Thread :
                            /\ sl'[u] # fresh'[w]
                            /\ \A n \in held'[u] : n[1] # fresh'[w]
                            /\ u # w /\ pc'[u] = "install" => fresh'[u] # fresh'[w]
    BY DEF FreshIsPrivate
  <2>0. \A u \in Thread : u # t => pc'[u] = pc[u] /\ fresh'[u] = fresh[u]
    BY <1>0 DEF TypeOK
  <2>1. CASE w = t
    <3>1. fresh'[w] = made'
      BY <1>0, <1>1, <2>1 DEF TypeOK
    <3>2. \A u \in Thread : u # t /\ pc'[u] = "install" => fresh'[u] # made'
      BY <1>0, <1>1, <2>0 DEF FreshIsPrivate
    <3>3. slab' # made' /\ \A u \in Thread : sl'[u] # made'
      BY <1>0, <1>1 DEF TypeOK
    <3>4. QED BY <1>0, <1>1, <2>1, <3>1, <3>2, <3>3, NewSlabUnheld
  <2>2. CASE w # t
    <3>1. pc[w] = "install" /\ fresh'[w] = fresh[w] /\ fresh[w] \in 1..made
      BY <1>0, <2>0, <2>2 DEF FreshIsPrivate
    <3>2. fresh'[t] = made'
      BY <1>0, <1>1 DEF TypeOK
    <3>3. QED BY <1>0, <1>1, <2>0, <2>2, <3>1, <3>2 DEF FreshIsPrivate
  <2>3. QED BY <2>1, <2>2
<1>7. Disjoint' /\ Counted' /\ NodesInBounds'
  BY <1>0 DEF Disjoint, Counted, NodesInBounds
<1>8. QED BY <1>3, <1>4, <1>5, <1>6, <1>7 DEF SlabInv

\* The CompareAndSwap of the slab: the winner's node is new because the slab
\* was its own.
LEMMA StepInstall ==
    ASSUME SlabInv, NEW t \in Thread, Install(t) PROVE SlabInv'
<1> DEFINE f == fresh[t]
           node == <<f, 0>>
<1>0. /\ TypeOK /\ LoopOfMap /\ AddHasSlab /\ BelowMark /\ FreshIsPrivate
      /\ Disjoint /\ Counted /\ NodesInBounds /\ pc[t] = "install"
      /\ UNCHANGED <<typed, depth, left, made, off, chunk, next>>
  BY DEF SlabInv, Install, config, slabs
<1>1. /\ ~typed /\ depth > 0 /\ f \in 1..made /\ off[f] = 1
      /\ \A u \in Thread : node \notin held[u]
  BY <1>0 DEF LoopOfMap, FreshIsPrivate
<1>2. CASE slab = sl[t]
  <2>1. /\ Give(t, node) /\ slab' = f
        /\ held' = [held EXCEPT ![t] = @ \cup {node}]
        /\ calls' = [calls EXCEPT ![t] = @ + 1]
        /\ pc' = [pc EXCEPT ![t] = "idle"]
        /\ sl' = [sl EXCEPT ![t] = 0] /\ fresh' = [fresh EXCEPT ![t] = 0]
    BY <1>2 DEF Install, Return, Give, Goto
  <2>2. Disjoint' /\ Counted'
    BY <1>0, <1>1, <2>1, GiveNew
  <2>3. TypeOK'
    BY <1>0, <1>1, <2>1 DEF TypeOK
  <2>4. \A u \in Thread : \A n \in held'[u] : n = node \/ n \in held[u]
    BY <1>0, <2>1 DEF TypeOK
  <2>5. BelowMark' /\ NodesInBounds'
    BY <1>0, <1>1, <2>4 DEF BelowMark, NodesInBounds
  <2>6. \A u \in Thread : /\ pc'[u] = "install" => u # t /\ pc[u] = "install" /\ fresh'[u] = fresh[u]
                          /\ sl'[u] = 0 \/ sl'[u] = sl[u]
                          /\ pc'[u] # "idle" => u # t /\ pc'[u] = pc[u] /\ sl'[u] = sl[u]
    BY <1>0, <2>1 DEF TypeOK
  <2>7. FreshIsPrivate'
    <3> SUFFICES ASSUME NEW w \in Thread, pc'[w] = "install"
                 PROVE  /\ fresh'[w] \in 1..made' /\ off'[fresh'[w]] = 1 /\ slab' # fresh'[w]
                        /\ \A u \in Thread :
                              /\ sl'[u] # fresh'[w]
                              /\ \A n \in held'[u] : n[1] # fresh'[w]
                              /\ u # w /\ pc'[u] = "install" => fresh'[u] # fresh'[w]
      BY DEF FreshIsPrivate
    <3>1. pc[w] = "install" /\ w # t /\ fresh'[w] = fresh[w] /\ fresh[w] # f /\ fresh[w] \in 1..made
      BY <1>0, <2>6 DEF FreshIsPrivate
    <3>2. ASSUME NEW u \in Thread PROVE sl'[u] # fresh'[w]
      BY <1>0, <2>6, <3>1 DEF FreshIsPrivate
    <3>3. ASSUME NEW u \in Thread, NEW n \in held'[u] PROVE n[1] # fresh'[w]
      BY <1>0, <2>4, <3>1 DEF FreshIsPrivate
    <3>4. ASSUME NEW u \in Thread, u # w, pc'[u] = "install" PROVE fresh'[u] # fresh'[w]
      BY <1>0, <2>6, <3>1, <3>4 DEF FreshIsPrivate
    <3>5. QED BY <1>0, <2>1, <3>1, <3>2, <3>3, <3>4 DEF FreshIsPrivate
  <2>8. LoopOfMap' /\ AddHasSlab'
    BY <1>0, <2>6 DEF LoopOfMap, AddHasSlab
  <2>9. QED BY <2>2, <2>3, <2>5, <2>7, <2>8 DEF SlabInv
<1>3. CASE slab # sl[t]
  <2>1. pc' = [pc EXCEPT ![t] = "load"] /\ UNCHANGED <<slab, sl, fresh, held, calls>>
    BY <1>3 DEF Install, Goto, given
  <2>2. TypeOK'
    BY <1>0, <2>1 DEF TypeOK
  <2>3. \A u \in Thread : pc'[u] \in {"add", "install"} => u # t /\ pc'[u] = pc[u]
    BY <1>0, <2>1 DEF TypeOK
  <2>4. LoopOfMap' /\ AddHasSlab'
    BY <1>0, <1>1, <2>1, <2>3 DEF LoopOfMap, AddHasSlab, TypeOK
  <2>5. FreshIsPrivate'
    BY <1>0, <2>1, <2>3 DEF FreshIsPrivate
  <2>6. BelowMark' /\ Disjoint' /\ Counted' /\ NodesInBounds'
    BY <1>0, <2>1 DEF BelowMark, Disjoint, Counted, NodesInBounds
  <2>7. QED BY <2>2, <2>4, <2>5, <2>6 DEF SlabInv
<1>4. QED BY <1>2, <1>3
\* newEntry, from the chunk or from a new one.
LEMMA StepNewEntry ==
    ASSUME SlabInv, NEW t \in Thread, NewEntry(t) PROVE SlabInv'
<1>0. /\ TypeOK /\ LoopOfMap /\ AddHasSlab /\ BelowMark /\ FreshIsPrivate
      /\ Disjoint /\ Counted /\ NodesInBounds
      /\ typed /\ depth > 0 /\ depth \in Nat /\ left' \in Nat
      /\ UNCHANGED <<typed, depth, slab, pc, sl, fresh>>
  BY DepthsAssumption DEF SlabInv, NewEntry, Begin, config, locals, TypeOK
<1>1. \A u \in Thread : pc[u] = "idle"
  BY <1>0 DEF LoopOfMap
<1>2. LoopOfMap' /\ AddHasSlab' /\ FreshIsPrivate'
  BY <1>0, <1>1 DEF LoopOfMap, AddHasSlab, FreshIsPrivate
<1>t. typed' \in BOOLEAN
  BY <1>0, Zenon DEF TypeOK
<1>3. CASE chunk = 0 \/ next >= depth
  <2> DEFINE node == <<made + 1, 0>>
  <2>1. NewSlab(1) /\ chunk' = made + 1 /\ next' = 1 /\ Give(t, node)
    BY <1>3 DEF NewEntry
  <2>2. /\ made' = made + 1 /\ made' \in Nat /\ off' \in [1..made' -> Nat]
        /\ 0..made \subseteq 0..made' /\ (1..made) \X Nat \subseteq (1..made') \X Nat
        /\ node \in (1..made') \X Nat /\ chunk' \in 0..made'
    BY <1>0, <2>1, NewSlabKeeps
  <2>3. \A u \in Thread : node \notin held[u]
    BY <1>0, NewSlabUnheld
  <2>4. Disjoint' /\ Counted'
    BY <1>0, <2>1, <2>3, GiveNew
  <2>5. /\ held' = [held EXCEPT ![t] = @ \cup {node}]
        /\ calls' = [calls EXCEPT ![t] = @ + 1]
    BY <2>1 DEF Give
  <2>6. TypeOK'
    <3>1. held' \in [Thread -> SUBSET ((1..made') \X Nat)]
      BY <1>0, <2>2, <2>5 DEF TypeOK
    <3>2. /\ depth' \in Depths /\ slab' \in 0..made' /\ next' \in Nat
          /\ pc' = pc /\ sl' \in [Thread -> 0..made'] /\ fresh' \in [Thread -> 0..made']
          /\ calls' \in [Thread -> Nat]
      BY <1>0, <2>1, <2>2, <2>5, SMTT(30) DEF TypeOK
    <3>3. QED BY <1>0, <1>t, <2>2, <3>1, <3>2, Zenon DEF TypeOK
  <2>7. \A u \in Thread : \A n \in held'[u] : n = node \/ n \in held[u]
    BY <1>0, <2>5 DEF TypeOK
  <2>8. BelowMark' /\ NodesInBounds'
    BY <1>0, <2>1, <2>7, NewSlabUnheld DEF BelowMark, NodesInBounds
  <2>9. QED BY <1>2, <2>4, <2>6, <2>8 DEF SlabInv
<1>4. CASE ~(chunk = 0 \/ next >= depth)
  <2> DEFINE node == <<chunk, next>>
  <2>1. next' = next + 1 /\ Give(t, node) /\ UNCHANGED <<made, off, chunk>>
    BY <1>4 DEF NewEntry, slabs
  <2>2. next \in Nat /\ next < depth /\ chunk \in 1..made
    BY <1>0, <1>4 DEF TypeOK
  <2>3. \A u \in Thread : node \notin held[u]
    BY <1>0, <2>2 DEF BelowMark
  <2>4. Disjoint' /\ Counted'
    BY <1>0, <2>1, <2>3, GiveNew
  <2>5. /\ held' = [held EXCEPT ![t] = @ \cup {node}]
        /\ calls' = [calls EXCEPT ![t] = @ + 1]
    BY <2>1 DEF Give
  <2>6. TypeOK'
    <3>1. next' \in Nat /\ calls' \in [Thread -> Nat]
          /\ held' \in [Thread -> SUBSET ((1..made) \X Nat)]
      BY <1>0, <2>1, <2>2, <2>5 DEF TypeOK
    <3>2. QED BY <1>0, <1>t, <2>1, <3>1, Zenon DEF TypeOK
  <2>7. \A u \in Thread : \A n \in held'[u] : n = node \/ n \in held[u]
    BY <1>0, <2>5 DEF TypeOK
  <2>8. BelowMark' /\ NodesInBounds'
    BY <1>0, <2>1, <2>2, <2>7, NewSlabUnheld DEF BelowMark, NodesInBounds
  <2>9. QED BY <1>2, <2>4, <2>6, <2>8 DEF SlabInv
<1>5. QED BY <1>3, <1>4

\* Clear drops the chunk; a node of slab 0 does not exist.
LEMMA StepClearChunk == ASSUME SlabInv, ClearChunk PROVE SlabInv'
<1>0. /\ SlabInv /\ chunk' = 0 /\ next' = 0
      /\ UNCHANGED <<typed, depth, left, slab, made, off, pc, sl, fresh, held, calls>>
  BY DEF ClearChunk, config, slabs, locals, given
<1>1. TypeOK'
  BY <1>0 DEF SlabInv, TypeOK
<1>2. BelowMark'
  BY <1>0, NewSlabUnheld DEF SlabInv, BelowMark
<1>3. QED
  BY <1>0, <1>1, <1>2 DEF SlabInv, LoopOfMap, AddHasSlab, FreshIsPrivate, Disjoint,
     Counted, NodesInBounds

\* Nothing changes.
LEMMA StepStutters == ASSUME SlabInv, UNCHANGED vars PROVE SlabInv'
  BY DEF vars, config, locals, given, slabs, SlabInv, TypeOK, LoopOfMap, AddHasSlab,
     BelowMark, FreshIsPrivate, Disjoint, Counted, NodesInBounds

\* The inductive invariant of the slabs holds in every state.
LEMMA SlabInvariant == Spec => []SlabInv
<1>1. Init => SlabInv
  BY SlabInit
<1>2. SlabInv /\ [Next]_vars => SlabInv'
  <2> SUFFICES ASSUME SlabInv, [Next]_vars PROVE SlabInv'
    OBVIOUS
  <2>1. ASSUME NEW t \in Thread, NewSingle(t) \/ Step(t) \/ NewEntry(t) PROVE SlabInv'
    BY <2>1, StepNewSingle, StepLoadSlab, StepAddOffset, StepAllocate, StepInstall,
       StepNewEntry DEF Step
  <2>2. CASE ClearChunk
    BY <2>2, StepClearChunk
  <2>3. CASE Finished \/ UNCHANGED vars
    BY <2>3, StepStutters DEF Finished
  <2>4. QED BY <2>1, <2>2, <2>3 DEF Next
<1>3. QED BY <1>1, <1>2, PTL DEF Spec

\* Every variable of the slabs, and every node handed out, keeps its type.
THEOREM SlabTypes == Spec => []TypeOK
<1>1. SlabInv => TypeOK
  BY DEF SlabInv
<1>2. QED BY <1>1, SlabInvariant, PTL

\* newBundle and newEntry hand out no node twice, for any number of goroutines
\* that race for the end of a slab and for the installation of the next.
THEOREM NodesAreOwn == Spec => []OwnNodes
<1>1. SlabInv => OwnNodes
  BY DEF SlabInv, Disjoint, Counted, OwnNodes
<1>2. QED BY <1>1, SlabInvariant, PTL

\* &sl.buf[i] and &chunk[off] stay inside their slab, whatever the depth.
THEOREM NodesStayInside == Spec => []NodesInBounds
<1>1. SlabInv => NodesInBounds
  BY DEF SlabInv
<1>2. QED BY <1>1, SlabInvariant, PTL
===============================================================================
