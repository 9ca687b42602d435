----------------------------- MODULE RangePipeline -----------------------------
(***************************************************************************)
(* The traversals of a map with several shards (map.go: Range, RangePar    *)
(* and Snapshot; rangefast.go; RangePar of typedmap_ext.go).               *)
(*                                                                         *)
(* Range starts workers that collect the entries of consecutive shards     *)
(* into slabs, and calls the visitor itself on one slab after the other.   *)
(* The array of slabs and the array of ready flags come from two pools     *)
(* that all maps share; the buffer behind a slab is written again by the   *)
(* next Range that gets the array.  RangePar calls the visitor from the    *)
(* workers, which share a stop flag.                                       *)
(*                                                                         *)
(* Each call is on a map of its own, given by the number of live entries   *)
(* in each shard, which nobody changes: what the visit of one slot answers *)
(* while others write is EntryReads' part, and TypedShard's.  An entry is  *)
(* <<shard, index>>.  A worker of Range reads its shards in one step,      *)
(* since nobody looks at its buffer before the slab is handed over.        *)
(***************************************************************************)
EXTENDS Naturals, SequencesExt

CONSTANTS
    Jobs,               \* the calls of one run: their methods and maps
    Procs,              \* runtime.GOMAXPROCS(0)
    ParallelThreshold,  \* parallelRangeThreshold
    MinPerWorker,       \* minRangeEntriesPerWorker
    Spare,              \* the room make leaves beyond liveTotal: 8 in the code
    ArrayCap            \* how many workers a new pooled array has room for: 64

\* A map is given by the number of entries in each shard.
ASSUME JobsAssumption ==
    \A j \in Jobs : \A c \in DOMAIN j :
        /\ j[c].kind \in {"Range", "Snapshot", "RangePar", "TypedRangePar"}
        /\ j[c].map \in Seq(Nat) /\ Len(j[c].map) > 0
ASSUME NumbersAssumption ==
    /\ Procs \in Nat \ {0} /\ MinPerWorker \in Nat \ {0}
    /\ ParallelThreshold \in Nat /\ Spare \in Nat /\ ArrayCap \in Nat

VARIABLES
    job,        \* the method and the map of each call
    pc,         \* where the calling goroutine is
    at,         \* the place of its loops: shard or worker, and entry
    view,       \* its local slab
    arrays,     \* the two arrays it has from the pools
    worker,     \* its workers
    stopped,    \* RangePar's stop flag
    seen,       \* how often the visitor has been called with each entry
    ended,      \* whether the visitor returned false or panicked
    slabs,      \* the slab arrays: a slice for each worker
    buffer,     \* the memory of the slices
    ready,      \* the arrays of ready flags
    slabPool,   \* the arrays that wait in slabPool
    readyPool   \* and in readyPool

caller == <<pc, at, view, arrays>>
history == <<seen, ended>>
shared == <<slabs, buffer, ready>>
pools == <<slabPool, readyPool>>
vars == <<job, caller, worker, stopped, history, shared, pools>>
-------------------------------------------------------------------------------
Call == DOMAIN job
Map(c) == job[c].map
Kind(c) == job[c].kind
TotalLive(c) == FoldFunction(+, 0, Map(c))
Entries(c) == UNION {{<<s, i>> : i \in 1..Map(c)[s]} : s \in DOMAIN Map(c)}
\* The entries of the shards lo to hi, in the order of the scan.
Collected(c, lo, hi) ==
    FlattenSeq([s \in 1..(hi - lo + 1) |-> [i \in 1..Map(c)[lo + s - 1] |-> <<lo + s - 1, i>>]])
SmallerOf(a, b) == IF a < b THEN a ELSE b
LargerOf(a, b) == IF a < b THEN b ELSE a

\* One shard, or too few entries to be worth a goroutine.
Sequential(c) ==
    /\ Kind(c) # "TypedRangePar"
    /\ Len(Map(c)) = 1 \/ TotalLive(c) < ParallelThreshold

\* TypedMap starts a goroutine for each shard.
Workers(c) ==
    IF Kind(c) = "TypedRangePar" THEN Len(Map(c))
    ELSE LargerOf(1, SmallerOf(SmallerOf(Procs * 4, Len(Map(c))),
                               TotalLive(c) \div MinPerWorker))

\* Mutant: the remainder of the division is left out.
ChunkOfBase(c, w) ==
    LET base == Len(Map(c)) \div Workers(c)
    IN <<base * (w - 1) + 1, base * w>>

\* The first and the last shard of worker w: the first extra workers have one
\* more.
Chunk(c, w) ==
    LET base == Len(Map(c)) \div Workers(c)
        extra == Len(Map(c)) % Workers(c)
        End(k) == base * k + SmallerOf(k, extra)
    IN <<End(w - 1) + 1, End(w)>>

Slice(b, n) == [back |-> b, len |-> n]
NilSlice == Slice(0, 0)
Cap(slice) == IF slice.back = 0 THEN 0 ELSE Len(buffer[slice.back])
NewWorkers(c, first) ==
    [w \in 1..Workers(c) |->
        [pc |-> first, shard |-> Chunk(c, w)[1], last |-> Chunk(c, w)[2],
         entry |-> 1, buf |-> NilSlice, late |-> {}]]

Init ==
    /\ job \in Jobs
    /\ pc = [c \in Call |-> "new"]
    /\ at = [c \in Call |-> <<1, 1>>]
    /\ view = [c \in Call |-> NilSlice]
    /\ arrays = [c \in Call |-> <<0, 0>>]
    /\ worker = [c \in Call |-> <<>>]
    /\ stopped = [c \in Call |-> FALSE]
    /\ seen = [c \in Call |-> [e \in Entries(c) |-> 0]]
    /\ ended = [c \in Call |-> "no"]
    /\ slabs = <<>> /\ buffer = <<>> /\ ready = <<>>
    /\ slabPool = {} /\ readyPool = {}

Goto(c, l) == pc' = [pc EXCEPT ![c] = l]
See(c, e) == seen' = [seen EXCEPT ![c][e] = @ + 1]

\* What the visitor does: it goes on, asks to stop, or panics.  Snapshot's
\* only goes on.
Goes(c) == UNCHANGED ended
Stops(c) == Kind(c) # "Snapshot" /\ ended' = [ended EXCEPT ![c] = "stopped"]
Panics(c) == Kind(c) # "Snapshot" /\ ended' = [ended EXCEPT ![c] = "panicked"]
-------------------------------------------------------------------------------
(***************************************************************************)
(* The sequential traversal.                                               *)
(***************************************************************************)
BeginSequential(c) ==
    /\ pc[c] = "new" /\ Sequential(c)
    /\ Goto(c, "sequential")
    /\ UNCHANGED <<job, at, view, arrays, worker, stopped, history, shared, pools>>

\* Mutant: the traversal of the shard ends, that of the map goes on.
VisitInlineGoesOn(c) ==
    LET s == at[c][1]
        i == at[c][2]
    IN /\ pc[c] = "sequential" /\ i <= Map(c)[s]
       /\ See(c, <<s, i>>)
       /\ \/ Goes(c) /\ at' = [at EXCEPT ![c] = <<s, i + 1>>] /\ UNCHANGED pc
          \/ Stops(c) /\ at' = [at EXCEPT ![c] = <<s, Map(c)[s] + 1>>] /\ UNCHANGED pc
          \/ Panics(c) /\ Goto(c, "returned") /\ UNCHANGED at
       /\ UNCHANGED <<job, view, arrays, worker, stopped, shared, pools>>

\* rangeShardSequential: the next entry of the shard.
VisitInline(c) ==
    LET s == at[c][1]
        i == at[c][2]
    IN /\ pc[c] = "sequential" /\ i <= Map(c)[s]
       /\ See(c, <<s, i>>)
       /\ \/ Goes(c) /\ at' = [at EXCEPT ![c] = <<s, i + 1>>] /\ UNCHANGED pc
          \/ (Stops(c) \/ Panics(c)) /\ Goto(c, "returned") /\ UNCHANGED at
       /\ UNCHANGED <<job, view, arrays, worker, stopped, shared, pools>>

\* The end of a shard, and of the last one.
NextShard(c) ==
    LET s == at[c][1]
    IN /\ pc[c] = "sequential"
       /\ at[c][2] > Map(c)[s]
       /\ at' = [at EXCEPT ![c] = <<s + 1, 1>>]
       /\ Goto(c, IF s < Len(Map(c)) THEN "sequential" ELSE "returned")
       /\ UNCHANGED <<job, view, arrays, worker, stopped, history, shared, pools>>
-------------------------------------------------------------------------------
(***************************************************************************)
(* Range: the pools, and the calling goroutine.                            *)
(***************************************************************************)
\* sync.Pool's Get returns one of its arrays or a new one; an array too short
\* for n workers is dropped and a new one made.  That an array is dropped needs
\* no step: it is one that no later Get returns.
Got(pool, made, n, a) ==
    \/ a = Len(made) + 1
    \/ a \in pool /\ Len(made[a]) >= n
Fresh(n, zero) == [w \in 1..LargerOf(n, ArrayCap) |-> zero]

\* Slices of length 0, with the buffers of earlier calls.
AcquireRangeSlabs(n, a) ==
    /\ Got(slabPool, slabs, n, a)
    /\ slabs' = IF a > Len(slabs) THEN Append(slabs, Fresh(n, NilSlice))
                ELSE [slabs EXCEPT ![a] = [w \in DOMAIN @ |->
                         IF w <= n THEN Slice(@[w].back, 0) ELSE @[w]]]
    /\ slabPool' = slabPool \ {a}

\* Mutant: the flags of an earlier call are not reset.
AcquireRangeReadyAsIs(n, a) ==
    /\ Got(readyPool, ready, n, a)
    /\ ready' = IF a > Len(ready) THEN Append(ready, Fresh(n, FALSE)) ELSE ready
    /\ readyPool' = readyPool \ {a}

\* Flags that are down.
AcquireRangeReady(n, a) ==
    /\ Got(readyPool, ready, n, a)
    /\ ready' = IF a > Len(ready) THEN Append(ready, Fresh(n, FALSE))
                ELSE [ready EXCEPT ![a] = [w \in DOMAIN @ |-> w > n /\ @[w]]]
    /\ readyPool' = readyPool \ {a}

\* Range up to the go statements: the two arrays and the workers.
BeginPipeline(c) ==
    /\ pc[c] = "new" /\ ~Sequential(c) /\ Kind(c) \in {"Range", "Snapshot"}
    /\ \E a \in 1..(Len(slabs) + 1), b \in 1..(Len(ready) + 1) :
         /\ AcquireRangeSlabs(Workers(c), a)
         /\ AcquireRangeReady(Workers(c), b)
         /\ arrays' = [arrays EXCEPT ![c] = <<a, b>>]
    /\ worker' = [worker EXCEPT ![c] = NewWorkers(c, "collect")]
    /\ Goto(c, "wait")
    /\ UNCHANGED <<job, at, view, stopped, history, buffer>>

\* The deferred releaseRangeReady and releaseRangeSlabs.
ReleaseArrays(c) ==
    LET a == arrays[c][1]
    IN /\ slabs' = [slabs EXCEPT ![a] = [w \in DOMAIN @ |->
                       IF w <= Workers(c) THEN Slice(@[w].back, 0) ELSE @[w]]]
       /\ slabPool' = slabPool \cup {a}
       /\ readyPool' = readyPool \cup {arrays[c][2]}

\* The loop on ready[w] ends, and slab := slabs[w].
AwaitReady(c) ==
    LET w == at[c][1]
    IN /\ pc[c] = "wait" /\ ready[arrays[c][2]][w]
       /\ view' = [view EXCEPT ![c] = slabs[arrays[c][1]][w]]
       /\ Goto(c, "visit")
       /\ UNCHANGED <<job, at, arrays, worker, stopped, history, shared, pools>>

\* Mutant: a visitor's false makes Range return at once.
VisitSlabNoWait(c) ==
    LET w == at[c][1]
        i == at[c][2]
    IN /\ pc[c] = "visit" /\ i <= view[c].len
       /\ See(c, buffer[view[c].back][i])
       /\ \/ /\ Goes(c) /\ at' = [at EXCEPT ![c] = <<w, i + 1>>]
             /\ UNCHANGED <<pc, slabs, pools>>
          \/ (Stops(c) \/ Panics(c)) /\ Goto(c, "returned") /\ ReleaseArrays(c) /\ UNCHANGED at
       /\ UNCHANGED <<job, view, arrays, worker, stopped, buffer, ready>>

\* The visitor is called with the next pair of the slab.  When it returns
\* false, Range waits for the workers; when it panics, the deferred calls run
\* and nobody waits.
VisitSlab(c) ==
    LET w == at[c][1]
        i == at[c][2]
    IN /\ pc[c] = "visit" /\ i <= view[c].len
       /\ See(c, buffer[view[c].back][i])
       /\ \/ /\ Goes(c) /\ at' = [at EXCEPT ![c] = <<w, i + 1>>]
             /\ UNCHANGED <<pc, slabs, pools>>
          \/ Stops(c) /\ Goto(c, "join") /\ UNCHANGED <<at, slabs, pools>>
          \/ Panics(c) /\ Goto(c, "returned") /\ ReleaseArrays(c) /\ UNCHANGED at
       /\ UNCHANGED <<job, view, arrays, worker, stopped, buffer, ready>>

\* The end of a slab, and of the last one.
NextSlab(c) ==
    LET w == at[c][1]
    IN /\ pc[c] = "visit" /\ at[c][2] > view[c].len
       /\ at' = [at EXCEPT ![c] = <<w + 1, 1>>]
       /\ Goto(c, IF w < Workers(c) THEN "wait" ELSE "join")
       /\ UNCHANGED <<job, view, arrays, worker, stopped, history, shared, pools>>

\* wg.Wait, of Range and of RangePar.
Join(c) ==
    /\ pc[c] = "join"
    /\ \A w \in DOMAIN worker[c] : worker[c][w].pc = "gone"
    /\ Goto(c, "returned")
    /\ IF Kind(c) \in {"Range", "Snapshot"} THEN ReleaseArrays(c) ELSE UNCHANGED <<slabs, pools>>
    /\ UNCHANGED <<job, at, view, arrays, worker, stopped, history, buffer, ready>>
-------------------------------------------------------------------------------
(***************************************************************************)
(* rangeWorkerPipeline, with rangeShardsCollect.                           *)
(***************************************************************************)
WorkerAt(c, w, l) == worker[c][w].pc = l
MoveWorker(c, w, l) == worker' = [worker EXCEPT ![c][w].pc = l]

\* The entries of the worker's shards are appended to buf, which is *out or a
\* new buffer when that one is too small.  Whoever else uses the buffer is a
\* call whose arrays a panic has put back too early.
CollectShards(c, w) ==
    LET out == slabs[arrays[c][1]][w]
        found == Collected(c, worker[c][w].shard, worker[c][w].last)
        grow == Cap(out) < Len(found)
        back == IF grow THEN Len(buffer) + 1 ELSE out.back
    IN /\ WorkerAt(c, w, "collect")
       /\ buffer' = IF grow THEN Append(buffer, found \o [i \in 1..Spare |-> <<0, 0>>])
                    ELSE IF found = <<>> THEN buffer
                    ELSE [buffer EXCEPT ![back] = found \o SubSeq(@, Len(found) + 1, Len(@))]
       /\ worker' = [worker EXCEPT ![c][w] =
             [@ EXCEPT !.pc = "flush", !.buf = Slice(back, Len(found))]]
       /\ UNCHANGED <<job, caller, stopped, history, slabs, ready, pools>>

\* *out = buf.
Flush(c, w) ==
    /\ WorkerAt(c, w, "flush")
    /\ slabs' = [slabs EXCEPT ![arrays[c][1]][w] = worker[c][w].buf]
    /\ MoveWorker(c, w, "ready")
    /\ UNCHANGED <<job, caller, stopped, history, buffer, ready, pools>>

\* ready.Store(true).
SetReady(c, w) ==
    /\ WorkerAt(c, w, "ready")
    /\ ready' = [ready EXCEPT ![arrays[c][2]][w] = TRUE]
    /\ MoveWorker(c, w, "done")
    /\ UNCHANGED <<job, caller, stopped, history, slabs, buffer, pools>>

\* wg.Done, of either worker.
Done(c, w) ==
    /\ WorkerAt(c, w, "done")
    /\ MoveWorker(c, w, "gone")
    /\ UNCHANGED <<job, caller, stopped, history, shared, pools>>
-------------------------------------------------------------------------------
(***************************************************************************)
(* RangePar: rangeWorkerDirect, and the goroutines of TypedMap.RangePar.   *)
(* A panic in one of them ends the program.                                *)
(***************************************************************************)
BeginDirect(c) ==
    /\ pc[c] = "new" /\ ~Sequential(c) /\ Kind(c) \in {"RangePar", "TypedRangePar"}
    /\ worker' = [worker EXCEPT ![c] = NewWorkers(c, "check")]
    /\ Goto(c, "join")
    /\ UNCHANGED <<job, at, view, arrays, stopped, history, shared, pools>>

\* What follows an entry: RangePar looks at the flag again when the shard is
\* through, TypedMap's before each slot.
After(c, k) ==
    IF k.entry < Map(c)[k.shard]
    THEN [k EXCEPT !.entry = @ + 1, !.pc = IF Kind(c) = "RangePar" THEN "direct" ELSE "check"]
    ELSE [k EXCEPT !.shard = @ + 1, !.entry = 1, !.pc = "check"]

\* Mutant: the flag is read once, before the first shard.
CheckStopOnce(c, w) ==
    LET k == worker[c][w]
    IN /\ WorkerAt(c, w, "check")
       /\ worker' = [worker EXCEPT ![c][w] =
             IF k.shard > k.last \/ (stopped[c] /\ k.shard = Chunk(c, w)[1] /\ k.entry = 1)
             THEN [k EXCEPT !.pc = "done"]
             ELSE IF Map(c)[k.shard] = 0 THEN [k EXCEPT !.shard = @ + 1]
             ELSE [k EXCEPT !.pc = "direct"]]
       /\ UNCHANGED <<job, caller, stopped, history, shared, pools>>

\* Mutant: a worker that finds the flag up looks again.
CheckStopSpins(c, w) ==
    LET k == worker[c][w]
    IN /\ WorkerAt(c, w, "check")
       /\ worker' = [worker EXCEPT ![c][w] =
             IF k.shard > k.last THEN [k EXCEPT !.pc = "done"]
             ELSE IF stopped[c] THEN k
             ELSE IF Map(c)[k.shard] = 0 THEN [k EXCEPT !.shard = @ + 1]
             ELSE [k EXCEPT !.pc = "direct"]]
       /\ UNCHANGED <<job, caller, stopped, history, shared, pools>>

\* stopped.Load(), and the end of the loops.
CheckStop(c, w) ==
    LET k == worker[c][w]
    IN /\ WorkerAt(c, w, "check")
       /\ worker' = [worker EXCEPT ![c][w] =
             IF k.shard > k.last \/ stopped[c] THEN [k EXCEPT !.pc = "done"]
             ELSE IF Map(c)[k.shard] = 0 THEN [k EXCEPT !.shard = @ + 1]
             ELSE [k EXCEPT !.pc = "direct"]]
       /\ UNCHANGED <<job, caller, stopped, history, shared, pools>>

\* The visitor is called with the next entry of the shard.
VisitDirect(c, w) ==
    LET k == worker[c][w]
        e == <<k.shard, k.entry>>
        noted == [k EXCEPT !.late = IF stopped[c] THEN @ \cup {e} ELSE @]
    IN /\ WorkerAt(c, w, "direct")
       /\ See(c, e)
       /\ \/ Goes(c) /\ worker' = [worker EXCEPT ![c][w] = After(c, noted)] /\ UNCHANGED stopped
          \/ /\ Stops(c)
             /\ worker' = [worker EXCEPT ![c][w] = [noted EXCEPT !.pc = "done"]]
             /\ stopped' = [stopped EXCEPT ![c] = TRUE]
       /\ UNCHANGED <<job, caller, shared, pools>>
-------------------------------------------------------------------------------
WorkerStep(c, w) ==
    \/ CollectShards(c, w) \/ Flush(c, w) \/ SetReady(c, w)
    \/ CheckStop(c, w) \/ VisitDirect(c, w) \/ Done(c, w)
CallerStep(c) ==
    \/ VisitInline(c) \/ NextShard(c)
    \/ AwaitReady(c) \/ VisitSlab(c) \/ NextSlab(c) \/ Join(c)
Begin(c) == BeginSequential(c) \/ BeginPipeline(c) \/ BeginDirect(c)

\* Every call has returned and every worker is gone.
Quiet(c) == pc[c] = "returned" /\ \A w \in DOMAIN worker[c] : worker[c][w].pc = "gone"
Finished == (\A c \in Call : Quiet(c)) /\ UNCHANGED vars

Next ==
    \/ \E c \in Call : Begin(c) \/ CallerStep(c)
    \/ \E c \in Call : \E w \in DOMAIN worker[c] : WorkerStep(c, w)
    \/ Finished

Spec == Init /\ [][Next]_vars

\* Some goroutine that can go on does.  A goroutine that waits for a flag or
\* for the workers is one that cannot: its loop changes nothing.  Nobody is
\* obliged to make a call.
Running == \E c \in Call : CallerStep(c) \/ \E w \in DOMAIN worker[c] : WorkerStep(c, w)
FairSpec == Spec /\ WF_vars(Running)
-------------------------------------------------------------------------------
\* A traversal whose visitor never asked to stop calls it exactly once with
\* each entry, whichever workers, buffers and flags it got (Range, Snapshot,
\* RangePar); one that was stopped, at most once.  A visitor that panicked in
\* some Range leaves workers behind that write to pooled arrays (the deferred
\* releases do not wait), and nothing is promised to the calls that share the
\* pools with them.
EachEntryOnce ==
    (\A c \in Call : ended[c] # "panicked") =>
        \A c \in Call : \A e \in DOMAIN seen[c] :
            /\ seen[c][e] <= 1
            /\ pc[c] = "returned" /\ ended[c] = "no" => seen[c][e] = 1

\* The arrays of a call that did not panic are its own as long as the call or
\* one of its workers uses them: they wait in no pool, and no other such call
\* has them (releaseRangeSlabs, releaseRangeReady run after wg.Wait).
Uses(c) == arrays[c] # <<0, 0>> /\ ~Quiet(c) /\ ended[c] # "panicked"
ArraysOwned ==
    \A c \in Call : Uses(c) =>
        /\ arrays[c][1] \notin slabPool /\ arrays[c][2] \notin readyPool
        /\ \A d \in Call \ {c} : Uses(d) =>
             arrays[c][1] # arrays[d][1] /\ arrays[c][2] # arrays[d][2]

\* After a visitor has returned false and the flag is up, a worker of RangePar
\* goes on to the end of its shard and into no other one, and a goroutine of
\* TypedMap's RangePar makes at most the call it had begun to prepare.
StopIsPrompt ==
    \A c \in Call : \A w \in DOMAIN worker[c] :
        LET late == worker[c][w].late
        IN /\ \A e, f \in late : e[1] = f[1]
           /\ Kind(c) = "TypedRangePar" => Cardinality(late) <= 1

\* Range calls the visitor from one goroutine, and never again after it
\* returned false.
NoVisitAfterFalse ==
    [][\A c \in Call : ended[c] # "no" /\ stopped[c] = FALSE => seen'[c] = seen[c]]_vars

\* Every traversal returns: the flag it waits for goes up, and the workers it
\* waits for end.
RangeReturns ==
    \A c \in UNION {DOMAIN j : j \in Jobs} :
        (c \in Call /\ pc[c] # "new") ~> (c \in Call /\ pc[c] = "returned")
===============================================================================
