# A TLA+ verification of alosmap

alosmap is a concurrent hash map for Go. `Map` maps `Key` (a string or an
int64) to `any`; its readers take no lock, its writers share a gate with each
other, and entries may carry a time to live and a budget of reads. `TypedMap`
is a second, generic map with a mutex per shard.

This directory holds TLA+ modules that model the concurrent core of both maps, the
TLC runs that check them on small instances, and TLAPS proofs, for every instance,
of most of the safety properties. `PROJECT.json` lists the runs, the source lines behind every
definition, the mutants that show that each property can fail, the hazards of
the code and the findings.

## Inventory

| Part | State | Operations | What is hard |
|---|---|---|---|
| write gate (`shard.state`) | one int64: the number of writers, plus bit 62 while a thread rebuilds | `beginWrite`, `beginWriteSlow`, `endWrite`, acquire/wait/release in `resizeAt` and `clear` | the increment of a writer that has to back off; waiting for an exact value; starvation |
| entry and boxes (`entry`, `valueBox`) | `entry.value` points to a box; a simple box has a mutable data word, another box has metadata (expiry, hits, bytes) | every method on a key | two linearization points (data word and pointer); claim and unlink; hits, TTL, tombstones, revival |
| table (`table`) | slots, control words, `growAt`; `live`, `used`, `tombstones` | probe, insert, find, rebuild, clear | slot and control word are two stores; readers hold replaced tables |
| sizing | - | `slotsForEntries`, `shouldShrink`, `shouldResizeWithTable`, `targetSlotCount` | growth and shrinking must agree |
| rebuild and cleanup | the counters, `needsCleanup` | `resizeAt`, `cleanup`, `CleanupNow`, `clear` | counters are overwritten while readers outside the gate add to them |
| bundle slab | a chunk and an offset | `newBundle` | two inserters exhaust a chunk together |
| cleaner | `cleanupClosed`, two channels | `cleanupLoop`, `Close` | a second `Close`; a lazily started cleaner (`TypedMap`) |
| parallel Range | slabs, ready flags, pools, a stop flag | `Range`, `RangePar`, workers | pooled buffers handed back while in use |
| `TypedMap` | slots with tombstones, a value word and a metadata pointer per entry, a mutex per shard | `Store`, `Load`, `Compute`, ... | lock-free readers see value and metadata at different moments |
| construction, keys, hashing, equality, statistics | - | pure or sequential | - |

A method of `Map` hashes its key, picks a shard and works on that shard's
table. Reads go to the table directly. Writes enter the gate, except that
`Store` and `Swap` first try to update a box in place and `Store` also tries to
replace the box, both outside the gate. A write that fills the table, a read
that clears an entry, and the cleaner call `resizeAt`, which closes the gate,
waits for the writers, copies the live entries to a new table and overwrites
the counters. Shards share nothing but what spans the whole map, so most models
are of one shard; `RangePipeline` and `Lifecycle` are of the map.

What makes the parts correct: no write runs while a table is rebuilt; a key has
one entry per table and every probe finds it; the methods on a key are
linearizable; the counters behind `Len` agree with the table; a hit budget is
not exceeded; nothing expired is returned; the cleaner does not overlook an
entry that needs it; every call returns.

## Modules

| Module | Models | Built on |
|---|---|---|
| `WriteGate` | what the gate promises (abstract) | - |
| `ResizeGate` | the state word, one action per atomic operation | implements `WriteGate` |
| `ResizeGateProofs` | the proofs about it | `ResizeGate` |
| `PowersOfTwo`, `Sizing` | the functions that choose table sizes | - |
| `ProbeTable` | slots and control words of one shard with several keys | `Sizing`, the gate of `WriteGate` |
| `ProbeTableProofs` | the proofs about it | `ProbeTable` |
| `EntryState` | one key: its slot, entry, boxes, the counters | the gate of `WriteGate` |
| `EntryReads`, `EntryWrites`, `EntryRebuild` | the methods on that key | `EntryState` |
| `ShardKey` | all of them together, the clock, the properties | the three above |
| `ShardKeyProofs` | the proofs about it | `ShardKey` |
| `TypedShard` | one shard of `TypedMap` with several keys | `PowersOfTwo` |
| `TypedShardProofs` | the proofs about it | `TypedShard`, `InductionFacts` |
| `BundleSlab` | Prealloc: `newBundle` of `Map`, `newEntry` of `TypedMap` | - |
| `BundleSlabProofs` | the proofs about it | `BundleSlab` |
| `RangePipeline` | `Range`, `Snapshot`, `RangePar` over several shards | - |
| `InductionFacts` | sums, concatenations, powers of two and remainders, by induction | `PowersOfTwo` |
| `RangePipelineProofs` | the proofs about it | `RangePipeline`, `InductionFacts` |
| `MapConfig` | `normalize`, the sizes of the first tables, `RecommendedShardCount` | `Sizing` |
| `Lifecycle` | options, constructors, the background cleaner, `Close` | `MapConfig` |
| `LifecycleProofs` | the proofs about construction and closing | `Lifecycle`, `InductionFacts` |

`MCResizeGate`, `MCProbeTable`, `MCShardKey`, `MCTypedShard`, `MCRangePipeline` and
`MCLifecycle` give the constants their values.

### ResizeGate

`state` is the word; `pc` says where each goroutine is. `BeginWrite` is the
`Add(1)`, `BackOff` the `Add(-1)` of a writer that saw the resize bit,
`SpinEnds` the end of the loop in `beginWriteSlow`. `ResizeLoad`/`ResizeCAS`
and `ClearLoad`/`ClearCAS` are the two ways to take the bit: `resizeAt` gives
up, `clear` tries again. `Drain` is the wait for `state == shardResizing`.
`WriteGate` sees a thread as a writer only once `beginWrite` has returned, so
the increments that are taken back are invisible to it.

### EntryState, EntryReads, EntryWrites, EntryRebuild, ShardKey

A call is one invocation of a method, with the steps of the code between its
invocation and its return. A call publishes at most one entry and one box, so
both carry its name; `Zero` names those of a call that ended before. `slot` and
`ctrl` are the key's slot in the current table and whether its control word is
set; `value`, `data`, `hits`, `exp` are the fields of entries and boxes. `th`
holds the locals: the program counter, the entry, box and data word the code
has in its variables, and where it continues after `clearIfMatch`.

The steps follow the atomic operations of the code; the comment at the top of
`EntryState` says which are joined and why. The main joins are inside the gate:
a CompareAndSwap with the additions to the counters that follow it (additions
commute, and whoever overwrites the counters waits for the writer first), and
the leaving of the gate with the step before it. Outside the gate, where a
rebuild can overwrite the counters between the two, they are separate steps.
The counters of one `clearIfMatch`, and those a rebuild stores, change in one step
each; `resize` reads the clock when it takes the bit and `loadOrStoreSlow` when it
publishes its box, where the code does so a little earlier. A table without a free
slot, which makes a writer leave, resize and start again, is `ProbeTable`'s
(`Full`). Of two values compared, the expected one decides whether `EqualForMap`
panics. Values are compared by identity and
a data word is the value it points to, which makes two boxes of equal small
values equal words, as Go's interface representation does for constants;
storing a nil interface is left out. What the other keys of the shard do to the
table is a free choice: `EndWrite` and `MaybeResize` may or may not lead to a
resize, and a resize may find that it is no longer needed.

| Code | Actions |
|---|---|
| `Load`, `Get`, `Peek`, `Has`, the slot visit of `Range` | `ReadFind`, `RangeSimple`, `RangeSimpleVal`, `ReadBox`, `ReadVal` |
| `readEntryConsumeHit`, `consumeHit` | `ConsumeHit`, `ConsumeReload` |
| `readEntrySlow` | `ReadSlow` |
| `Store`, `Swap` in place | `FastFind`, `FastBox`, `SwapData` |
| `Store`, second lookup | `InlineFind`, `InlineBox`, `InlineCAS`, `InlineCount` |
| `store`, `storeNewBundle`, `swap`, `insertFresh` | `PutProbe`, `Insert`, `Publish` |
| `replaceOrRevive` | `ReplaceOrRevive`, `Revive`, `ReplaceCAS` |
| `LoadOrStore`, `loadOrStoreDeferred` | `LookupFind`, `LookupBox`, `LookupVal` |
| `loadOrStoreSlow`, `loadOrStoreCurrent` | `PutProbe`, `Insert`, `Scan`, `ScanVal`, `BuildBox`, `Revive`, `ReplaceCAS` |
| `delete`, `compareAndDelete` | `GateFind`, `MatchBox`, `MatchVal`, `Claim`, `Unlink` |
| `CompareAndSwap`, `compareAndSwap` | `PreFind`, `PreBox`, `PreVal`, `GateFind`, `MatchBox`, `MatchVal`, `ReplaceData`, `SwapBox` |
| `clearIfMatch`, `maybeResize`, `endWrite` | `ClearIfMatch`, `ClearCount`, `MaybeResize`, `EndWrite` |
| `cleanup`, `resizeAt` | `CleanupStart`, `ResizeTry`, `Drained`, `Rebuild`, `RebuildCount` |
| `clear` | `ClearAcquire`, `ClearTable`, `RebuildCount` |
| a panic of `EqualForMap` or of a cloner | `UserPanics` |

`UserPanics` stands for user code that panics where the map calls it: the call
unwinds, and since `endWrite` is not deferred a writer stays counted in the
gate. From then on whoever takes the resize bit waits for ever, and the writers
with it (`Blocked`). The properties hold of the calls that have ended, and say
that nothing is left half done.

### ProbeTable

`tabs` is the sequence of tables, the last one current; a lookup keeps walking
the table it loaded. An entry stands for its key, and `tombs` are the keys
whose entry has no value. The probe sequence and the fingerprints are
constants; the proofs need only that a probe visits every slot once.
`exc` records, for the properties, what would excuse a lookup for missing its
key. Replacing a live value changes nothing here; that is `ShardKey`'s subject.

### TypedShard

`tabs` is the sequence of tables, `val` and `meta` the two words of an entry,
`hits` and `exp` the fields of a metadata record, `mu` the mutex. A value word
is named by the call that stored it, so that a property can tell from which
Store an answer came; comparisons look at the value itself. Readers take one
step per slot and one per word: `Find` (`RangeSlot` for `Range`, `Snapshot`,
`Len`, `Stats` and each goroutine of `RangePar`), `LoadMeta`, `CheckLimit`,
`ConsumeHit`, `LoadVal`. Writers take `Lock`, `Grow` where the table is too
full, one action per method for what it decides (`InsertEntry`, `LockedAbsent`,
`FoundStore`, `FoundLoadOrStore`, `FoundSwap`, `FoundCompute`, `FoundDelete`,
`FoundCompareAndSwap`, `FoundCompareAndDelete`), and then `StoreVal` and
`StoreMeta`, or `RemoveEntry`. `CleanupNow` and `Clear` replace the table under
the mutex. The CompareAndSwaps that the code makes under the mutex cannot fail,
because nobody else writes slots or values, so their retries do not appear.
The function given to `Compute` updates, deletes, cancels or panics; a panic
leaves the mutex locked (`ComputePanics`), and the writers of the shard wait for
ever.

### BundleSlab

A node is a slab and an index. `LoadSlab`, `AddOffset`, `Allocate` and `Install`
are the accesses of `newBundle`: the current slab, the addition to its offset,
a slab of one's own, and the CompareAndSwap that installs it, whose loser
starts again. `NewSingle` is the allocation without Prealloc. `NewEntry` is
`TypedMap`'s, under the mutex, and `ClearChunk` what `Clear` does to its chunk.

### RangePipeline

A call is a method and a map, given by the number of entries in each shard.
`BeginSequential`/`VisitInline`/`NextShard` are the traversal without workers,
`BeginPipeline` to `Join` the calling goroutine of the parallel Range: taking
the two arrays from their pools (`AcquireRangeSlabs`, `AcquireRangeReady`),
waiting for a flag, visiting a slab, waiting for the workers and giving the
arrays back. `CollectShards`, `Flush`, `SetReady`, `Done` are its workers,
`CheckStop` and `VisitDirect` those of the two `RangePar`. A visitor goes on,
returns false or panics; a panic runs the deferred releases and leaves the
workers behind. The slices and the buffers behind them are separate, so that a
buffer that is used again still holds the entries of an earlier call.

### MapConfig, Lifecycle

`MapConfig` holds the functions; a load factor is in hundredths, or `NaN`. In
`Lifecycle` options are set one by one (`SetCapacity`, ...), `New` or `NewTyped`
builds the map, and then closers and writers run beside the cleaner. `Tick` is
the ticker with its channel of one element, `SelectTick`, `CleanupNow` and
`SelectStop` the loop, `CloseBegin` (the CompareAndSwap), `CloseStop`,
`CloseLoad` and `CloseWait` the steps of `Close`, `MaybeStartCleaner` and
`StoreLimited` a write with a limit. A pass over the shards is one step here;
what it does to a shard is `CleanupNow` of the other modules.

## Runs

All runs are exhaustive within their bounds. Symmetry is used over goroutines
and calls where no liveness is checked.

| Run | Instance | Shows |
|---|---|---|
| `gate` | 3 goroutines, any number of writes, resizes and clears each | `GateInv`, `ImplementsWriteGate`; `DrainEnds` and `WriterEnters` under fairness |
| `probe` | 2 goroutines x 2 calls, 3 keys, up to 3 tables | `TablesSound`, `LookupNeedsExcuse`, `CountersExact` |
| `shard` | 3 calls from one of a dozen workloads. Without limits: operations on a key that is absent, a tombstone or present; the same with values of two types; `Swap` and others on a key that stays present; `Has` next to removals; a map with a cloner; user code that panics. With limits: a key with 1 or 2 hits left, or with a TTL and a hit and the clock advancing once | `TypeOK`, `LinearizableOutsideGap`, `CountersExact`, `HitBudget`, `NoExpiredAnswer`, `CleanupNotForgotten` |
| `returns` | 3 calls from one of six workloads, two of them with `Swap` and `CompareAndSwap` to another type next to `Store` and `Delete` | `LinearizableByBox`; `CallsReturn` under fairness |
| `typed` | 3 calls on a shard of `TypedMap`: 16 operations over four tables; Range against writers; limited entries with the clock advancing once | `TypedTablesSound`, `TypedLinearizable`, `TypedHitBudget`, `TypedNoExpiredAnswer`, `TypedStoreStays`, `RangeVisitsOnce` |
| `slab` | 3 goroutines, 4 calls, depths 0 to 2, both maps | `OwnNodes`, `NodesInBounds`; `NewBundleReturns` under fairness |
| `range` | every method on maps of 1 to 3 shards and up to 5 entries; two calls that share the pools | `EachEntryOnce`, `ArraysOwned`, `StopIsPrompt`, `NoVisitAfterFalse`; `RangeReturns` under fairness |
| `lifecycle` | up to 2 options on both sides of every comparison, 2 closers, 2 writers | `MapWellFormed`, `RecommendedUseful`, `ChannelsClosedOnce`, `QuietAfterClose`; `CloseReturns`, `CleanerEnds`, `LimitedEntryCollected` under fairness |

*Bounds.* Three calls are a writer, an operation it races with, and a rebuild
or an observer that exposes the race; each behaviour starts from a state left
by one more call. Three goroutines at the gate are one that rebuilds, one
inside and one that arrives. In `probe` two keys share a home slot and two a
fingerprint, tables start with 2 slots (the code's 32 scaled down; the ratios
of growth and shrinking are the code's), so that chains wrap, tables fill up
and grow, and `MaxTables` lets a lookup be overtaken by two rebuilds. One tick
of the clock separates "before expiry" from "after". In `typed` the tables have
the code's 8 slots; two keys share a home slot at the end, so that their chain
wraps, and three more bring the table to the point where it grows. The tables
the calls find are ones that earlier calls can leave: chains with and without
tombstones, a table of tombstones, one that is due to grow. In `slab` four calls
exhaust a slab of two and install the next twice. In `range` the thresholds of
the code (1024 entries, 2048 per worker, pooled arrays of 64, 8 spare places)
are scaled down to 3, 2, 1 and 0, so that maps with three entries have workers,
the chunks are unequal, arrays are too short and buffers too small.

*Linearizable* says that the answers and the final content are those of some
sequential order that respects real time, checked against `After` and
`Answers`, the sequential meaning of each method. `LinearizableOutsideGap`
excepts behaviours in which a lookup ran into the interval between the
CompareAndSwap of a slot and the store of its control word, or a `Has` found a
box that a removal had claimed; both are described under Findings.
`LinearizableByBox` is what remains where `Swap` and `CompareAndSwap` replace a box
through its pointer after a look at its data word (`replaceOrRevive`,
`compareAndSwap`): all calls have an order as before, except that such a call may
have answered for an older content, of a moment since it began, if the key has kept
its box from then on, so that only values of its type or a removal came in between.
The mutant that stores the box instead of comparing the pointer breaks it.
`NoExpiredAnswer` excepts the Load that has found its box replaced in
`readEntryConsumeHit` and gone on with the other one (`again`), also under
Findings.

*Fairness.* Weak fairness of each goroutine's steps inside a call, and none for
beginning one. Go's scheduler is preemptive, and the spin loops call `Gosched`.
In `range` it is weaker: some goroutine that can go on does. In `lifecycle` the
ticker and the cleaner are weakly fair, and the branch of `select` that receives
from the closed channel strongly: Go chooses among ready branches at random, so
it is not passed over for ever.

### Findings

Four runs end in a violation; each checks one sentence of the documentation.

| Run | What the code does |
|---|---|
| `shape_cas` | `CompareAndSwap` to another type overwrites a value different from `oldValue`. |
| `lost_store` | `Store` over an entry with a hit limit lands on an entry that a rebuild has dropped. |
| `nil_meta` | `Load` of an entry with a hit limit, raced by a plain `Store`, dereferences nil metadata. |
| `len_drift` | A read that clears an expired entry during a rebuild leaves `live` at -1. |

Other disagreements are part of the models and have no run of their own:

- A stored key can be reported absent while an insertion of another key stands
  between its slot and its control word (map.go:2229-2230); `LookupNeedsExcuse`
  says that nothing else makes a lookup miss.
- `Has` (map.go:1050) does not look whether a box has been claimed, and can be
  true after a `Load` has seen the key deleted.
- `replaceOrRevive` (map.go:2325) has the window of `shape_cas`: a `Swap` to
  another type, or to a key that its first lookup found absent, reads the data
  word and then CompareAndSwaps the box pointer, so it can return a value that an
  in-place `Store` has already replaced, or that a `Delete` has returned too.
  `LinearizableByBox` says that nothing else goes wrong.
- The loop of `readEntryConsumeHit` that panics in `nil_meta` (map.go:1579) does
  not look at the TTL of the box it goes on with either. A key has one hit left
  and a `StoreWithOptions` has built its box with a TTL of 1; the clock reaches
  that expiry; a `Load` begins and finds the old box, another takes its last
  hit, the store replaces it; the `Load` fails to clear the old box, loads the
  new box and answers from it although it has expired. map.go:900-901 says
  "Expired entries and exhausted hit-limited entries are treated as absent".
- `Len` (map.go:1276) counts expired entries that no call has touched, although
  its comment says otherwise; `valueBytes` is adjusted outside the gate
  (map.go:829) and a rebuild in between leaves it wrong.
- The comment of `RangePar` (map.go:1390-1391) promises that workers notice a
  stop at the next slot boundary; they look between shards (rangefast.go:117).
  `StopIsPrompt` states what holds.
- A visitor of `Range` that panics returns the pooled arrays while workers still
  write to them (map.go:1375); `EachEntryOnce` and `ArraysOwned` except it.
- A load factor of NaN is not clamped (map.go:671). `NewTyped` ignores
  `WithPrealloc` and calls every option, so that a nil one, which `New` skips,
  panics. The comment of `NewTypedSized` lets the map choose a shard count from
  capacity and GOMAXPROCS; `normalize` takes 32. A comment in typedmap_ext.go
  (588-589) says that `TypedMap` has no background cleanup; `maybeStartCleaner`
  starts it.

In `TypedMap` a Load that overlaps a Store can answer the new value on the
strength of the old metadata, and so take no hit from its budget. The
properties of `typed` therefore speak of the calls that begin after the Store
has returned; for these the order of the two words (a writer stores value, then
metadata; a reader loads metadata, then value) is enough.

## Proofs

`ResizeGateProofs` proves, for any finite set of goroutines and any
`ShardResizing` larger than their number (the assumptions of `ResizeGate`):

- `GateInvariant`: `Spec => []GateInv`. `GateInv` is inductive: the word equals
  the number of threads that have added 1 to it plus `ShardResizing` if some
  thread owns the bit (`StateWord`), a word that passed the test before a
  CompareAndSwap had the bit clear (`LoadedWordIsClear`), and there is one
  owner. `RebuildExcludesWriters` alone is not inductive: it needs `StateWord`
  to conclude from `state = ShardResizing` that nobody is counted, and
  `LoadedWordIsClear` with it to conclude that a successful CompareAndSwap
  found no owner. The lemmas `CountChange` and `OwnerChange` say how the sets
  behind `StateWord` change when one thread moves.
- `RebuildIsExclusive`: while the table is rebuilt no thread is inside a write.
- `WordImplementsGate`: every step is a step of `WriteGate` or a stutter.
  `ProbeTable` and `ShardKey` are written on that gate.

`BundleSlabProofs` proves, for any set of goroutines, any depths and any number
of calls:

- `NodesAreOwn`: `Spec => []OwnNodes`, no node is handed out twice;
- `NodesStayInside`: `Spec => []NodesInBounds`;
- `SlabTypes`: `Spec => []TypeOK`.

`OwnNodes` is not inductive. `SlabInv` adds that the nodes handed out of a slab
lie below the offset from which the next is taken (`BelowMark`), which makes the
node of an addition new; that a slab which is not installed yet is known to its
allocator alone and its offset is 1 (`FreshIsPrivate`), which makes the node of
an installation new; and that the loop is only ever run by a `Map` with Prealloc
(`LoopOfMap`), by goroutines that have a slab to add to (`AddHasSlab`). TLC checks
`SlabInv` on the instance of `slab`. One lemma per action shows that the step
keeps it; `GiveNew` is the fact they share, that a node nobody has keeps the sets
disjoint and counted.

`ProbeTableProofs` proves, for any keys, goroutines, table sizes and load factor,
any fingerprints other than 0 and any probe that meets every slot once
(`ProbeAssumption`, which is `(hash + d) & mask` below the length):

- `ProbeTablesSound`: `Spec => []TablesSound`, for replaced tables and the one
  being filled as well as the current one;
- `LookupsFind`: `Spec => []LookupNeedsExcuse`, where the excuses are that the key
  was absent at some moment, or that some insertion stood between slot and control
  word; a replaced table is none;
- `CountersAreExact`: `Spec => []CountersExact`.

`ProbeInv` adds to `TablesSound` what makes it inductive: the slots an insertion
has passed hold other keys (`Chained`), so that where it succeeds it neither
repeats its key nor leaves a hole before it; the table a rebuild fills holds the
live keys of the slots it has passed (`Copying`), and nobody is inside the gate
meanwhile (`Gated`); only an insertion in progress leaves a slot without its
control word (`Words`, `Placed`, `OnePublisher`). For `LookupNeedsExcuse` a lookup
without an excuse has its key still ahead of it, with every control word up to
there set (`Witnessed`, over `Ahead`); that holds on replaced tables too, since
no slot or control word is ever taken back (`TabsGrow`). The counters count
published keys and tombstones at every step (`Counted`).

`LifecycleProofs` proves, for any closers and writers and whatever the options
(`OptionsAssumption`: they are integers, which do not overflow, and a load factor
in whole hundredths or NaN, and GOMAXPROCS is positive):

- `ChannelsCloseOnce`: `Spec => []ChannelsClosedOnce`;
- `CleanerEndsBeforeClose`: `Spec => []QuietAfterClose`;
- `MapsAreWellFormed`: `Spec => []MapWellFormed`; that the share of a shard fits
  in its table is not said of a `Map` whose load factor is NaN;
- `RecommendedIsUseful`: `Spec => []RecommendedUseful`.

`LifeInv` says that one goroutine at most is past
the CompareAndSwap of `Close` and it alone closes `stopCleanup` (`OneWinner`), that
there is one loop exactly when `cleanerStarted` is set and `cleanupDone` is closed
when it has ended (`OneCleaner`), and that a `Close` that is over has waited for the
loop, or the loop was started later (`Waited`). `OptionsInv` follows the options to
the constructor. The work is in the arithmetic: a table of `SlotsForEntries` has
room below `growAt` for its entries whatever load factor from 50 to 90 normalize
lets through (`RoomForEntries`, two roundings in opposite directions), `TypedRoom`
is the same for the 3/4 of `TypedMap`, and `FloorFacts` and `RecommendedFacts` bound
the shard counts. They rest on `NextPowerFacts` of `InductionFacts`.

`RangePipelineProofs` proves, for any number of concurrent calls on maps of any
size, any number of processors and any thresholds:

- `EachEntryVisitedOnce`: `Spec => []EachEntryOnce`;
- `ArraysAreOwned`: `Spec => []ArraysOwned`;
- `StopsPromptly`: `Spec => []StopIsPrompt`;
- `NoVisitAfterFalseHolds`: `Spec => NoVisitAfterFalse`, an action property.

There are two invariants. `PipeInv` is about control: at which labels a call and
its workers can be together, which arrays a call holds and that nobody else has
them (`Owned`), what a worker visits after the stop (`Late`). `EntryInv` is about
content and promises nothing once a visitor has panicked: the buffers behind
different slabs are different (`Separate`), a worker that has collected holds
exactly the entries of its chunk (`Collecting`), and how often each entry has been
visited follows from where the caller and the workers stand (`Counted`). That the
chunks partition the shards and the concatenation of the shards' entries has each
entry once are facts about recursive functions. The induction they need is in
`InductionFacts`, stated for sets of numbers (`SetInduction`: what is proved of n
is that n belongs to a set), which the provers can instantiate; it rests on the
least element of a set of naturals. `Recursion` proves that a function defined by
recursion on the numbers exists and satisfies its equation; the powers of two
(`PowerFacts`, `NextPowerFacts`) follow from it, and `RemaindersReached`, that
`(hash + d) % size` meets every slot, is proved there too.

`ShardKeyProofs` proves, for any number of calls of any of the sixteen methods
on a key, any values, types, limits and clock, with or without a cloner, and with
user code that panics (`NamesAssumption`, `ClonerAssumption` and
`WorkloadsAssumption`, which say that names differ and that only the methods with
options apply limits):

- `LenIsExact`: `Spec => []CountersExact`;
- `HitsAreBudgeted`: `Spec => []HitBudget`;
- `AnswersAreFresh`: `Spec => []NoExpiredAnswer`;
- `CleanerIsTold`: `Spec => []CleanupNotForgotten`;
- `ShardTypes`: `Spec => []TypeOK`;
- `OrderlyCallsAreLinearizable`: `Spec => [](Orderly => LinearizableOutsideGap)`.

None of the first four is inductive: each speaks of calls that have ended. The
invariant `Inv` (`ShardInvariant`) says of every call which method can be at its
label (`KindOK`), where it goes after `clearIfMatch` (`PathsOK`), that it holds
the entry and the box it is about to use (`HoldsOK`), that inside the gate it works
on the entry in the slot and that a rebuild is alone (`GateOK`), and that a box whose
limits it has looked at had not expired when it began (`FreshOK`). Of the shared
state it says:

- `CountOK` (no limits): live and used are those of the slot, less an insertion
  that has set its slot and has still to add (`Inserting`), except while a rebuild
  has replaced the table and has still to store the counters (`Recounting`), and
  then it holds the right numbers in its locals. Where entries have limits this is
  false, as `len_drift` shows, which is why `CountersExact` excludes them.
- `BudgetOK`: the Loads answered from a box and the hits it has left are together
  no more than its limit. It needs `LimitsOK`, that the counter of a limited box
  is never 0, which the code would take for "no limit", and `LoadOK`, that no
  Load reads a limited box without taking a hit.
- `FlagOK`: when the box in the slot has a limit, `needsCleanup` is set or the
  insertion that will set it is in progress; a rebuild that will overwrite the flag
  has seen the entry.
- `Published`: a call stores its box as its last act on the entry, so a box that
  is reachable no longer changes its limits.

One lemma per action shows that it keeps `Inv`. Most steps are quiet: they move
one call and change at most the gate and data words (`Quiet`, `QuietKeeps`). The
others change what an entry points to (`PointKeeps`, `GatePoints`), the limits of a box
that is not published (`ExpKeeps`), or the table, by the owner of the gate
(`OwnerKeeps`). TLC has checked `Inv` on the workloads of `shard`.

*Linearizability of `Map`.* It does not hold of every workload: `shape_cas` refutes
it, and so does a `Swap` to another type, or to a key that its first lookup found
absent, next to in-place stores and removals (Findings). `Orderly` says where it
holds, and every workload without limits of `shard` is orderly: there are no limits
and no nil values, and there may be a cloner, which gives some values metadata and
leaves others plain; a `CompareAndSwap` from a plain value keeps its type and stays
plain, or it could overwrite another value than it compared with; and `Swap` is only
called where all values have metadata, so that boxes are replaced as a whole, or on
a key that stays present with plain values of one type (`Lasting`). The theorem says that on such a workload the answers
of any number of calls of any kind without limits, and the final content, have a
sequential order. Three invariants carry it, on top of `Inv`:

- `TraceInv`: what a call still knows of the box it has looked at. A claimed box
  stays claimed, a box with metadata keeps its word, a box has one type, and no two
  entries point to the same box (`BoxesOK`).
- `StaysInv`: where the key stays present, every `Swap` finds its box at the first
  lookup and replaces the word.
- `LinInv`: there is an order of the calls that have taken effect, with the
  contents between them, in which each call has its answer and follows those that
  had ended before it began (`Explained`). It also says where in that order each
  box has its present word (`PosOK`): the box in the slot at the end, any other
  just before the `Store` or `Clear` that replaced it, at a place of its own.

A call is put into the order at the step with which it takes effect, but often
not at its end. A `Store` into a box that is no longer in the table goes where the
box's word was the content, before the call that replaced the box, whose answer does
not depend on what it replaces (`Steady`). The same place serves a claim of such a box
and a `Store` that replaces the box of an entry that a rebuild or `Clear` has taken
away. A read, or a `CompareAndSwap` that fails, goes to a place since it began where
the content was what it saw (`Known`). `AccountInsert` says once that a call that
fits at a place (`Fits`) can be put there and leaves the order right; `JoinKeeps`,
`LastKeeps` and `AsideKeeps` keep the rest of `Explained` for the calls put before the
word of a box, at the end, and anywhere without an effect. One lemma per action
chooses among them (`Carries`). TLC has checked the three invariants with up to
three calls, `LinInv` with two, where it enumerated orders and places.

`TypedShardProofs` proves, for any number of calls of any method of `TypedMap` on
any number of keys, any hashes, any sound table as the start, and any clock
(`TypedNamesAssumption`, `WorkloadsAssumption` and the others of `TypedShard`):

- `TypedTablesAreSound`: `Spec => []TypedTablesSound`;
- `TypedHitsAreBounded`: `Spec => []TypedHitBudget`;
- `TypedExpiredIsAbsent`: `Spec => []TypedNoExpiredAnswer`;
- `TypedStoresStay`: `Spec => []TypedStoreStays`;
- `TypedRangesVisitOnce`: `Spec => []RangeVisitsOnce`;
- `TypedCallsAreLinearizable`: `Spec => []TypedLinearizable`, for the methods on
  one key and `Clear` of a shard; what `Range` and its like visit is not an answer
  there.

None of the six is inductive. Five invariants carry them, each preserved given
the ones before it:

- `ShapeInv`: every table, the ones that readers still hold as well as the current
  one, has an empty slot and each entry where a probe for its key stops (`Sound`).
  Tombstones make this delicate: an insertion may use the first tombstone it
  passed only because its probe went on to the empty slot and found no entry of
  the key, and the slot of an entry may become a tombstone but never empty,
  because other chains pass it. `HoldsOK` says that the call that holds the mutex
  is still looking at what the probe of the current table finds. A rebuild keeps
  the live entries, and there is room for them because growth starts at 3/4 full.
- `LimitInv`: the value and the metadata of an entry belong together, except
  between `StoreVal` and `StoreMeta` of the call that holds the mutex (`PairsOK`);
  what a call knows of a value that was there before it began is the metadata of
  that very value (`KnowsOK`), which is why reading the metadata first is right;
  and the Loads that a hit has paid for and the hits that are left are together no
  more than the limit (`BudgetOK`).
- `StaysInv`: the entry of a finished Store without limits is the one that a probe
  finds and has no metadata, if the other calls are of kinds that keep a value.
- `VisitInv`: the entry of a key that nobody writes is in every table, and a Range
  has visited it once if it is past the slot the entry has in the table it walks,
  and not at all before.
- `LinInv`: without limits there is an order of the calls that have taken effect,
  with the contents of the map between them, in which each call has the answer
  that the contents before it give, follows the calls that had ended when it began,
  and after which the map holds what the current table holds (`Explained`). A writer
  is added at its end: at the step with which it inserts, stores, removes, replaces
  the table or decides to leave it alone. A reader is added when it answers, at a
  place further back: after the last call that had ended when it began, and where
  the contents had the value it answers, or none (`Known`). That there is such a
  place is what `ReadOK` carries along. A lookup that walks a table, the current one
  or one that was replaced since, knows every value that the table has for its
  key; and either the key was absent at some time since the lookup began, or there is
  an entry of it ahead (`Way`). A probe past the tombstone that a removal leaves
  behind it, or past an old table, ends with a value that is stale but was right
  after the lookup began.

`StepMoves` says once what each step does to the table, the entries and the call,
so that each invariant is preserved by the few kinds of moves rather than by every
action again; for `LinInv`, `AccountInsert` says once how a call is put into an order.
TLC has checked the five on the workloads of `typed`, `LinInv` on those without
limits, where the order and the contents were enumerated.

### Only model-checked

- Liveness: `DrainEnds`, `WriterEnters`, `CallsReturn`, `NewBundleReturns`,
  `RangeReturns`, `CloseReturns`, `CleanerEnds`, `LimitedEntryCollected`. Fairness is
  out of the prover's reach.
- `LinearizableOutsideGap` says nothing about operations with limits. Of workloads
  that are not orderly it is not proved, and for the `Swap` and `CompareAndSwap`
  calls named above it is false; `LinearizableByBox`, which covers them, is checked
  by TLC.

## Plan

Done: the modules of the table, and proofs about every one. What could be added
is a proof of `LinearizableByBox`, for which `LinInv` would have to keep, for each
call that has looked at a box, the place where the content was what it saw.

## Not modelled

Hash functions (64-bit multiplications; the map is correct for any hash), key
accessors, `StringSet`, `valuesEqual` (a pure recursion over dynamic types: the
models compare values by identity), prefetch hints, `Stats` and `Len` (sums of
counters that the models have), the seeds, tests and benchmarks. A cloner that
panics before its call has touched the map is left out, since nothing has
happened then. Shard counts whose power of two overflows an int are outside the
bounds of `MapConfig`.
