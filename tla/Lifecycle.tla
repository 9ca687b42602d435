------------------------------- MODULE Lifecycle -------------------------------
(***************************************************************************)
(* A map from its options to the end of its background cleaner: Builder    *)
(* and Option functions, New, NewTyped and NewTypedSized; cleanupLoop and  *)
(* Close of Map and of TypedMap; the start of TypedMap's cleaner by the    *)
(* first write with a limit.                                               *)
(*                                                                         *)
(* Until the map is built one goroutine sets options.  Then closers call   *)
(* Close and writers write entries with limits, at any time.  Steps are    *)
(* the operations on the atomic flags and the channels.                    *)
(***************************************************************************)
EXTENDS MapConfig, Sequences, FiniteSets

CONSTANTS
    Closer,         \* goroutines that call Close, once each
    Writer,         \* goroutines that write an entry with a limit, once each
    ProcsSet,       \* what GOMAXPROCS may be
    Capacities, Counts, Loads, Intervals, Chunks,   \* the options' arguments
    Expected,       \* the arguments of RecommendedShardCount
    MaxOptions      \* the bound on the number of options

\* The options take ints and a float.
ASSUME OptionsAssumption ==
    /\ ProcsSet \subseteq Nat \ {0}
    /\ Capacities \cup Counts \cup Intervals \cup Chunks \cup Expected \subseteq Int
    /\ Loads \subseteq {NaN} \cup Int

VARIABLES
    procs,      \* runtime.GOMAXPROCS(0)
    maker,      \* the constructor that will be called
    cfg,        \* the options so far, <<>> when the map is built
    options,    \* how many of them have been given
    asked,      \* what RecommendedShardCount was asked, if its answer is in cfg
    m,          \* the map, or <<>> before it is built
    started,    \* cleanerStarted; a Map's cleaner is started by New
    loops,      \* the goroutines in cleanupLoop
    stop, done, \* how often stopCleanup and cleanupDone have been closed
    closed,     \* cleanupClosed
    closer,     \* where each closer is
    writer,     \* where each writer is
    dirty,      \* whether some entry's limit is reached and nobody removed it
    late        \* whether a cleaner was started after Close had closed stop

building == <<procs, maker, cfg, options, asked, m>>
cleaner == <<started, loops, late>>
channels == <<stop, done>>
calls == <<closed, closer, writer, dirty>>
vars == <<building, cleaner, channels, calls>>

Init ==
    /\ procs \in ProcsSet
    /\ maker \in {"New", "NewTyped", "NewTypedSized"}
    /\ cfg = IF maker = "NewTyped" THEN [DefaultConfig EXCEPT !.capacity = 64] ELSE DefaultConfig
    /\ options = 0 /\ asked = 0
    /\ m = <<>>
    /\ started = FALSE /\ loops = <<>> /\ late = FALSE
    /\ stop = 0 /\ done = 0
    /\ closed = FALSE
    /\ closer = [c \in Closer |-> "idle"]
    /\ writer = [w \in Writer |-> "idle"]
    /\ dirty = FALSE
-------------------------------------------------------------------------------
(***************************************************************************)
(* The options, by Builder's methods or by Option functions.               *)
(***************************************************************************)
Option ==
    /\ m = <<>> /\ options < MaxOptions
    /\ options' = options + 1
    /\ UNCHANGED <<procs, maker, m, cleaner, channels, calls>>

SetCapacity == Option /\ UNCHANGED asked /\ \E n \in Capacities : cfg' = [cfg EXCEPT !.capacity = n]
SetShards == Option /\ asked' = 0 /\ \E n \in Counts : cfg' = [cfg EXCEPT !.shardCount = n]
SetLoadFactor == Option /\ UNCHANGED asked /\ \E l \in Loads : cfg' = [cfg EXCEPT !.loadFactor = l]
SetCleanupInterval ==
    Option /\ UNCHANGED asked /\ \E i \in Intervals : cfg' = [cfg EXCEPT !.cleanupInterval = i]
SetValueCloner ==
    Option /\ UNCHANGED asked /\ \E f \in {"default", "nil", "custom"} : cfg' = [cfg EXCEPT !.cloneValue = f]
SetPrealloc == Option /\ UNCHANGED asked /\ \E n \in Chunks : cfg' = [cfg EXCEPT !.prealloc = n]
\* The answer of RecommendedShardCount as a shard count.
SetRecommended ==
    /\ Option
    /\ \E e \in Expected :
         asked' = e /\ cfg' = [cfg EXCEPT !.shardCount = RecommendedShardCount(e, procs)]

\* The configuration is gone when the constructor has returned.
Built(map) == m' = map /\ cfg' = <<>> /\ options' = 0 /\ asked' = 0 /\ UNCHANGED <<procs, maker>>
NewLoop == [pc |-> "select", tick |-> FALSE]

\* New starts the cleaner.
New ==
    /\ m = <<>> /\ maker = "New"
    /\ Built(NewMap(Normalize(cfg)))
    /\ started' = (m'.interval > 0)
    /\ loops' = IF started' THEN <<NewLoop>> ELSE <<>>
    /\ UNCHANGED <<late, channels, calls>>

\* The arguments of NewTypedSized override the options.
NewTyped ==
    /\ m = <<>>
    /\ \/ maker = "NewTyped" /\ Built(NewTypedMap(Normalize(cfg)))
       \/ /\ maker = "NewTypedSized"
          /\ \E n \in Capacities, s \in Counts :
               Built(NewTypedMap(Normalize([cfg EXCEPT !.capacity = n, !.shardCount = s])))
    /\ UNCHANGED <<cleaner, channels, calls>>

HasCleaner == m # <<>> /\ m.interval > 0
-------------------------------------------------------------------------------
(***************************************************************************)
(* cleanupLoop.                                                            *)
(***************************************************************************)
MoveLoop(l, pc) == loops' = [loops EXCEPT ![l].pc = pc]

\* The ticker sends; its channel holds one tick.
Tick(l) ==
    /\ loops[l].pc # "ended" /\ ~loops[l].tick
    /\ loops' = [loops EXCEPT ![l].tick = TRUE]
    /\ UNCHANGED <<building, started, late, channels, calls>>

SelectTick(l) ==
    /\ loops[l].pc = "select" /\ loops[l].tick
    /\ loops' = [loops EXCEPT ![l] = [pc |-> "clean", tick |-> FALSE]]
    /\ UNCHANGED <<building, started, late, channels, calls>>

\* CleanupNow: every shard, one that panics included.
CleanupNow(l) ==
    /\ loops[l].pc = "clean"
    /\ MoveLoop(l, "select")
    /\ dirty' = FALSE
    /\ UNCHANGED <<building, started, late, channels, closed, closer, writer>>

\* Mutant: a break, which leaves the select and not the loop.
SelectStopBreaks(l) ==
    /\ loops[l].pc = "select" /\ stop > 0
    /\ UNCHANGED vars

\* The closed channel is ready, for good; of two ready channels select takes
\* either.  The deferred close of cleanupDone.
SelectStop(l) ==
    /\ loops[l].pc = "select" /\ stop > 0
    /\ MoveLoop(l, "ended")
    /\ done' = done + 1
    /\ UNCHANGED <<building, started, late, stop, calls>>
-------------------------------------------------------------------------------
(***************************************************************************)
(* Close.                                                                  *)
(***************************************************************************)
MoveCloser(c, pc) == closer' = [closer EXCEPT ![c] = pc]

\* Mutant: the flag is loaded, and set with the channel.
CloseBeginLoad(c) ==
    /\ m # <<>> /\ closer[c] = "idle"
    /\ MoveCloser(c, IF HasCleaner /\ stop = 0 THEN "close" ELSE "returned")
    /\ closed' = (closed \/ HasCleaner)
    /\ UNCHANGED <<building, cleaner, channels, writer, dirty>>

\* Without a cleaner there is nothing to do; only one Close gets past the
\* CompareAndSwap, and the others return.
CloseBegin(c) ==
    /\ m # <<>> /\ closer[c] = "idle"
    /\ MoveCloser(c, IF HasCleaner /\ ~closed THEN "close" ELSE "returned")
    /\ closed' = (closed \/ HasCleaner)
    /\ UNCHANGED <<building, cleaner, channels, writer, dirty>>

\* Mutant: Close does not wait.
CloseStopOnly(c) ==
    /\ closer[c] = "close"
    /\ stop' = stop + 1
    /\ MoveCloser(c, "closed")
    /\ UNCHANGED <<building, cleaner, done, closed, writer, dirty>>

CloseStop(c) ==
    /\ closer[c] = "close"
    /\ stop' = stop + 1
    /\ MoveCloser(c, IF m.typed THEN "load" ELSE "wait")
    /\ UNCHANGED <<building, cleaner, done, closed, writer, dirty>>

\* Mutant: TypedMap's Close waits as Map's does.
CloseLoadWaits(c) ==
    /\ closer[c] = "load"
    /\ MoveCloser(c, "wait")
    /\ UNCHANGED <<building, cleaner, channels, closed, writer, dirty>>

\* TypedMap: cleanerStarted.Load().
CloseLoad(c) ==
    /\ closer[c] = "load"
    /\ MoveCloser(c, IF started THEN "wait" ELSE "closed")
    /\ UNCHANGED <<building, cleaner, channels, closed, writer, dirty>>

CloseWait(c) ==
    /\ closer[c] = "wait" /\ done > 0
    /\ MoveCloser(c, "closed")
    /\ UNCHANGED <<building, cleaner, channels, closed, writer, dirty>>
-------------------------------------------------------------------------------
(***************************************************************************)
(* Writes with a limit.                                                    *)
(***************************************************************************)
\* Mutant: the write does not think of the cleaner.
MaybeStartCleanerForgotten(w) ==
    /\ m # <<>> /\ m.typed /\ writer[w] = "idle"
    /\ writer' = [writer EXCEPT ![w] = "store"]
    /\ UNCHANGED <<building, cleaner, channels, closed, closer, dirty>>

\* putMeta and its siblings start TypedMap's cleaner before they write.
MaybeStartCleaner(w) ==
    /\ m # <<>> /\ m.typed /\ writer[w] = "idle"
    /\ writer' = [writer EXCEPT ![w] = "store"]
    /\ IF HasCleaner /\ ~started
       THEN started' = TRUE /\ loops' = Append(loops, NewLoop) /\ late' = (stop > 0)
       ELSE UNCHANGED cleaner
    /\ UNCHANGED <<building, channels, closed, closer, dirty>>

\* The entry is there, and its limit is reached before anyone reads it.
StoreLimited(w) ==
    /\ m # <<>> /\ writer[w] = IF m.typed THEN "store" ELSE "idle"
    /\ writer' = [writer EXCEPT ![w] = "returned"]
    /\ dirty' = TRUE
    /\ UNCHANGED <<building, cleaner, channels, closed, closer>>
-------------------------------------------------------------------------------
Configure ==
    \/ SetCapacity \/ SetShards \/ SetLoadFactor \/ SetCleanupInterval
    \/ SetValueCloner \/ SetPrealloc \/ SetRecommended
Loop(l) == SelectTick(l) \/ CleanupNow(l) \/ SelectStop(l)
Closing(c) == CloseStop(c) \/ CloseLoad(c) \/ CloseWait(c)

\* Nothing is left to do, and no cleaner runs.
Finished ==
    /\ m # <<>>
    /\ \A c \in Closer : closer[c] \in {"returned", "closed"}
    /\ \A w \in Writer : writer[w] = "returned"
    /\ \A l \in DOMAIN loops : loops[l].pc = "ended"
    /\ UNCHANGED vars

Next ==
    \/ Configure \/ New \/ NewTyped
    \/ \E l \in DOMAIN loops : Tick(l) \/ Loop(l)
    \/ \E c \in Closer : CloseBegin(c) \/ Closing(c)
    \/ \E w \in Writer : MaybeStartCleaner(w) \/ StoreLimited(w)
    \/ Finished

Spec == Init /\ [][Next]_vars

\* The ticker ticks and the cleaner keeps running, and so does a goroutine
\* inside Close.  When both channels are ready select takes each of them with
\* the same probability, so the closed one is not passed over forever.
OfLoop(A(_), l) == l \in DOMAIN loops /\ A(l)
FairSpec ==
    /\ Spec
    /\ \A l \in 1..Cardinality(Writer) :
         /\ WF_vars(OfLoop(Tick, l)) /\ WF_vars(OfLoop(Loop, l)) /\ SF_vars(OfLoop(SelectStop, l))
    /\ \A c \in Closer : WF_vars(Closing(c))
-------------------------------------------------------------------------------
\* Whatever the options: shardMask selects all shards and mask all slots; the
\* even share of the capacity fits in a new table before it is resized
\* (NaN, which normalize does not clamp, aside); and values are stored
\* without a call exactly when no cloner was given (New, newTypedFromConfig).
MapWellFormed ==
    m # <<>> =>
        /\ IsPowerOfTwo(m.shards) /\ IsPowerOfTwo(m.slots)
        /\ m.capacity >= 1 /\ m.growAt < m.slots
        /\ LET share == DivideRoundUp(m.capacity, m.shards)
           IN IF m.typed THEN share < m.growAt ELSE m.loadFactor # NaN => share <= m.growAt
        /\ m.interval >= 0
        /\ ~m.typed => m.cloneValue # "nil" /\ (m.noClone <=> m.cloneValue = "default")

\* RecommendedShardCount's answer is a power of two that normalize keeps, no
\* shard of it is expected to hold less than minShardTargetEntries, and there
\* are no more than maxAutoShards.
RecommendedUseful ==
    asked # 0 =>
        /\ IsPowerOfTwo(cfg.shardCount) /\ cfg.shardCount <= MaxAutoShards
        /\ Normalize(cfg).shardCount = cfg.shardCount
        /\ cfg.shardCount = 1 \/ asked \div cfg.shardCount >= MinShardTargetEntries

\* A channel that is closed twice panics: however many goroutines call Close
\* or start the cleaner, each channel is closed once, and there is one
\* cleaner (the CompareAndSwaps of Close and maybeStartCleaner).
ChannelsClosedOnce == stop <= 1 /\ done <= 1 /\ Len(loops) <= 1

\* When the Close that stopped the cleaner has returned, no pass is running
\* and none will, unless a write started the cleaner after stopCleanup was
\* closed.  A Close that found the flag set promises nothing.
QuietAfterClose ==
    (\E c \in Closer : closer[c] = "closed") /\ ~late =>
        \A l \in DOMAIN loops : loops[l].pc = "ended"

\* Close returns, also when TypedMap never started a cleaner.
CloseReturns ==
    \A c \in Closer : closer[c] \in {"close", "load", "wait"} ~> closer[c] = "closed"

\* Once Close was called no cleaner runs forever, not even one that a later
\* write starts.
Cleaning == \E l \in DOMAIN loops : loops[l].pc # "ended"
CleanerEnds == closed ~> [](Cleaning => <>~Cleaning)

\* An entry whose limit is reached is removed although nobody reads it, as
\* long as the map has a cleaner and is not closed.
LimitedEntryCollected == (dirty /\ HasCleaner) ~> (~dirty \/ closed)
===============================================================================
