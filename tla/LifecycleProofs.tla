--------------------------- MODULE LifecycleProofs ---------------------------
(***************************************************************************)
(* For any number of goroutines that call Close and that write, and for    *)
(* any options: stopCleanup and cleanupDone are closed at most once, there *)
(* is one cleaner, and it has ended when the Close that stopped it         *)
(* returns; the map that the options make has masks that select all its    *)
(* shards and slots, room for its entries, and no more shards than         *)
(* RecommendedShardCount found useful.                                     *)
(*                                                                         *)
(* None of these is inductive.  That a second Close cannot close        *)
(* stopCleanup rests on the goroutine that won the CompareAndSwap being    *)
(* the only one past it (OneWinner), and that cleanupDone is closed once   *)
(* on the cleaner being the only one (OneCleaner), which in turn is so     *)
(* because nothing ran before the map was built (BeforeMap).               *)
(* The options are followed from the first to the constructor by           *)
(* OptionsInv, whose arithmetic is that of Sizing for every load factor    *)
(* that normalize lets through, NaN included.                              *)
(***************************************************************************)
EXTENDS Lifecycle, InductionFacts, TLAPS

LoopState == [pc : {"select", "clean", "ended"}, tick : BOOLEAN]

\* Past the CompareAndSwap of Close, and past close(stopCleanup).
Won(c) == closer[c] \in {"close", "load", "wait", "closed"}
Stopped(c) == closer[c] \in {"load", "wait", "closed"}

Ended == \A l \in DOMAIN loops : loops[l].pc = "ended"

TypeOK ==
    /\ started \in BOOLEAN /\ closed \in BOOLEAN /\ late \in BOOLEAN
    /\ stop \in Nat /\ done \in Nat
    /\ loops \in Seq(LoopState)
    /\ closer \in [Closer -> {"idle", "close", "load", "wait", "closed", "returned"}]

\* Nobody closes or writes a map that has not been built.
BeforeMap ==
    m = <<>> => started = FALSE /\ loops = <<>> /\ \A c \in Closer : closer[c] = "idle"

\* The flag was set by one goroutine, and it alone closes stopCleanup.
OneWinner ==
    /\ \A c, d \in Closer : Won(c) /\ Won(d) => c = d
    /\ \A c \in Closer : Won(c) => closed
    /\ stop = 0 => \A c \in Closer : ~Stopped(c)
    /\ stop > 0 => \E c \in Closer : Stopped(c)
    /\ stop <= 1

\* One goroutine runs cleanupLoop when cleanerStarted is set, none before,
\* and it closes cleanupDone as it ends.
OneCleaner ==
    /\ Len(loops) = IF started THEN 1 ELSE 0
    /\ done = IF started /\ Ended THEN 1 ELSE 0

\* Close waits for a cleaner that it saw started; one that it did not see
\* is started later.
Waited == \A c \in Closer : closer[c] = "closed" => late \/ Ended

LifeInv == TypeOK /\ BeforeMap /\ OneWinner /\ OneCleaner /\ Waited

-------------------------------------------------------------------------------
\* A map is not the absence of one.
LEMMA MapIsThere ==
    ASSUME NEW c PROVE NewMap(c) # <<>> /\ NewTypedMap(c) # <<>>
  BY DEF NewMap, NewTypedMap

\* A sequence of one loop has ended when that loop has.
LEMMA OneLoop ==
    ASSUME TypeOK, OneCleaner, NEW l \in DOMAIN loops
    PROVE  started = TRUE /\ l = 1 /\ Len(loops) = 1 /\ loops[1] \in LoopState
           /\ DOMAIN loops = {1}
  BY DEF TypeOK, OneCleaner

\* Before the map is built, and when nothing has begun.
LEMMA LifeInit == Init => LifeInv
<1> SUFFICES ASSUME Init PROVE LifeInv
  OBVIOUS
<1>1. loops = <<>> /\ <<>> \in Seq(LoopState) /\ Len(loops) = 0 /\ DOMAIN loops = {}
  BY EmptySeq DEF Init
<1>2. TypeOK
  BY <1>1 DEF Init, TypeOK
<1>3. OneCleaner
  BY <1>1 DEF Init, OneCleaner
<1>4. OneWinner /\ BeforeMap /\ Waited
  BY <1>1 DEF Init, BeforeMap, OneWinner, Waited, Won, Stopped, Ended
<1>5. QED
  BY <1>2, <1>3, <1>4 DEF LifeInv

\* A step that leaves the cleaner and the channels alone, and closers too.
LEMMA Aside ==
    ASSUME LifeInv, UNCHANGED <<cleaner, channels, closed, closer>>,
           m # <<>> => m' # <<>>
    PROVE  LifeInv'
  BY DEF LifeInv, TypeOK, BeforeMap, OneWinner, OneCleaner, Waited, Won, Stopped, Ended,
         cleaner, channels

\* New starts the cleaner of a Map with an interval.
LEMMA StepNew == ASSUME LifeInv, New PROVE LifeInv'
<1>1. /\ m = <<>> /\ m' # <<>> /\ UNCHANGED <<late, stop, done, closed, closer>>
      /\ started' \in BOOLEAN
  BY MapIsThere DEF New, Built, channels, calls
<1>2. /\ loops = <<>> /\ \A c \in Closer : closer[c] = "idle"
      /\ started = FALSE /\ done = 0 /\ stop = 0
  BY <1>1 DEF LifeInv, TypeOK, BeforeMap, OneWinner, OneCleaner, Stopped
<1>3. /\ NewLoop \in LoopState /\ NewLoop.pc = "select"
  BY DEF NewLoop, LoopState
<1>4. loops' \in Seq(LoopState) /\ Len(loops') = IF started' THEN 1 ELSE 0
  BY <1>3 DEF New
<1>5. started' => DOMAIN loops' = {1} /\ loops'[1].pc = "select"
  BY <1>3 DEF New
<1>6. TypeOK'
  BY <1>1, <1>4 DEF LifeInv, TypeOK
<1>7. BeforeMap' /\ OneWinner' /\ Waited'
  BY <1>1, <1>2 DEF LifeInv, TypeOK, BeforeMap, OneWinner, Waited, Won, Stopped
<1>8. OneCleaner'
  BY <1>1, <1>2, <1>4, <1>5 DEF OneCleaner, Ended
<1>9. QED
  BY <1>6, <1>7, <1>8 DEF LifeInv

\* A loop that runs moves without closing cleanupDone.
LEMMA LoopMoves ==
    ASSUME LifeInv, NEW l \in DOMAIN loops, NEW s \in LoopState,
           loops[l].pc # "ended", s.pc # "ended", loops' = [loops EXCEPT ![l] = s],
           UNCHANGED <<m, started, late, stop, done, closed, closer>>
    PROVE  LifeInv'
<1>1. l = 1 /\ DOMAIN loops = {1} /\ Len(loops) = 1 /\ started = TRUE
  BY OneLoop DEF LifeInv
<1> loops \in Seq(LoopState)
  BY DEF LifeInv, TypeOK
<1>2. /\ loops' \in Seq(LoopState) /\ Len(loops') = 1 /\ DOMAIN loops' = {1} /\ loops'[1] = s
  <2>1. loops' \in Seq(LoopState) /\ Len(loops') = Len(loops) /\ DOMAIN loops' = DOMAIN loops
    BY ExceptSeq
  <2>2. QED
    BY <1>1, <2>1
<1>3. ~Ended /\ ~Ended'
  BY <1>1, <1>2 DEF Ended
<1>4. TypeOK' /\ OneCleaner'
  BY <1>1, <1>2, <1>3 DEF LifeInv, TypeOK, OneCleaner
<1>5. BeforeMap' /\ OneWinner' /\ Waited'
  BY <1>1, <1>3 DEF LifeInv, BeforeMap, OneWinner, Waited, Won, Stopped
<1>6. QED
  BY <1>4, <1>5 DEF LifeInv

\* The select finds stopCleanup closed: cleanupDone is closed.
LEMMA StepSelectStop ==
    ASSUME LifeInv, NEW l \in DOMAIN loops, SelectStop(l) PROVE LifeInv'
<1>1. l = 1 /\ DOMAIN loops = {1} /\ Len(loops) = 1 /\ started = TRUE /\ loops[1] \in LoopState
  BY OneLoop DEF LifeInv
<1>2. /\ loops[1].pc = "select" /\ done' = done + 1
      /\ loops' = [loops EXCEPT ![1].pc = "ended"]
      /\ UNCHANGED <<m, started, late, stop, closed, closer>>
  BY <1>1 DEF SelectStop, MoveLoop, building, calls
<1>3. [loops[1] EXCEPT !.pc = "ended"] \in LoopState
  BY <1>1 DEF LoopState
<1>4. /\ loops' \in Seq(LoopState) /\ Len(loops') = 1 /\ DOMAIN loops' = {1}
      /\ loops'[1].pc = "ended"
  BY <1>1, <1>2, <1>3, SMTT(30) DEF LifeInv, TypeOK
<1>5. ~Ended /\ Ended'
  BY <1>1, <1>2, <1>4 DEF Ended
<1>6. TypeOK' /\ OneCleaner'
  BY <1>1, <1>2, <1>4, <1>5 DEF LifeInv, TypeOK, OneCleaner
<1>7. BeforeMap' /\ OneWinner' /\ Waited'
  BY <1>1, <1>2, <1>5 DEF LifeInv, BeforeMap, OneWinner, Waited, Won, Stopped
<1>8. QED
  BY <1>6, <1>7 DEF LifeInv

\* cleanupLoop, all of it.
LEMMA StepLoop ==
    ASSUME LifeInv, NEW l \in DOMAIN loops, Tick(l) \/ Loop(l) PROVE LifeInv'
<1>1. l = 1 /\ loops[l] \in LoopState
  BY OneLoop DEF LifeInv
<1>2. CASE Tick(l)
  <2>1. [loops[l] EXCEPT !.tick = TRUE] \in LoopState
    BY <1>1 DEF LoopState
  <2>2. [loops[l] EXCEPT !.tick = TRUE].pc = loops[l].pc
    BY <1>1 DEF LoopState
  <2>3. /\ loops' = [loops EXCEPT ![l] = [loops[l] EXCEPT !.tick = TRUE]]
        /\ loops[l].pc # "ended"
        /\ UNCHANGED <<m, started, late, stop, done, closed, closer>>
    BY <1>2 DEF Tick, building, channels, calls
  <2>4. QED
    BY <2>1, <2>2, <2>3, LoopMoves
<1>3. CASE SelectTick(l)
  <2>1. /\ [pc |-> "clean", tick |-> FALSE] \in LoopState
        /\ [pc |-> "clean", tick |-> FALSE].pc = "clean"
    BY DEF LoopState
  <2>2. /\ loops' = [loops EXCEPT ![l] = [pc |-> "clean", tick |-> FALSE]]
        /\ loops[l].pc # "ended"
        /\ UNCHANGED <<m, started, late, stop, done, closed, closer>>
    BY <1>3 DEF SelectTick, building, channels, calls
  <2>3. QED
    BY <2>1, <2>2, LoopMoves
<1>4. CASE CleanupNow(l)
  <2>1. /\ [loops[l] EXCEPT !.pc = "select"] \in LoopState
        /\ [loops[l] EXCEPT !.pc = "select"].pc = "select"
    BY <1>1 DEF LoopState
  <2>2. /\ loops' = [loops EXCEPT ![l] = [loops[l] EXCEPT !.pc = "select"]]
        /\ loops[l].pc # "ended"
        /\ UNCHANGED <<m, started, late, stop, done, closed, closer>>
    BY <1>4 DEF CleanupNow, MoveLoop, building, channels
  <2>3. QED
    BY <2>1, <2>2, LoopMoves
<1>5. CASE SelectStop(l)
  BY <1>5, StepSelectStop
<1>6. QED
  BY <1>2, <1>3, <1>4, <1>5 DEF Loop
-------------------------------------------------------------------------------
\* What a step of Close leaves alone.
LEMMA CloserSteps ==
    ASSUME LifeInv, NEW c \in Closer, NEW pc \in {"close", "load", "wait", "closed", "returned"},
           MoveCloser(c, pc), m # <<>>, UNCHANGED <<m, cleaner>>,
           closed' \in BOOLEAN, stop' \in Nat, done' = done
    PROVE  /\ TypeOK' /\ BeforeMap' /\ OneCleaner' /\ closer'[c] = pc
           /\ \A d \in Closer \ {c} : closer'[d] = closer[d]
           /\ Ended' = Ended
  BY DEF LifeInv, TypeOK, BeforeMap, OneCleaner, Ended, MoveCloser, cleaner

\* One goroutine gets past the CompareAndSwap on cleanupClosed.
LEMMA StepCloseBegin ==
    ASSUME LifeInv, NEW c \in Closer, CloseBegin(c) PROVE LifeInv'
<1> DEFINE pc == IF HasCleaner /\ ~closed THEN "close" ELSE "returned"
<1>1. /\ m # <<>> /\ closer[c] = "idle" /\ MoveCloser(c, pc) /\ UNCHANGED <<m, cleaner, stop, done>>
      /\ pc \in {"close", "returned"}
      /\ pc = "close" => ~closed /\ closed'
      /\ closed => closed'
  BY DEF CloseBegin, building, channels
<1>2. closed' \in BOOLEAN
  BY DEF CloseBegin, HasCleaner, LifeInv, TypeOK
<1> HIDE DEF pc
<1>3. /\ TypeOK' /\ BeforeMap' /\ OneCleaner' /\ closer'[c] = pc
      /\ \A d \in Closer \ {c} : closer'[d] = closer[d]
      /\ Ended' = Ended
  <2>1. stop' \in Nat /\ done' = done
    BY <1>1 DEF LifeInv, TypeOK
  <2>2. QED
    BY <1>1, <1>2, <2>1, CloserSteps
<1>4. \A d \in Closer : ~Stopped(d)' <=> ~Stopped(d)
  BY <1>1, <1>3 DEF Stopped
<1>5. OneWinner'
  <2>1. /\ \A e, d \in Closer : Won(e) /\ Won(d) => e = d
        /\ \A e \in Closer : Won(e) => closed
        /\ stop = 0 => \A e \in Closer : ~Stopped(e)
        /\ stop > 0 => \E e \in Closer : Stopped(e)
        /\ stop <= 1 /\ stop' = stop
    BY <1>1 DEF LifeInv, OneWinner
  <2>2. \A e \in Closer : Won(e)' => closed'
    BY <1>1, <1>3, <2>1 DEF Won
  <2>3. ASSUME NEW e \in Closer, NEW d \in Closer, Won(e)', Won(d)' PROVE e = d
    BY <1>1, <1>3, <2>1, <2>3 DEF Won
  <2>4. QED
    BY <1>4, <2>1, <2>2, <2>3 DEF OneWinner
<1>6. Waited'
  BY <1>1, <1>3 DEF LifeInv, Waited, cleaner
<1>7. QED
  BY <1>3, <1>5, <1>6 DEF LifeInv

\* The winner closes stopCleanup, which no one has closed.
LEMMA StepCloseStop ==
    ASSUME LifeInv, NEW c \in Closer, CloseStop(c) PROVE LifeInv'
<1> DEFINE pc == IF m.typed THEN "load" ELSE "wait"
<1>1. /\ closer[c] = "close" /\ MoveCloser(c, pc) /\ UNCHANGED <<m, cleaner, done, closed>>
      /\ stop' = stop + 1 /\ pc \in {"load", "wait"}
  BY DEF CloseStop, building
<1> HIDE DEF pc
<1>2. \A d \in Closer : Won(d) => d = c
  BY <1>1 DEF LifeInv, OneWinner, Won
<1>3. \A d \in Closer : ~Stopped(d)
  BY <1>1, <1>2 DEF Won, Stopped
<1>4. stop = 0 /\ m # <<>> /\ closed' \in BOOLEAN /\ stop' = 1
  BY <1>1, <1>3 DEF LifeInv, TypeOK, OneWinner, BeforeMap
<1>5. /\ TypeOK' /\ BeforeMap' /\ OneCleaner' /\ closer'[c] = pc
      /\ \A d \in Closer \ {c} : closer'[d] = closer[d]
      /\ Ended' = Ended
  BY <1>1, <1>4, CloserSteps
<1>6. OneWinner'
  BY <1>1, <1>2, <1>4, <1>5 DEF LifeInv, OneWinner, Won, Stopped
<1>7. Waited'
  BY <1>1, <1>5 DEF LifeInv, Waited, cleaner
<1>8. QED
  BY <1>5, <1>6, <1>7 DEF LifeInv

\* Close returns when there was no cleaner, or when it has ended.
LEMMA StepCloseEnd ==
    ASSUME LifeInv, NEW c \in Closer, CloseLoad(c) \/ CloseWait(c) PROVE LifeInv'
<1>1. PICK pc \in {"wait", "closed"} :
        /\ MoveCloser(c, pc) /\ closer[c] \in {"load", "wait"}
        /\ UNCHANGED <<m, cleaner, stop, done, closed>>
        /\ pc = "closed" => started = FALSE \/ done > 0
  <2>1. started \in BOOLEAN
    BY DEF LifeInv, TypeOK
  <2>2. QED
    BY <2>1 DEF CloseLoad, CloseWait, building, channels
<1>2. m # <<>> /\ closed' \in BOOLEAN /\ stop' \in Nat /\ done' = done
  BY <1>1 DEF LifeInv, TypeOK, BeforeMap
<1>3. /\ TypeOK' /\ BeforeMap' /\ OneCleaner' /\ closer'[c] = pc
      /\ \A d \in Closer \ {c} : closer'[d] = closer[d]
      /\ Ended' = Ended
  BY <1>1, <1>2, CloserSteps
<1>4. \A d \in Closer : (Won(d)' <=> Won(d)) /\ (Stopped(d)' <=> Stopped(d))
  BY <1>1, <1>3 DEF Won, Stopped
<1>5. OneWinner'
  BY <1>1, <1>4 DEF LifeInv, OneWinner
<1>6. pc = "closed" => Ended
  <2>1. CASE started = FALSE
    BY <2>1 DEF LifeInv, TypeOK, OneCleaner, Ended
  <2>2. CASE done > 0
    BY <2>2 DEF LifeInv, OneCleaner
  <2>3. QED
    BY <1>1, <2>1, <2>2
<1>7. Waited'
  BY <1>1, <1>3, <1>6 DEF LifeInv, Waited, cleaner
<1>8. QED
  BY <1>3, <1>5, <1>7 DEF LifeInv

\* A write starts the cleaner of a TypedMap, before stopCleanup is closed or
\* after it.
LEMMA StepMaybeStart ==
    ASSUME LifeInv, NEW w \in Writer, MaybeStartCleaner(w) PROVE LifeInv'
<1>1. m # <<>> /\ UNCHANGED <<m, stop, done, closed, closer>>
  BY DEF MaybeStartCleaner, building, channels
<1>2. CASE ~(HasCleaner /\ ~started)
  BY <1>1, <1>2, Aside DEF MaybeStartCleaner, channels
<1>3. CASE HasCleaner /\ ~started
  <2>1. /\ started' = TRUE /\ loops' = Append(loops, NewLoop) /\ late' = (stop > 0)
        /\ started = FALSE
    BY <1>3 DEF MaybeStartCleaner, LifeInv, TypeOK
  <2>2. NewLoop \in LoopState /\ NewLoop.pc = "select"
    BY DEF NewLoop, LoopState
  <2>3. loops \in Seq(LoopState) /\ Len(loops) = 0 /\ done = 0
    BY <2>1 DEF LifeInv, TypeOK, OneCleaner
  <2>4. /\ loops' \in Seq(LoopState) /\ Len(loops') = 1
        /\ DOMAIN loops' = {1} /\ loops'[1] = NewLoop
    BY <2>1, <2>2, <2>3
  <2>5. TypeOK' /\ BeforeMap'
    BY <1>1, <2>1, <2>4 DEF LifeInv, TypeOK, BeforeMap
  <2>6. OneCleaner' /\ OneWinner'
    BY <1>1, <2>1, <2>2, <2>3, <2>4 DEF LifeInv, OneCleaner, OneWinner, Ended, Won, Stopped
  <2>7. Waited'
    <3>1. \A c \in Closer : closer[c] = "closed" => stop > 0
      BY DEF LifeInv, TypeOK, OneWinner, Stopped
    <3>2. QED
      BY <1>1, <2>1, <3>1 DEF Waited
  <2>8. QED
    BY <2>5, <2>6, <2>7 DEF LifeInv
<1>4. QED
  BY <1>2, <1>3
-------------------------------------------------------------------------------
\* Every step.
LEMMA LifeStep == LifeInv /\ [Next]_vars => LifeInv'
<1> SUFFICES ASSUME LifeInv, [Next]_vars PROVE LifeInv'
  OBVIOUS
<1>1. CASE Configure
  BY <1>1, Aside DEF Configure, Option, SetCapacity, SetShards, SetLoadFactor,
     SetCleanupInterval, SetValueCloner, SetPrealloc, SetRecommended, calls
<1>2. CASE NewTyped
  BY <1>2, Aside, MapIsThere DEF NewTyped, Built, calls
<1>3. ASSUME NEW w \in Writer, StoreLimited(w) PROVE LifeInv'
  BY <1>3, Aside DEF StoreLimited, building
<1>4. CASE UNCHANGED vars \/ Finished
  BY <1>4, Aside DEF Finished, vars, building, calls
<1>5. QED
  BY <1>1, <1>2, <1>3, <1>4, StepNew, StepLoop, StepCloseBegin, StepCloseStop, StepCloseEnd,
     StepMaybeStart DEF Next, Closing

\* The invariant implies the two properties.
LEMMA LifeImplies == LifeInv => ChannelsClosedOnce /\ QuietAfterClose
<1> SUFFICES ASSUME LifeInv PROVE ChannelsClosedOnce /\ QuietAfterClose
  OBVIOUS
<1>1. ChannelsClosedOnce
  BY DEF LifeInv, TypeOK, OneWinner, OneCleaner, ChannelsClosedOnce
<1>2. QuietAfterClose
  BY DEF LifeInv, Waited, Ended, QuietAfterClose
<1>3. QED
  BY <1>1, <1>2

\* However many goroutines call Close and start the cleaner, no channel is
\* closed twice, which would panic, and there is never a second cleaner (the
\* CompareAndSwaps of Close and maybeStartCleaner).
THEOREM ChannelsCloseOnce == Spec => []ChannelsClosedOnce
<1>1. Spec => []LifeInv
  BY LifeInit, LifeStep, PTL DEF Spec
<1>2. QED
  BY <1>1, LifeImplies, PTL

\* When the Close that stopped the cleaner has returned the cleaner has
\* ended, or a write started it after stopCleanup was closed.
THEOREM CleanerEndsBeforeClose == Spec => []QuietAfterClose
<1>1. Spec => []LifeInv
  BY LifeInit, LifeStep, PTL DEF Spec
<1>2. QED
  BY <1>1, LifeImplies, PTL

-------------------------------------------------------------------------------
(***************************************************************************)
(* From options to tables.                                                 *)
(***************************************************************************)
\* Quotients, as products.
LEMMA Quotient ==
    ASSUME NEW a \in Int, NEW n \in Nat \ {0}
    PROVE  /\ a \div n \in Int /\ n * (a \div n) <= a /\ a < n * (a \div n) + n
           /\ \A q \in Int : n * q <= a => q <= a \div n
<1> DEFINE d == a \div n
<1>1. d \in Int /\ n * d <= a /\ a < n * d + n
  OBVIOUS
<1> HIDE DEF d
<1>2. ASSUME NEW q \in Int, n * q <= a PROVE q <= d
  <2>1. SUFFICES ASSUME q >= d + 1 PROVE FALSE
    BY <1>1
  <2>2. n * q >= n * (d + 1)
    BY <1>1, <2>1
  <2>3. n * (d + 1) = n * d + n
    BY <1>1
  <2>4. n * q \in Int /\ n * d \in Int
    BY <1>1
  <2>5. QED
    BY <1>1, <1>2, <2>2, <2>3, <2>4
<1>3. QED
  BY <1>1, <1>2 DEF d

\* Sizing has powers of its own, which are the same.
LEMMA SizingIs ==
    ASSUME NEW load \in Nat, NEW v \in Int
    PROVE  /\ TableSizing(load)!GrowAt(v) =
                MaxInt(1, LET g == (v * load) \div 100 IN IF g >= v THEN v - 1 ELSE g)
           /\ TableSizing(load)!SlotsForEntries(v) =
                NextPowerOfTwo(MaxInt(32, (MaxInt(v, 1) * 100 + load - 1) \div load))
<1>1. TableSizing(load)!Power = Power
  BY Zenon DEF TableSizing!Power, Power
<1>2. ASSUME NEW w PROVE TableSizing(load)!NextPowerOfTwo(w) = NextPowerOfTwo(w)
  <2>1. TableSizing(load)!MaxInt(w, 0) = MaxInt(w, 0)
    BY DEF TableSizing!MaxInt, MaxInt
  <2>2. QED
    BY <1>1, <2>1, Zenon DEF TableSizing!NextPowerOfTwo, NextPowerOfTwo
<1>3. TableSizing(load)!GrowAt(v) =
        MaxInt(1, LET g == (v * load) \div 100 IN IF g >= v THEN v - 1 ELSE g)
  BY DEF TableSizing!GrowAt, TableSizing!MaxInt, MaxInt
<1>4. TableSizing(load)!SlotsForEntries(v) =
        NextPowerOfTwo(MaxInt(32, (MaxInt(v, 1) * 100 + load - 1) \div load))
  BY <1>2 DEF TableSizing!SlotsForEntries, TableSizing!MaxInt, MaxInt
<1>5. QED
  BY <1>3, <1>4

\* A new table has room for its entries below growAt, whatever load factor
\* normalize lets through.
LEMMA RoomForEntries ==
    ASSUME NEW load \in 50..90, NEW n \in Nat \ {0}
    PROVE  LET slots == TableSizing(load)!SlotsForEntries(n)
               growAt == TableSizing(load)!GrowAt(slots) IN
           IsPowerOfTwo(slots) /\ growAt < slots /\ n <= growAt
<1> DEFINE q == (n * 100 + load - 1) \div load
           v == MaxInt(32, q)
           slots == NextPowerOfTwo(v)
           g == (slots * load) \div 100
<1>1. TableSizing(load)!SlotsForEntries(n) = slots
  <2>1. MaxInt(n, 1) = n
    BY DEF MaxInt
  <2>2. TableSizing(load)!SlotsForEntries(n) =
          NextPowerOfTwo(MaxInt(32, (MaxInt(n, 1) * 100 + load - 1) \div load))
    BY SizingIs
  <2>3. QED
    BY <2>1, <2>2
<1>2. q \in Int /\ load * q >= n * 100
  <2>1. q \in Int /\ n * 100 + load - 1 < load * q + load
    BY Quotient
  <2> HIDE DEF q
  <2>2. load * q \in Int
    BY <2>1
  <2>3. QED
    BY <2>1, <2>2
<1> HIDE DEF q
<1>3. v \in Int /\ v >= 32 /\ v >= q
  BY <1>2 DEF MaxInt
<1> HIDE DEF v
<1>4. slots \in Nat /\ slots >= v /\ IsPowerOfTwo(slots)
  BY <1>3, NextPowerFacts
<1> HIDE DEF slots
<1>5. load * slots >= load * q /\ slots * load = load * slots
  BY <1>2, <1>3, <1>4
<1>6. slots * load <= slots * 90 /\ slots * load \in Int
  BY <1>4
<1>7. g \in Int /\ n <= g
  <2>1. 100 * n <= slots * load
    BY <1>2, <1>5, <1>6
  <2>2. QED
    BY <1>6, <2>1, Quotient
<1>8. g < slots
  <2>1. 100 * g <= slots * load
    BY <1>6, Quotient
  <2> HIDE DEF g
  <2>2. QED
    BY <1>3, <1>4, <1>6, <1>7, <2>1
<1>9. TableSizing(load)!GrowAt(slots) = g
  <2>1. TableSizing(load)!GrowAt(slots) = MaxInt(1, IF g >= slots THEN slots - 1 ELSE g)
    BY <1>4, SizingIs
  <2> HIDE DEF g
  <2>2. QED
    BY <1>4, <1>7, <1>8, <2>1 DEF MaxInt
<1> HIDE DEF g
<1>10. QED
  BY <1>1, <1>4, <1>7, <1>8, <1>9

\* The share of a shard is rounded up.
LEMMA ShareFacts ==
    ASSUME NEW c \in Nat \ {0}, NEW n \in Nat \ {0}
    PROVE  /\ DivideRoundUp(c, n) \in Nat \ {0} /\ c \div n \in Nat
           /\ DivideRoundUp(c, n) <= (c \div n) + 1
<1> DEFINE d == c \div n
           r == DivideRoundUp(c, n)
<1>1. d \in Int /\ n * d <= c /\ c < n * d + n /\ 0 <= d
  BY Quotient
<1>2. r \in Int /\ n * r <= c + n - 1 /\ 1 <= r
  BY Quotient DEF DivideRoundUp
<1> HIDE DEF d, r
<1>3. r <= d + 1
  <2>1. SUFFICES ASSUME r >= d + 2 PROVE FALSE
    BY <1>1, <1>2
  <2>2. n * r >= n * (d + 2) /\ n * (d + 2) = n * d + n + n
    BY <1>1, <1>2, <2>1
  <2>3. n * r \in Int /\ n * d \in Int
    BY <1>1, <1>2
  <2>4. QED
    BY <1>1, <1>2, <2>2, <2>3
<1>4. QED
  BY <1>1, <1>2, <1>3 DEF d, r

\* So has a table of TypedMap.
LEMMA TypedRoom ==
    ASSUME NEW f \in Nat, NEW share \in Nat, share <= f + 1
    PROVE  LET slots == NextPowerOfTwo(MaxInt(8, f * 2))
               growAt == (slots * 3) \div 4 IN
           IsPowerOfTwo(slots) /\ growAt < slots /\ share < growAt
<1> DEFINE v == MaxInt(8, f * 2)
           slots == NextPowerOfTwo(v)
<1>1. v \in Int /\ v >= 8 /\ v >= f * 2
  BY DEF MaxInt
<1> HIDE DEF v
<1>2. slots \in Nat /\ slots >= 8 /\ slots >= f * 2 /\ IsPowerOfTwo(slots)
  BY <1>1, NextPowerFacts
<1> HIDE DEF slots
<1>3. (slots * 3) \div 4 < slots /\ share < (slots * 3) \div 4
  BY <1>2
<1>4. QED
  BY <1>2, <1>3 DEF slots, v

\* The options given so far, and what is kept of them.
ConfigOK(c) ==
    /\ c = [capacity |-> c.capacity, shardCount |-> c.shardCount, loadFactor |-> c.loadFactor,
            cleanupInterval |-> c.cleanupInterval, cloneValue |-> c.cloneValue,
            prealloc |-> c.prealloc]
    /\ c.capacity \in Int /\ c.shardCount \in Int /\ c.cleanupInterval \in Int
    /\ c.loadFactor \in {NaN} \cup Int
    /\ c.cloneValue \in {"default", "nil", "custom"}
NormalOK(c) ==
    /\ c.capacity \in Nat \ {0} /\ c.shardCount \in Nat \ {0} /\ IsPowerOfTwo(c.shardCount)
    /\ c.loadFactor = NaN \/ c.loadFactor \in 50..90
    /\ c.cleanupInterval \in Nat
    /\ c.cloneValue \in {"default", "custom"} /\ (c.hasCustomCloner <=> c.cloneValue = "custom")

\* 32 and 2, as powers.
LEMMA SomePowers == IsPowerOfTwo(32) /\ IsPowerOfTwo(1)
<1>1. Power[0] = 1 /\ Power[1] = 2 /\ Power[2] = 4 /\ Power[3] = 8 /\ Power[4] = 16
  <2>1. Power[0 + 1] = 2 * Power[0] /\ Power[1 + 1] = 2 * Power[1] /\ Power[2 + 1] = 2 * Power[2]
        /\ Power[3 + 1] = 2 * Power[3] /\ Power[0] = 1
    BY PowerFacts
  <2>2. 0 + 1 = 1 /\ 1 + 1 = 2 /\ 2 + 1 = 3 /\ 3 + 1 = 4
    OBVIOUS
  <2>3. QED
    BY <2>1, <2>2
<1>2. Power[5] = 32
  <2>1. Power[4 + 1] = 2 * Power[4] /\ 4 + 1 = 5
    BY PowerFacts
  <2>2. QED
    BY <1>1, <2>1
<1>3. QED
  BY <1>1, <1>2 DEF IsPowerOfTwo

\* normalize.
LEMMA NormalizeFacts == ASSUME NEW c, ConfigOK(c) PROVE NormalOK(Normalize(c))
<1> DEFINE r == Normalize(c)
<1>1. c.capacity \in Int /\ c.shardCount \in Int /\ c.cleanupInterval \in Int
      /\ c.loadFactor \in {NaN} \cup Int /\ c.cloneValue \in {"default", "nil", "custom"}
  BY DEF ConfigOK
<1>2. /\ r.capacity = (IF c.capacity < 1 THEN DefaultCapacity ELSE c.capacity)
      /\ r.loadFactor = (IF c.loadFactor = NaN THEN NaN
                         ELSE IF c.loadFactor < 50 THEN 50
                         ELSE IF c.loadFactor > 90 THEN 90 ELSE c.loadFactor)
      /\ r.shardCount = (IF c.shardCount <= 0 THEN DefaultShardCount
                         ELSE NextPowerOfTwo(c.shardCount))
      /\ r.cleanupInterval = MaxInt(c.cleanupInterval, 0)
      /\ r.cloneValue = (IF c.cloneValue = "nil" THEN "default" ELSE c.cloneValue)
      /\ r.hasCustomCloner = (c.cloneValue = "custom")
  BY DEF Normalize
<1> HIDE DEF r
<1>3. r.capacity \in Nat \ {0}
  BY <1>1, <1>2 DEF DefaultCapacity
<1>4. r.shardCount \in Nat \ {0} /\ IsPowerOfTwo(r.shardCount)
  <2>1. NextPowerOfTwo(c.shardCount) \in Nat \ {0} /\ IsPowerOfTwo(NextPowerOfTwo(c.shardCount))
    BY <1>1, NextPowerFacts
  <2>2. QED
    BY <1>2, <2>1, SomePowers DEF DefaultShardCount
<1>5. r.loadFactor = NaN \/ r.loadFactor \in 50..90
  BY <1>1, <1>2
<1>6. r.cleanupInterval \in Nat
  BY <1>1, <1>2 DEF MaxInt
<1>7. r.cloneValue \in {"default", "custom"} /\ (r.hasCustomCloner <=> r.cloneValue = "custom")
  BY <1>1, <1>2
<1>8. QED
  BY <1>3, <1>4, <1>5, <1>6, <1>7 DEF NormalOK, r

\* What MapWellFormed says of a map.
WellFormed(map) ==
    /\ IsPowerOfTwo(map.shards) /\ IsPowerOfTwo(map.slots)
    /\ map.capacity >= 1 /\ map.growAt < map.slots
    /\ LET share == DivideRoundUp(map.capacity, map.shards)
       IN IF map.typed THEN share < map.growAt ELSE map.loadFactor # NaN => share <= map.growAt
    /\ map.interval >= 0
    /\ ~map.typed => map.cloneValue # "nil" /\ (map.noClone <=> map.cloneValue = "default")

\* New.
LEMMA NewMapFacts == ASSUME NEW c, NormalOK(c) PROVE WellFormed(NewMap(c))
<1> DEFINE share == DivideRoundUp(c.capacity, c.shardCount)
           T == TableForEntries(share, c.loadFactor)
           map == NewMap(c)
<1>1. /\ map.typed = FALSE /\ map.capacity = c.capacity /\ map.shards = c.shardCount
      /\ map.slots = T.slots /\ map.growAt = T.growAt /\ map.loadFactor = c.loadFactor
      /\ map.cloneValue = c.cloneValue /\ map.noClone = ~c.hasCustomCloner
      /\ map.interval = c.cleanupInterval
  BY DEF NewMap
<1>2. share \in Nat \ {0}
  BY ShareFacts DEF NormalOK
<1>3. IsPowerOfTwo(T.slots) /\ T.growAt < T.slots /\ (c.loadFactor # NaN => share <= T.growAt)
  <2>1. CASE c.loadFactor = NaN
    <3>1. T.slots = 32 /\ T.growAt = 1
      BY <2>1 DEF TableForEntries
    <3> HIDE DEF T
    <3>2. QED
      BY <2>1, <3>1, SomePowers
  <2>2. CASE c.loadFactor # NaN
    <3> DEFINE slots == TableSizing(c.loadFactor)!SlotsForEntries(share)
               growAt == TableSizing(c.loadFactor)!GrowAt(slots)
    <3>1. T.slots = slots /\ T.growAt = growAt
      BY <2>2 DEF TableForEntries
    <3>2. c.loadFactor \in 50..90
      BY <2>2 DEF NormalOK
    <3>3. IsPowerOfTwo(slots) /\ growAt < slots /\ share <= growAt
      BY <1>2, <3>2, RoomForEntries
    <3> HIDE DEF slots, growAt, T
    <3>4. QED
      BY <3>1, <3>3
  <2>3. QED
    BY <2>1, <2>2
<1>4. map.capacity >= 1 /\ map.interval >= 0 /\ IsPowerOfTwo(map.shards)
  BY <1>1 DEF NormalOK
<1>5. map.cloneValue # "nil" /\ (map.noClone <=> map.cloneValue = "default")
  BY <1>1 DEF NormalOK
<1>6. DivideRoundUp(map.capacity, map.shards) = share
  BY <1>1
<1> HIDE DEF T, map, share
<1>7. IsPowerOfTwo(map.slots) /\ map.growAt < map.slots
  BY <1>1, <1>3
<1>8. map.loadFactor # NaN => share <= map.growAt
  BY <1>1, <1>3
<1>9. ~map.typed
  BY <1>1, Zenon
<1>10. WellFormed(map)
  BY <1>4, <1>5, <1>6, <1>7, <1>8, <1>9 DEF WellFormed
<1>11. QED
  BY <1>10 DEF map

\* newTypedFromConfig.
LEMMA NewTypedFacts == ASSUME NEW c, NormalOK(c) PROVE WellFormed(NewTypedMap(c))
<1> DEFINE share == DivideRoundUp(c.capacity, c.shardCount)
           f == c.capacity \div c.shardCount
           slots == TypedSlots(c)
           map == NewTypedMap(c)
<1>1. /\ map.typed = TRUE /\ map.capacity = c.capacity /\ map.shards = c.shardCount
      /\ map.slots = slots /\ map.growAt = (slots * 3) \div 4 /\ map.interval = c.cleanupInterval
  BY DEF NewTypedMap
<1>2. share \in Nat /\ f \in Nat /\ share <= f + 1
  BY ShareFacts DEF NormalOK
<1>3. IsPowerOfTwo(slots) /\ (slots * 3) \div 4 < slots /\ share < (slots * 3) \div 4
  BY <1>2, TypedRoom DEF TypedSlots
<1>4. map.capacity >= 1 /\ map.interval >= 0 /\ IsPowerOfTwo(map.shards)
  BY <1>1 DEF NormalOK
<1>5. DivideRoundUp(map.capacity, map.shards) < map.growAt
  BY <1>1, <1>3
<1> HIDE DEF map, slots
<1>6. IsPowerOfTwo(map.slots) /\ map.growAt < map.slots /\ map.typed
  BY <1>1, <1>3
<1>7. WellFormed(map)
  BY <1>4, <1>5, <1>6 DEF WellFormed
<1>8. QED
  BY <1>7 DEF map

\* What RecommendedUseful says of an answer.
Useful(count, expected) ==
    /\ count \in Nat \ {0} /\ IsPowerOfTwo(count) /\ count <= MaxAutoShards
    /\ count = 1 \/ expected \div count >= MinShardTargetEntries

\* The power of two below.
LEMMA FloorFacts ==
    ASSUME NEW v \in Nat \ {0}
    PROVE  LET p == FloorPowerOfTwo(v) IN p \in Nat \ {0} /\ p <= v /\ IsPowerOfTwo(p)
<1> DEFINE p == NextPowerOfTwo(v)
<1>1. CASE v = 1
  BY <1>1, SomePowers DEF FloorPowerOfTwo
<1>2. CASE v # 1
  <2>1. p \in Nat /\ p >= v /\ p < 2 * v /\ IsPowerOfTwo(p) /\ v >= 2
    BY <1>2, NextPowerFacts
  <2>2. FloorPowerOfTwo(v) = IF p = v THEN p ELSE p \div 2
    BY <2>1 DEF FloorPowerOfTwo
  <2> HIDE DEF p
  <2>3. CASE p = v
    BY <2>1, <2>2, <2>3
  <2>4. CASE p # v
    <3>1. PICK i \in 0..p : p = Power[i]
      BY <2>1 DEF IsPowerOfTwo
    <3>2. i # 0
      BY <2>1, <3>1, PowerFacts
    <3>3. i - 1 \in Nat /\ (i - 1) + 1 = i
      BY <2>1, <3>1, <3>2
    <3>4. p = 2 * Power[i - 1] /\ Power[i - 1] \in Nat /\ Power[i - 1] > i - 1
      BY <3>1, <3>3, PowerFacts
    <3>5. p \div 2 = Power[i - 1]
      BY <3>4
    <3>6. IsPowerOfTwo(Power[i - 1])
      BY <3>3, <3>4 DEF IsPowerOfTwo
    <3>7. QED
      BY <2>1, <2>2, <2>4, <3>4, <3>5, <3>6
  <2>5. QED
    BY <2>3, <2>4
<1>3. QED
  BY <1>1, <1>2

\* RecommendedShardCount.
LEMMA RecommendedFacts ==
    ASSUME NEW e \in Int, NEW n \in Nat \ {0}
    PROVE  Useful(RecommendedShardCount(e, n), e)
<1> DEFINE c == MaxInt(e, 1)
           w == MinInt(MaxAutoShards, MaxInt(1, n * DefaultShardMultiplier * Scale(c)))
           v == MinInt(MaxUseful(c), w)
           s == FloorPowerOfTwo(v)
<1>1. c \in Nat \ {0} /\ (c = e \/ c = 1)
  BY DEF MaxInt
<1> HIDE DEF c
<1>2. MaxUseful(c) \in Nat \ {0} /\ (MaxUseful(c) = 1 \/ MaxUseful(c) = c \div 128)
  BY <1>1 DEF MaxUseful, MaxInt, MinShardTargetEntries
<1>3. w \in Nat \ {0} /\ w <= 1024
  <2>1. Scale(c) \in {1, 4, 8, 16}
    BY DEF Scale
  <2>2. n * DefaultShardMultiplier * Scale(c) \in Int
    BY <2>1 DEF DefaultShardMultiplier
  <2>3. QED
    BY <2>2 DEF MinInt, MaxInt, MaxAutoShards
<1> HIDE DEF w
<1>4. v \in Nat \ {0} /\ v <= 1024 /\ v <= MaxUseful(c)
  BY <1>2, <1>3 DEF MinInt
<1> HIDE DEF v
<1>5. s \in Nat \ {0} /\ s <= v /\ IsPowerOfTwo(s)
  BY <1>4, FloorFacts
<1>6. RecommendedShardCount(e, n) = s
  BY DEF RecommendedShardCount, AutoShardCount, c, w, v
<1> HIDE DEF s
<1>7. ASSUME s # 1 PROVE e \div s >= 128
  <2>1. s >= 2 /\ MaxUseful(c) = c \div 128 /\ s <= c \div 128
    BY <1>2, <1>4, <1>5, <1>7
  <2>2. 128 * s <= c /\ c = e
    BY <1>1, <1>5, <2>1
  <2>3. s * 128 <= e
    BY <1>5, <2>2
  <2>4. QED
    BY <1>5, <2>3, Quotient
<1>8. QED
  BY <1>4, <1>5, <1>6, <1>7 DEF Useful, MaxAutoShards, MinShardTargetEntries

-------------------------------------------------------------------------------
\* The options given so far, and the map that was made of them.
OptionsInv ==
    /\ procs \in Nat \ {0} /\ asked \in Int
    /\ m = <<>> => ConfigOK(cfg)
    /\ asked # 0 => cfg.shardCount = RecommendedShardCount(asked, procs) /\ ConfigOK(cfg)
    /\ m # <<>> => WellFormed(m)

\* It holds before the first option.
LEMMA OptionsInit == Init => OptionsInv
<1> SUFFICES ASSUME Init PROVE OptionsInv
  OBVIOUS
<1>1. procs \in Nat \ {0} /\ asked = 0 /\ m = <<>>
  BY OptionsAssumption DEF Init
<1>2. cfg = DefaultConfig \/ cfg = [DefaultConfig EXCEPT !.capacity = 64]
  BY DEF Init
<1>3. ConfigOK(cfg)
  BY <1>2 DEF ConfigOK, DefaultConfig, DefaultCapacity
<1>4. QED
  BY <1>1, <1>3 DEF OptionsInv

\* An option changes one field.
LEMMA OptionsSet == ASSUME OptionsInv, Configure PROVE OptionsInv'
<1>1. m = <<>> /\ m' = m /\ procs' = procs /\ ConfigOK(cfg) /\ procs \in Nat \ {0}
  BY DEF Configure, SetCapacity, SetShards, SetLoadFactor, SetCleanupInterval, SetValueCloner,
         SetPrealloc, SetRecommended, Option, OptionsInv
<1>2. /\ Capacities \subseteq Int /\ Counts \subseteq Int /\ Intervals \subseteq Int
      /\ Chunks \subseteq Int /\ Expected \subseteq Int /\ Loads \subseteq {NaN} \cup Int
  BY OptionsAssumption
<1>3. ASSUME UNCHANGED asked, ConfigOK(cfg'), cfg'.shardCount = cfg.shardCount
      PROVE  OptionsInv'
  BY <1>1, <1>3 DEF OptionsInv
<1>4. CASE SetCapacity
  BY <1>1, <1>2, <1>3, <1>4 DEF SetCapacity, ConfigOK
<1>5. CASE SetLoadFactor
  BY <1>1, <1>2, <1>3, <1>5 DEF SetLoadFactor, ConfigOK
<1>6. CASE SetCleanupInterval
  BY <1>1, <1>2, <1>3, <1>6 DEF SetCleanupInterval, ConfigOK
<1>7. CASE SetValueCloner
  BY <1>1, <1>2, <1>3, <1>7 DEF SetValueCloner, ConfigOK
<1>8. CASE SetPrealloc
  BY <1>1, <1>2, <1>3, <1>8 DEF SetPrealloc, ConfigOK
<1>9. CASE SetShards
  <2>1. asked' = 0 /\ ConfigOK(cfg')
    BY <1>1, <1>2, <1>9 DEF SetShards, ConfigOK
  <2>2. QED
    BY <1>1, <2>1 DEF OptionsInv
<1>10. CASE SetRecommended
  <2>1. PICK e \in Expected :
           asked' = e /\ cfg' = [cfg EXCEPT !.shardCount = RecommendedShardCount(e, procs)]
    BY <1>10 DEF SetRecommended
  <2>2. RecommendedShardCount(e, procs) \in Int
    BY <1>1, <1>2, RecommendedFacts DEF Useful
  <2> DEFINE n == RecommendedShardCount(e, procs)
  <2> HIDE DEF n
  <2>3. cfg' = [cfg EXCEPT !.shardCount = n] /\ n \in Int
    BY <2>1, <2>2 DEF n
  <2>4. ConfigOK(cfg') /\ cfg'.shardCount = n
    BY <1>1, <2>3 DEF ConfigOK
  <2>5. asked' \in Int /\ cfg'.shardCount = RecommendedShardCount(asked', procs')
    BY <1>1, <1>2, <2>1, <2>4 DEF n
  <2>6. QED
    BY <1>1, <2>4, <2>5 DEF OptionsInv
<1>11. QED
  BY <1>4, <1>5, <1>6, <1>7, <1>8, <1>9, <1>10 DEF Configure

\* The constructors.
LEMMA OptionsBuilt == ASSUME OptionsInv, New \/ NewTyped PROVE OptionsInv'
<1>1. m = <<>> /\ ConfigOK(cfg) /\ procs \in Nat \ {0}
  BY DEF New, NewTyped, OptionsInv
<1>2. ASSUME NEW map, Built(map), WellFormed(map), map # <<>> PROVE OptionsInv'
  BY <1>1, <1>2 DEF Built, OptionsInv
<1>3. CASE New
  BY <1>1, <1>2, <1>3, NormalizeFacts, NewMapFacts, MapIsThere DEF New
<1>4. CASE NewTyped /\ maker = "NewTyped"
  <2>1. Built(NewTypedMap(Normalize(cfg)))
    BY <1>4 DEF NewTyped
  <2>2. QED
    BY <1>1, <1>2, <2>1, NormalizeFacts, NewTypedFacts, MapIsThere
<1>5. CASE NewTyped /\ maker # "NewTyped"
  <2>1. PICK n \in Capacities, s \in Counts :
           Built(NewTypedMap(Normalize([cfg EXCEPT !.capacity = n, !.shardCount = s])))
    BY <1>5 DEF NewTyped
  <2>2. n \in Int /\ s \in Int
    BY OptionsAssumption
  <2> DEFINE c0 == [cfg EXCEPT !.capacity = n]
             c == [cfg EXCEPT !.capacity = n, !.shardCount = s]
  <2>3. ConfigOK(c0)
    BY <1>1, <2>2 DEF ConfigOK
  <2>4. c = [c0 EXCEPT !.shardCount = s]
    BY <1>1 DEF ConfigOK
  <2> HIDE DEF c, c0
  <2>5. ConfigOK(c)
    BY <2>2, <2>3, <2>4 DEF ConfigOK
  <2>6. Built(NewTypedMap(Normalize(c)))
    BY <2>1 DEF c
  <2>7. QED
    BY <1>2, <2>5, <2>6, NormalizeFacts, NewTypedFacts, MapIsThere
<1>6. QED
  BY <1>3, <1>4, <1>5

\* Every step keeps it.
LEMMA OptionsStep == ASSUME OptionsInv, [Next]_vars PROVE OptionsInv'
<1>1. ASSUME UNCHANGED building PROVE OptionsInv'
  BY <1>1 DEF building, OptionsInv
<1>2. Configure \/ New \/ NewTyped \/ UNCHANGED building
  BY DEF Next, Closing, Loop, Tick, SelectTick, CleanupNow, SelectStop, CloseBegin, CloseStop,
         CloseLoad, CloseWait, StoreLimited, MaybeStartCleaner, Finished, vars
<1>3. QED
  BY <1>1, <1>2, OptionsSet, OptionsBuilt

\* It always holds.
LEMMA OptionsAlways == Spec => []OptionsInv
  BY OptionsInit, OptionsStep, PTL DEF Spec

\* Whatever the options, the masks of a map select all its shards and slots, and
\* the share of a shard is below growAt in a TypedMap and at most growAt in a
\* Map, unless the Map's load factor is NaN (New, newTypedFromConfig).
THEOREM MapsAreWellFormed == Spec => []MapWellFormed
<1>1. ASSUME OptionsInv PROVE MapWellFormed
  <2>1. m # <<>> => WellFormed(m)
    BY <1>1 DEF OptionsInv
  <2>2. QED
    BY <2>1 DEF MapWellFormed, WellFormed
<1>2. QED
  BY <1>1, OptionsAlways, PTL

\* RecommendedShardCount's answer stays a useful one through normalize
\* (autoShardCount, floorPowerOfTwo).
THEOREM RecommendedIsUseful == Spec => []RecommendedUseful
<1>1. ASSUME OptionsInv PROVE RecommendedUseful
  <2>1. SUFFICES ASSUME asked # 0
                 PROVE  /\ IsPowerOfTwo(cfg.shardCount) /\ cfg.shardCount <= MaxAutoShards
                        /\ Normalize(cfg).shardCount = cfg.shardCount
                        /\ \/ cfg.shardCount = 1
                           \/ asked \div cfg.shardCount >= MinShardTargetEntries
    BY DEF RecommendedUseful
  <2>2. Useful(cfg.shardCount, asked)
    BY <1>1, <2>1, RecommendedFacts DEF OptionsInv
  <2>3. Normalize(cfg).shardCount = cfg.shardCount
    BY <2>2, NextPowerFacts DEF Normalize, Useful
  <2>4. QED
    BY <2>2, <2>3 DEF Useful
<1>2. QED
  BY <1>1, OptionsAlways, PTL
===============================================================================
