------------------------- MODULE RangePipelineProofs -------------------------
(***************************************************************************)
(* The traversals, for any maps, any number of calls at once and any       *)
(* number of processors: each entry is visited once, pooled arrays have    *)
(* one user, a stopped traversal stops promptly.                           *)
(*                                                                         *)
(* The inductive invariant has three layers.  Control says in which of its *)
(* three modes a call is and what its workers do there: none of them,      *)
(* workers that collect into the arrays of the call, or workers that call  *)
(* the visitor.  Owned and Separate say that arrays, and the buffers       *)
(* behind their slices, have one user, as long as no visitor has panicked. *)
(* Collecting and Counted say what the arrays and the visitor's history    *)
(* hold when that is so: what a worker found is in its slab once its flag  *)
(* is up, and the entries visited are those before the caller's place, or  *)
(* before the worker's.                                                    *)
(***************************************************************************)
EXTENDS RangePipeline, InductionFacts

Pairs == Nat \X Nat
Slices == [back : Nat, len : Nat]
Labels == {"new", "sequential", "wait", "visit", "join", "returned"}
Collects == {"collect", "flush", "ready", "done", "gone"}
Visits == {"check", "direct", "done", "gone"}
WorkerState ==
    [pc : Collects \cup Visits, shard : Nat, last : Nat, entry : Nat, buf : Slices,
     late : SUBSET Pairs]

TypeOK ==
    /\ job \in Jobs
    /\ pc \in [Call -> Labels]
    /\ at \in [Call -> Pairs]
    /\ view \in [Call -> Slices]
    /\ arrays \in [Call -> Pairs]
    /\ worker \in [Call -> Seq(WorkerState)]
    /\ stopped \in [Call -> BOOLEAN]
    /\ ended \in [Call -> {"no", "stopped", "panicked"}]
    /\ DOMAIN seen = Call /\ \A c \in Call : seen[c] \in [Entries(c) -> Nat]
    /\ slabs \in Seq(Seq(Slices)) /\ buffer \in Seq(Seq(Pairs)) /\ ready \in Seq(Seq(BOOLEAN))
    /\ slabPool \subseteq 1..Len(slabs) /\ readyPool \subseteq 1..Len(ready)
-------------------------------------------------------------------------------
(***************************************************************************)
(* Control, call by call.                                                  *)
(***************************************************************************)
Piped(c) == arrays[c] # <<0, 0>>
Direct(c) == arrays[c] = <<0, 0>> /\ worker[c] # <<>>

\* A call whose workers have not begun has nothing.
Unstarted(c) ==
    /\ pc[c] \in {"new", "sequential"} =>
         ~Piped(c) /\ worker[c] = <<>> /\ ended[c] = "no" /\ stopped[c] = FALSE
    /\ pc[c] = "new" => at[c] = <<1, 1>>

\* A call of Range or Snapshot that has arrays of slabs and flags.
PipedControl(c) ==
    Piped(c) =>
        /\ Kind(c) \in {"Range", "Snapshot"}
        /\ pc[c] \in {"wait", "visit", "join", "returned"}
        /\ pc[c] \in {"wait", "visit"} => ended[c] = "no" /\ at[c][1] \in 1..Workers(c)
        /\ stopped[c] = FALSE
        /\ Len(worker[c]) = Workers(c)
        /\ \A w \in DOMAIN worker[c] :
             /\ worker[c][w].pc \in Collects /\ worker[c][w].late = {}
             /\ worker[c][w].shard = Chunk(c, w)[1] /\ worker[c][w].last = Chunk(c, w)[2]
        /\ arrays[c][1] \in 1..Len(slabs) /\ Workers(c) <= Len(slabs[arrays[c][1]])
        /\ arrays[c][2] \in 1..Len(ready) /\ Workers(c) <= Len(ready[arrays[c][2]])
        /\ pc[c] = "returned" /\ ended[c] # "panicked" =>
             \A w \in DOMAIN worker[c] : worker[c][w].pc = "gone"

\* A call of RangePar: the flag is up as soon as a visitor has returned false.
DirectControl(c) ==
    Direct(c) =>
        /\ Kind(c) \in {"RangePar", "TypedRangePar"}
        /\ pc[c] \in {"join", "returned"}
        /\ ended[c] # "panicked" /\ (stopped[c] <=> ended[c] # "no")
        /\ Len(worker[c]) = Workers(c)
        /\ \A w \in DOMAIN worker[c] : worker[c][w].pc \in Visits
        /\ pc[c] = "returned" => \A w \in DOMAIN worker[c] : worker[c][w].pc = "gone"

\* A sequential call that has returned.
InlineControl(c) ==
    ~Piped(c) /\ ~Direct(c) => pc[c] \in {"new", "sequential", "returned"} /\ stopped[c] = FALSE

\* What a worker does once the flag is up: it finishes the shard it is in, or
\* the call it is in.
LateIf(c, k, up) ==
    /\ k.late # {} => up = TRUE
    /\ \A e, f \in k.late : e[1] = f[1]
    /\ k.pc = "direct" => \A e \in k.late : e[1] = k.shard
    /\ Kind(c) = "TypedRangePar" =>
         /\ \A e, f \in k.late : e = f
         /\ k.pc = "direct" => k.late = {}
Late(c, k) == LateIf(c, k, stopped[c])

Control(c) ==
    /\ Unstarted(c) /\ PipedControl(c) /\ DirectControl(c) /\ InlineControl(c)
    /\ \A w \in DOMAIN worker[c] : Late(c, worker[c][w])

\* The arrays of a call that is not over and did not panic.
Holder(c) == Piped(c) /\ pc[c] # "returned"
Owned ==
    \A c \in Call : Holder(c) =>
        /\ arrays[c][1] \notin slabPool /\ arrays[c][2] \notin readyPool
        /\ \A d \in Call \ {c} : Holder(d) =>
             arrays[c][1] # arrays[d][1] /\ arrays[c][2] # arrays[d][2]

PipeInv == TypeOK /\ (\A c \in Call : Control(c)) /\ Owned
-------------------------------------------------------------------------------
(***************************************************************************)
(* What is collected and visited, as long as nobody panicked.              *)
(***************************************************************************)
NoPanic == \A c \in Call : ended[c] # "panicked"

\* The buffers that worker w of array a may write: that of its slab, and the
\* one it has filled and not yet stored there.
Backs(a, w) ==
    {slabs[a][w].back} \cup
    {worker[c][w].buf.back : c \in {d \in Call :
        /\ Holder(d) /\ arrays[d][1] = a
        /\ w \in DOMAIN worker[d] /\ worker[d][w].pc = "flush"}}

Separate ==
    \A a, b \in 1..Len(slabs) : \A v \in DOMAIN slabs[a], w \in DOMAIN slabs[b] :
        /\ Backs(a, v) \subseteq 0..Len(buffer)
        /\ <<a, v>> # <<b, w>> => Backs(a, v) \cap Backs(b, w) \subseteq {0}

\* What worker w of a call finds, and the slice that has it.
Found(c, w) == Collected(c, Chunk(c, w)[1], Chunk(c, w)[2])
Holds(slice, found) ==
    /\ slice.len = Len(found)
    /\ found # <<>> =>
         /\ slice.back \in 1..Len(buffer) /\ Len(buffer[slice.back]) >= Len(found)
         /\ \A i \in 1..Len(found) : buffer[slice.back][i] = found[i]

Collecting(c, w) ==
    LET k == worker[c][w]
    IN /\ ready[arrays[c][2]][w] <=> k.pc \in {"done", "gone"}
       /\ k.pc \in {"ready", "done", "gone"} => slabs[arrays[c][1]][w] = k.buf
       /\ k.pc # "collect" => Holds(k.buf, Found(c, w))

\* How often an entry has been visited.
Once(c) == \A e \in Entries(c) : seen[c][e] <= 1 /\ (ended[c] = "no" => seen[c][e] = 1)
Before(c, s, i) ==
    \A e \in Entries(c) : seen[c][e] = IF e[1] < s \/ (e[1] = s /\ e[2] < i) THEN 1 ELSE 0

\* The caller visits the slabs in turn.
Tally(c, p, count) ==
    \A v \in 1..Workers(c) : \A j \in 1..Len(Found(c, v)) :
        count[Found(c, v)[j]] = IF v < p[1] \/ (v = p[1] /\ j < p[2]) THEN 1 ELSE 0
Visiting(c) ==
    LET p == at[c]
    IN /\ pc[c] = "wait" => p[2] = 1
       /\ pc[c] = "visit" =>
            /\ worker[c][p[1]].pc \in {"done", "gone"}
            /\ view[c] = worker[c][p[1]].buf /\ p[2] \in 1..(view[c].len + 1)
       /\ Tally(c, p, seen[c])

\* A worker visits the entries of its chunk.
Chunked(c, w) == {e \in Entries(c) : Chunk(c, w)[1] <= e[1] /\ e[1] <= Chunk(c, w)[2]}
Progress(c, w) ==
    LET k == worker[c][w]
    IN /\ k.last = Chunk(c, w)[2]
       /\ k.pc \in {"check", "direct"} =>
            /\ k.shard \in Chunk(c, w)[1]..(k.last + 1) /\ k.entry \in Nat \ {0}
            /\ k.entry = 1 \/ (k.shard <= k.last /\ k.entry <= Map(c)[k.shard])
            /\ k.pc = "direct" => k.shard <= k.last /\ k.entry <= Map(c)[k.shard]
            /\ \A e \in Chunked(c, w) :
                 seen[c][e] = IF e[1] < k.shard \/ (e[1] = k.shard /\ e[2] < k.entry) THEN 1 ELSE 0
       /\ k.pc \in {"done", "gone"} =>
            \A e \in Chunked(c, w) : seen[c][e] <= 1 /\ (ended[c] = "no" => seen[c][e] = 1)

Counted(c) ==
    /\ pc[c] = "new" => \A e \in Entries(c) : seen[c][e] = 0
    /\ pc[c] = "sequential" =>
         /\ at[c][1] \in 1..Len(Map(c)) /\ at[c][2] \in 1..(Map(c)[at[c][1]] + 1)
         /\ Before(c, at[c][1], at[c][2])
    /\ Piped(c) /\ pc[c] \in {"wait", "visit"} => Visiting(c)
    /\ Direct(c) => \A w \in DOMAIN worker[c] : Progress(c, w)
    /\ pc[c] \in {"join", "returned"} /\ ~Direct(c) => Once(c)
    /\ Holder(c) => \A w \in DOMAIN worker[c] : Collecting(c, w)

EntryInv == NoPanic => Separate /\ \A c \in Call : Counted(c)

-------------------------------------------------------------------------------
(***************************************************************************)
(* The maps, and how their shards are divided.                             *)
(***************************************************************************)
\* Nobody changes the calls and their maps.
LEMMA JobFixed ==
    ASSUME job' = job
    PROVE  /\ Call' = Call
           /\ \A c : /\ Map(c)' = Map(c) /\ Kind(c)' = Kind(c)
                     /\ Sequential(c)' = Sequential(c) /\ Workers(c)' = Workers(c)
                     /\ Entries(c)' = Entries(c)
                     /\ \A w : Chunk(c, w)' = Chunk(c, w) /\ Found(c, w)' = Found(c, w)
                               /\ Chunked(c, w)' = Chunked(c, w)
<1>1. Call' = Call /\ \A c : Map(c)' = Map(c) /\ Kind(c)' = Kind(c) /\ Entries(c)' = Entries(c)
  BY DEF Call, Map, Kind, Entries
<1>2. ASSUME NEW c PROVE TotalLive(c)' = TotalLive(c)
  BY DEF TotalLive, Map, FoldFunction, FoldFunctionOnSet, MapThenFoldSet
<1>3. \A c : Sequential(c)' = Sequential(c) /\ Workers(c)' = Workers(c)
  BY <1>1, <1>2 DEF Sequential, Workers
<1>4. \A c, w : Chunk(c, w)' = Chunk(c, w)
  BY <1>1, <1>3 DEF Chunk
<1>5. ASSUME NEW c, NEW w PROVE Found(c, w)' = Found(c, w)
  BY <1>4 DEF Found, Collected, Map
<1>6. \A c, w : Chunked(c, w)' = Chunked(c, w)
  BY <1>1, <1>4 DEF Chunked
<1>7. QED
  BY <1>1, <1>3, <1>4, <1>5, <1>6

\* What JobsAssumption says of one call.
LEMMA JobFacts ==
    ASSUME job \in Jobs, NEW c \in Call
    PROVE  /\ Kind(c) \in {"Range", "Snapshot", "RangePar", "TypedRangePar"}
           /\ Map(c) \in Seq(Nat) /\ Len(Map(c)) \in Nat \ {0} /\ DOMAIN Map(c) = 1..Len(Map(c))
           /\ TotalLive(c) \in Nat
<1>1. /\ Kind(c) \in {"Range", "Snapshot", "RangePar", "TypedRangePar"}
      /\ Map(c) \in Seq(Nat) /\ Len(Map(c)) > 0
  BY JobsAssumption DEF Call, Kind, Map
<1>2. Len(Map(c)) \in Nat /\ Map(c) \in [1..Len(Map(c)) -> Nat]
  BY <1>1
<1>3. IsFiniteSet(1..Len(Map(c)))
  BY <1>2, FS_Interval
<1>4. TotalLive(c) \in Nat
  BY <1>2, <1>3, TotalIsNatural DEF TotalLive
<1>5. QED
  BY <1>1, <1>2, <1>4

\* There is a worker, and no worker without a shard.
LEMMA WorkerCount ==
    ASSUME job \in Jobs, NEW c \in Call
    PROVE  Workers(c) \in Nat \ {0} /\ Workers(c) <= Len(Map(c))
<1>1. TotalLive(c) \div MinPerWorker \in Nat
  BY JobFacts, NumbersAssumption
<1>2. QED
  BY <1>1, JobFacts, NumbersAssumption DEF Workers, LargerOf, SmallerOf

\* Multiplication is monotone.
LEMMA TimesMonotone ==
    ASSUME NEW b \in Nat, NEW x \in Nat, NEW y \in Nat, x <= y
    PROVE  b * x \in Nat /\ b * x <= b * y
  OBVIOUS

\* The quotient and the remainder.
LEMMA DivisionFacts ==
    ASSUME NEW n \in Nat, NEW w \in Nat \ {0}, w <= n
    PROVE  /\ n \div w \in Nat \ {0} /\ n % w \in 0..(w - 1)
           /\ n = ((n \div w) * w) + (n % w)
  OBVIOUS

\* The chunks are not empty, lie one after the other and reach the last
\* shard: every shard has one worker.
LEMMA ChunkFacts ==
    ASSUME job \in Jobs, NEW c \in Call
    PROVE  /\ \A w \in 1..Workers(c) :
                /\ Chunk(c, w) \in Pairs
                /\ 1 <= Chunk(c, w)[1] /\ Chunk(c, w)[1] <= Chunk(c, w)[2]
                /\ Chunk(c, w)[2] <= Len(Map(c))
           /\ \A v, w \in 1..Workers(c) : v < w => Chunk(c, v)[2] < Chunk(c, w)[1]
           /\ \A s \in 1..Len(Map(c)) : \E w \in 1..Workers(c) :
                Chunk(c, w)[1] <= s /\ s <= Chunk(c, w)[2]
<1> DEFINE N == Len(Map(c))
           W == Workers(c)
           base == N \div W
           extra == N % W
           End(k) == base * k + SmallerOf(k, extra)
<1>1. \A w : Chunk(c, w) = <<End(w - 1) + 1, End(w)>>
  BY DEF Chunk
<1>2. /\ N \in Nat /\ W \in Nat \ {0} /\ W <= N
      /\ base \in Nat \ {0} /\ extra \in 0..(W - 1) /\ N = base * W + extra
  BY JobFacts, WorkerCount, DivisionFacts
<1> HIDE DEF N, W, base, extra
<1>3. End(0) = 0 /\ End(W) = N
  BY <1>2 DEF SmallerOf
<1>4. \A x, y \in 0..W : x <= y => End(x) \in Nat /\ End(x) <= End(y)
  <2> SUFFICES ASSUME NEW x \in 0..W, NEW y \in 0..W, x <= y
               PROVE  End(x) \in Nat /\ End(x) <= End(y)
    OBVIOUS
  <2>1. base * x \in Nat /\ base * y \in Nat /\ base * x <= base * y
    BY <1>2, TimesMonotone
  <2>2. QED
    BY <1>2, <2>1 DEF SmallerOf
<1>5. \A x \in 1..W : End(x - 1) < End(x)
  <2> SUFFICES ASSUME NEW x \in 1..W PROVE End(x - 1) < End(x)
    OBVIOUS
  <2>1. x \in Nat /\ x - 1 \in Nat /\ base * x = base * (x - 1) + base
    BY <1>2
  <2>2. base * (x - 1) \in Nat
    BY <1>2, <2>1
  <2> DEFINE p == base * (x - 1)
  <2> HIDE DEF p
  <2>3. End(x - 1) = p + SmallerOf(x - 1, extra) /\ End(x) = p + base + SmallerOf(x, extra)
    BY <2>1 DEF p
  <2>4. p \in Nat
    BY <2>2 DEF p
  <2>5. QED
    BY <1>2, <2>1, <2>3, <2>4 DEF SmallerOf
<1> HIDE DEF End
<1>6. ASSUME NEW w \in 1..W
      PROVE  /\ Chunk(c, w) \in Pairs /\ 1 <= Chunk(c, w)[1] /\ Chunk(c, w)[1] <= Chunk(c, w)[2]
             /\ Chunk(c, w)[2] <= N
  <2>1. w \in 0..W /\ w - 1 \in 0..W /\ W \in 0..W /\ w - 1 <= w /\ w <= W
    BY <1>2
  <2>2. End(w - 1) \in Nat /\ End(w) \in Nat /\ End(w - 1) < End(w) /\ End(w) <= N
    BY <1>3, <1>4, <1>5, <2>1
  <2>3. QED
    BY <1>1, <2>2 DEF Pairs
<1>7. ASSUME NEW v \in 1..W, NEW w \in 1..W, v < w PROVE Chunk(c, v)[2] < Chunk(c, w)[1]
  <2>1. v \in 0..W /\ w - 1 \in 0..W /\ v <= w - 1
    BY <1>2, <1>7
  <2>2. End(v) \in Nat /\ End(w - 1) \in Nat /\ End(v) <= End(w - 1)
    BY <1>4, <2>1
  <2>3. QED
    BY <1>1, <2>2
<1>8. ASSUME NEW s \in 1..N
      PROVE  \E w \in 1..W : Chunk(c, w)[1] <= s /\ s <= Chunk(c, w)[2]
  <2> DEFINE T == {w \in 0..W : s <= End(w)}
  <2>1. T \subseteq Nat /\ W \in T
    BY <1>2, <1>3
  <2>2. PICK w \in T : \A v \in T : w <= v
    BY <2>1, LeastNatural
  <2>3. w \in 1..W
    BY <1>3, <2>2
  <2>4. w - 1 \in 0..W /\ w - 1 \notin T
    BY <1>2, <2>2, <2>3
  <2>5. End(w - 1) \in Nat /\ End(w - 1) < s /\ s <= End(w)
    BY <1>4, <2>2, <2>4
  <2>6. QED
    BY <1>1, <2>3, <2>5
<1>9. QED
  BY <1>6, <1>7, <1>8 DEF N, W

\* The entries of a map.
LEMMA EntryFacts ==
    ASSUME job \in Jobs, NEW c \in Call
    PROVE  /\ Entries(c) \subseteq Pairs
           /\ \A e \in Entries(c) : e[1] \in 1..Len(Map(c)) /\ e[2] \in 1..Map(c)[e[1]]
           /\ \A s \in 1..Len(Map(c)) : \A i \in 1..Map(c)[s] : <<s, i>> \in Entries(c)
<1>1. /\ DOMAIN Map(c) = 1..Len(Map(c)) /\ Len(Map(c)) \in Nat
      /\ \A s \in 1..Len(Map(c)) : Map(c)[s] \in Nat
  BY JobFacts
<1>2. \A s \in 1..Len(Map(c)) : \A i \in 1..Map(c)[s] : <<s, i>> \in Entries(c) /\ <<s, i>> \in Pairs
  BY <1>1 DEF Entries, Pairs
<1>3. \A e \in Entries(c) : \E s \in 1..Len(Map(c)) : \E i \in 1..Map(c)[s] : e = <<s, i>>
  BY <1>1 DEF Entries
<1>4. QED
  BY <1>2, <1>3

\* Each entry is in the chunk of one worker.
LEMMA ChunksApart ==
    ASSUME job \in Jobs, NEW c \in Call
    PROVE  /\ \A v, w \in 1..Workers(c) : v # w => Chunked(c, v) \cap Chunked(c, w) = {}
           /\ \A e \in Entries(c) : \E v \in 1..Workers(c) : e \in Chunked(c, v)
<1>1. Workers(c) \in Nat /\ \A e \in Entries(c) : e[1] \in 1..Len(Map(c)) /\ Len(Map(c)) \in Nat
  BY EntryFacts, WorkerCount, JobFacts
<1>2. \A v \in 1..Workers(c) : Chunk(c, v)[1] \in Nat /\ Chunk(c, v)[2] \in Nat
  BY ChunkFacts DEF Pairs
<1>3. \A v, w \in 1..Workers(c) : v < w => Chunk(c, v)[2] < Chunk(c, w)[1]
  BY ChunkFacts
<1>4. ASSUME NEW v \in 1..Workers(c), NEW w \in 1..Workers(c), v < w,
             NEW e \in Chunked(c, v), e \in Chunked(c, w)
      PROVE  FALSE
  BY <1>1, <1>2, <1>3, <1>4 DEF Chunked
<1>5. \A v, w \in 1..Workers(c) : v # w => Chunked(c, v) \cap Chunked(c, w) = {}
  <2>1. \A v, w \in 1..Workers(c) : v # w => v < w \/ w < v
    BY <1>1
  <2>2. QED
    BY <1>4, <2>1
<1>6. \A e \in Entries(c) : \E v \in 1..Workers(c) : e \in Chunked(c, v)
  BY <1>1, ChunkFacts DEF Chunked
<1>7. QED
  BY <1>5, <1>6

\* What a worker collects: every entry of its shards, once.
LEMMA FoundFacts ==
    ASSUME job \in Jobs, NEW c \in Call, NEW w \in 1..Workers(c)
    PROVE  /\ Found(c, w) \in Seq(Pairs) /\ Distinct(Found(c, w))
           /\ Elements(Found(c, w)) = Chunked(c, w)
<1> DEFINE lo == Chunk(c, w)[1]
           hi == Chunk(c, w)[2]
           n == hi - lo + 1
           seqs == [s \in 1..n |-> [i \in 1..Map(c)[lo + s - 1] |-> <<lo + s - 1, i>>]]
<1>1. /\ lo \in Nat /\ hi \in Nat /\ 1 <= lo /\ lo <= hi /\ hi <= Len(Map(c)) /\ n \in Nat
      /\ Len(Map(c)) \in Nat /\ \A s \in 1..Len(Map(c)) : Map(c)[s] \in Nat
  <2>1. Chunk(c, w) \in Pairs /\ 1 <= lo /\ lo <= hi /\ hi <= Len(Map(c))
    BY ChunkFacts
  <2>2. Len(Map(c)) \in Nat /\ \A s \in 1..Len(Map(c)) : Map(c)[s] \in Nat
    BY JobFacts
  <2>3. QED
    BY <2>1, <2>2 DEF Pairs
<1>2. Found(c, w) = FlattenSeq(seqs)
  BY DEF Found, Collected
<1> HIDE DEF lo, hi, n
<1>3. \A s \in 1..n : lo + s - 1 \in 1..Len(Map(c)) /\ lo + s - 1 \in lo..hi
  BY <1>1 DEF n
<1>4. ASSUME NEW s \in 1..n
      PROVE  /\ seqs[s] \in Seq(Pairs) /\ Len(seqs[s]) = Map(c)[lo + s - 1]
             /\ \A i \in 1..Len(seqs[s]) : seqs[s][i] = <<lo + s - 1, i>>
  <2>1. Map(c)[lo + s - 1] \in Nat /\ lo + s - 1 \in Nat
    BY <1>1, <1>3
  <2>2. seqs[s] = [i \in 1..Map(c)[lo + s - 1] |-> <<lo + s - 1, i>>]
    OBVIOUS
  <2>3. \A i \in 1..Map(c)[lo + s - 1] : <<lo + s - 1, i>> \in Pairs
    BY <2>1 DEF Pairs
  <2> HIDE DEF seqs
  <2>4. QED
    BY <2>1, <2>2, <2>3
<1>5. seqs \in Seq(Seq(Pairs)) /\ Len(seqs) = n
  <2>1. n \in Nat /\ DOMAIN seqs = 1..n /\ seqs = [s \in 1..n |-> seqs[s]]
    BY <1>1 DEF n
  <2> HIDE DEF seqs
  <2>2. QED
    BY <1>4, <2>1
<1> HIDE DEF seqs
<1>6. \A s \in 1..n : Distinct(seqs[s])
  BY <1>4 DEF Distinct
<1>7. \A s \in 1..n : \A e \in Elements(seqs[s]) :
        \E i \in 1..Map(c)[lo + s - 1] : e = <<lo + s - 1, i>>
  BY <1>4 DEF Elements
<1>8. \A s, t \in 1..n : s # t => Elements(seqs[s]) \cap Elements(seqs[t]) = {}
  <2> SUFFICES ASSUME NEW s \in 1..n, NEW t \in 1..n, s # t,
                      NEW e \in Elements(seqs[s]), e \in Elements(seqs[t])
               PROVE  FALSE
    OBVIOUS
  <2>1. e[1] = lo + s - 1 /\ e[1] = lo + t - 1
    BY <1>7
  <2>2. QED
    BY <1>1, <2>1
<1>9. /\ Found(c, w) \in Seq(Pairs) /\ Distinct(Found(c, w))
      /\ Elements(Found(c, w)) = UNION {Elements(seqs[s]) : s \in 1..n}
  BY <1>2, <1>5, <1>6, <1>8, FlattenFacts
<1>10. ASSUME NEW e, e \in UNION {Elements(seqs[s]) : s \in 1..n} PROVE e \in Chunked(c, w)
  <2>1. PICK s \in 1..n : e \in Elements(seqs[s])
    BY <1>10
  <2>2. PICK i \in 1..Map(c)[lo + s - 1] : e = <<lo + s - 1, i>>
    BY <1>7, <2>1
  <2>3. e \in Entries(c) /\ e[1] \in lo..hi
    BY <1>3, <2>2, EntryFacts
  <2>4. QED
    BY <2>3, <1>1 DEF Chunked, lo, hi
<1>11. ASSUME NEW e \in Chunked(c, w) PROVE e \in UNION {Elements(seqs[s]) : s \in 1..n}
  <2>1. e \in Pairs /\ e[1] \in 1..Len(Map(c)) /\ e[2] \in 1..Map(c)[e[1]] /\ lo <= e[1] /\ e[1] <= hi
    BY EntryFacts DEF Chunked, lo, hi
  <2> DEFINE s == e[1] - lo + 1
  <2>2. s \in 1..n /\ lo + s - 1 = e[1]
    BY <1>1, <2>1 DEF n
  <2>3. e = <<e[1], e[2]>>
    BY <2>1 DEF Pairs
  <2> HIDE DEF s
  <2>4. e[2] \in 1..Len(seqs[s]) /\ seqs[s][e[2]] = e
    BY <1>4, <2>1, <2>2, <2>3
  <2>5. e \in Elements(seqs[s])
    BY <2>4 DEF Elements
  <2>6. QED
    BY <2>2, <2>5
<1>12. QED
  BY <1>9, <1>10, <1>11

-------------------------------------------------------------------------------
(***************************************************************************)
(* Steps of one call and what they leave to the others.                    *)
(***************************************************************************)
Mine(c) ==
    /\ job' = job
    /\ \A d \in Call \ {c} :
         /\ pc'[d] = pc[d] /\ at'[d] = at[d] /\ view'[d] = view[d] /\ arrays'[d] = arrays[d]
         /\ worker'[d] = worker[d] /\ stopped'[d] = stopped[d]
         /\ seen'[d] = seen[d] /\ ended'[d] = ended[d]

\* Arrays are made and never shortened.
Growing ==
    /\ Len(slabs) <= Len(slabs') /\ Len(ready) <= Len(ready')
    /\ Len(slabs') \in Nat /\ Len(ready') \in Nat
    /\ \A a \in 1..Len(slabs) : Len(slabs'[a]) = Len(slabs[a])
    /\ \A a \in 1..Len(ready) : Len(ready'[a]) = Len(ready[a])

\* A step that leaves the arrays alone makes none.
LEMMA StillGrowing ==
    ASSUME TypeOK, UNCHANGED <<slabs, ready>> PROVE Growing
  BY DEF TypeOK, Growing

\* Arrays that are there stay there.
LEMMA ArraysThere ==
    ASSUME TypeOK, Growing, NEW c \in Call, Control(c), Piped(c)
    PROVE  /\ arrays[c][1] \in 1..Len(slabs') /\ Workers(c) <= Len(slabs'[arrays[c][1]])
           /\ arrays[c][2] \in 1..Len(ready') /\ Workers(c) <= Len(ready'[arrays[c][2]])
<1>1. /\ arrays[c][1] \in 1..Len(slabs) /\ Workers(c) <= Len(slabs[arrays[c][1]])
      /\ arrays[c][2] \in 1..Len(ready) /\ Workers(c) <= Len(ready[arrays[c][2]])
  BY Zenon DEF Control, PipedControl
<1>2. /\ Len(slabs'[arrays[c][1]]) = Len(slabs[arrays[c][1]])
      /\ Len(ready'[arrays[c][2]]) = Len(ready[arrays[c][2]])
  BY <1>1, Zenon DEF Growing
<1>3. \A i, j \in Nat : i <= j => \A n \in 1..i : n \in 1..j
  OBVIOUS
<1>4. Len(slabs) \in Nat /\ Len(ready) \in Nat
  BY DEF TypeOK
<1>5. arrays[c][1] \in 1..Len(slabs') /\ arrays[c][2] \in 1..Len(ready')
  BY <1>1, <1>3, <1>4, Zenon DEF Growing
<1>6. QED
  BY <1>1, <1>2, <1>5, Zenon

\* A call stays where it is.
LEMMA ControlKept ==
    ASSUME TypeOK, Growing, job' = job, NEW d \in Call, Control(d),
           pc'[d] = pc[d], at'[d] = at[d], arrays'[d] = arrays[d],
           worker'[d] = worker[d], stopped'[d] = stopped[d], ended'[d] = ended[d]
    PROVE  Control(d)'
<1>1. /\ Kind(d)' = Kind(d) /\ Workers(d)' = Workers(d) /\ \A w : Chunk(d, w)' = Chunk(d, w)
      /\ pc'[d] = pc[d] /\ at'[d] = at[d] /\ arrays'[d] = arrays[d]
      /\ worker'[d] = worker[d] /\ stopped'[d] = stopped[d] /\ ended'[d] = ended[d]
  BY JobFixed
<1>2. Unstarted(d)' /\ DirectControl(d)' /\ InlineControl(d)'
  BY <1>1 DEF Control, Unstarted, DirectControl, InlineControl, Piped, Direct
<1>3. PipedControl(d)'
  <2> SUFFICES ASSUME Piped(d) PROVE PipedControl(d)'
    BY <1>1 DEF PipedControl, Piped
  <2>1. /\ arrays[d][1] \in 1..Len(slabs') /\ Workers(d) <= Len(slabs'[arrays[d][1]])
        /\ arrays[d][2] \in 1..Len(ready') /\ Workers(d) <= Len(ready'[arrays[d][2]])
    BY ArraysThere
  <2>2. /\ Kind(d) \in {"Range", "Snapshot"}
        /\ pc[d] \in {"wait", "visit", "join", "returned"}
        /\ pc[d] \in {"wait", "visit"} => ended[d] = "no" /\ at[d][1] \in 1..Workers(d)
        /\ stopped[d] = FALSE
        /\ Len(worker[d]) = Workers(d)
        /\ \A w \in DOMAIN worker[d] :
             /\ worker[d][w].pc \in Collects /\ worker[d][w].late = {}
             /\ worker[d][w].shard = Chunk(d, w)[1] /\ worker[d][w].last = Chunk(d, w)[2]
        /\ pc[d] = "returned" /\ ended[d] # "panicked" =>
             \A w \in DOMAIN worker[d] : worker[d][w].pc = "gone"
    BY Zenon DEF Control, PipedControl
  <2>3. QED
    BY <1>1, <2>1, <2>2, Zenon DEF PipedControl
<1>4. (\A w \in DOMAIN worker[d] : Late(d, worker[d][w]))'
  BY <1>1 DEF Control, Late, LateIf
<1>5. QED
  BY <1>2, <1>3, <1>4 DEF Control

\* The other calls stay where they are.
LEMMA OthersControl ==
    ASSUME TypeOK, \A d \in Call : Control(d), NEW c \in Call, Mine(c), Growing
    PROVE  \A d \in Call \ {c} : Control(d)'
  BY ControlKept DEF Mine

\* A step that takes no arrays, and does not bring a call back.
LEMMA OwnedKept ==
    ASSUME Owned, NEW c \in Call, Mine(c), UNCHANGED pools, arrays'[c] = arrays[c],
           pc[c] = "returned" => pc'[c] = "returned"
    PROVE  Owned'
<1>1. Call' = Call /\ \A d \in Call : (Holder(d)' => Holder(d)) /\ arrays'[d] = arrays[d]
  BY DEF Mine, Call, Holder, Piped
<1>2. QED
  BY <1>1 DEF Owned, pools

\* A step that gives the arrays of the call back, as the call returns.
LEMMA OwnedReleased ==
    ASSUME TypeOK, Owned, NEW c \in Call, Mine(c), Holder(c), arrays'[c] = arrays[c],
           pc'[c] = "returned",
           slabPool' = slabPool \cup {arrays[c][1]}, readyPool' = readyPool \cup {arrays[c][2]}
    PROVE  Owned'
<1>1. /\ Call' = Call /\ ~Holder(c)'
      /\ \A d \in Call : arrays'[d] = arrays[d]
      /\ \A d \in Call \ {c} : Holder(d)' => Holder(d)
  BY DEF Mine, Call, Holder, Piped
<1>2. QED
  BY <1>1 DEF Owned

\* A step of a call that keeps the three parts.
LEMMA PipeParts ==
    ASSUME PipeInv, NEW c \in Call, Mine(c), Growing, TypeOK', Control(c)', Owned'
    PROVE  PipeInv'
<1>1. Call' = Call
  BY JobFixed DEF Mine
<1>2. \A d \in Call \ {c} : Control(d)'
  BY OthersControl DEF PipeInv
<1>3. QED
  BY <1>1, <1>2 DEF PipeInv

\* A worker of the call is replaced.
LEMMA SetWorker ==
    ASSUME TypeOK, NEW c \in Call, NEW w \in DOMAIN worker[c], NEW k \in WorkerState,
           worker' = [worker EXCEPT ![c] = [worker[c] EXCEPT ![w] = k]]
    PROVE  /\ worker' \in [Call -> Seq(WorkerState)]
           /\ \A d \in Call \ {c} : worker'[d] = worker[d]
           /\ Len(worker'[c]) = Len(worker[c]) /\ DOMAIN worker'[c] = DOMAIN worker[c]
           /\ worker'[c] # <<>>
           /\ worker'[c][w] = k /\ \A v \in DOMAIN worker[c] \ {w} : worker'[c][v] = worker[c][v]
<1>1. worker[c] \in Seq(WorkerState) /\ worker \in [Call -> Seq(WorkerState)]
  BY DEF TypeOK
<1>2. w \in 1..Len(worker[c]) /\ DOMAIN worker[c] = 1..Len(worker[c]) /\ Len(worker[c]) \in Nat
  BY <1>1
<1> DEFINE s == [worker[c] EXCEPT ![w] = k]
<1>3. s \in Seq(WorkerState) /\ Len(s) = Len(worker[c])
  BY <1>1, <1>2, ExceptSeq
<1>4. /\ DOMAIN s = DOMAIN worker[c] /\ s[w] = k
      /\ \A v \in DOMAIN worker[c] \ {w} : s[v] = worker[c][v]
  BY <1>1
<1>5. s # <<>>
  BY <1>2, <1>4
<1>6. worker'[c] = s
  BY <1>1
<1>7. worker' \in [Call -> Seq(WorkerState)] /\ \A d \in Call \ {c} : worker'[d] = worker[d]
  BY <1>1, <1>3
<1>8. QED
  BY <1>3, <1>4, <1>5, <1>6, <1>7

\* A worker is at one of its labels.
LEMMA WorkerTyped ==
    ASSUME NEW k \in WorkerState, NEW l \in Collects \cup Visits
    PROVE  /\ [k EXCEPT !.pc = l] \in WorkerState
           /\ [k EXCEPT !.pc = l].pc = l /\ [k EXCEPT !.pc = l].shard = k.shard
           /\ [k EXCEPT !.pc = l].last = k.last /\ [k EXCEPT !.pc = l].entry = k.entry
           /\ [k EXCEPT !.pc = l].buf = k.buf /\ [k EXCEPT !.pc = l].late = k.late
  BY DEF WorkerState

\* MoveWorker is such a replacement.
LEMMA MoveIsSet ==
    ASSUME TypeOK, NEW c \in Call, NEW w \in DOMAIN worker[c], NEW l \in Collects \cup Visits,
           MoveWorker(c, w, l)
    PROVE  /\ worker[c][w] \in WorkerState
           /\ [worker[c][w] EXCEPT !.pc = l] \in WorkerState
           /\ worker' = [worker EXCEPT ![c] =
                [worker[c] EXCEPT ![w] = [worker[c][w] EXCEPT !.pc = l]]]
<1>1. worker[c][w] \in WorkerState
  BY DEF TypeOK
<1>2. QED
  BY <1>1, WorkerTyped DEF MoveWorker

\* One value of a function of numbers is increased.
LEMMA Increased ==
    ASSUME NEW S, NEW n \in [S -> Nat], NEW e
    PROVE  /\ [n EXCEPT ![e] = n[e] + 1] \in [S -> Nat]
           /\ \A x \in S : [n EXCEPT ![e] = n[e] + 1][x] = IF x = e THEN n[x] + 1 ELSE n[x]
<1> DEFINE g == [n EXCEPT ![e] = n[e] + 1]
<1>1. g = [x \in S |-> IF x = e THEN n[e] + 1 ELSE n[x]]
  OBVIOUS
<1> HIDE DEF g
<1>2. \A x \in S : g[x] = IF x = e THEN n[x] + 1 ELSE n[x]
  BY <1>1
<1>3. \A x \in S : n[x] \in Nat /\ n[x] + 1 \in Nat
  OBVIOUS
<1>4. \A x \in S : g[x] \in Nat
  BY <1>2, <1>3
<1>5. g \in [S -> Nat]
  BY <1>1, <1>4
<1>6. QED
  BY <1>2, <1>5 DEF g

\* The visitor is called: no other count changes.
LEMMA SeeFacts ==
    ASSUME TypeOK, NEW c \in Call, NEW e, See(c, e)
    PROVE  /\ DOMAIN seen' = Call /\ \A d \in Call \ {c} : seen'[d] = seen[d]
           /\ seen'[c] \in [Entries(c) -> Nat]
           /\ \A f \in Entries(c) : seen'[c][f] = IF f = e THEN seen[c][f] + 1 ELSE seen[c][f]
<1>1. /\ DOMAIN seen = Call /\ seen[c] \in [Entries(c) -> Nat]
      /\ seen' = [seen EXCEPT ![c] = [seen[c] EXCEPT ![e] = seen[c][e] + 1]]
  BY DEF TypeOK, See
<1>2. /\ DOMAIN seen' = Call /\ \A d \in Call \ {c} : seen'[d] = seen[d]
      /\ seen'[c] = [seen[c] EXCEPT ![e] = seen[c][e] + 1]
  BY <1>1
<1>3. QED
  BY <1>1, <1>2, Increased

\* The types of the next state, with the calls of this one.
LEMMA TypeParts ==
    ASSUME TypeOK, job' = job,
           pc' \in [Call -> Labels], at' \in [Call -> Pairs], view' \in [Call -> Slices],
           arrays' \in [Call -> Pairs], worker' \in [Call -> Seq(WorkerState)],
           stopped' \in [Call -> BOOLEAN], ended' \in [Call -> {"no", "stopped", "panicked"}],
           DOMAIN seen' = Call, \A c \in Call : seen'[c] \in [Entries(c) -> Nat],
           slabs' \in Seq(Seq(Slices)), buffer' \in Seq(Seq(Pairs)), ready' \in Seq(Seq(BOOLEAN)),
           slabPool' \subseteq 1..Len(slabs'), readyPool' \subseteq 1..Len(ready')
    PROVE  TypeOK'
  BY JobFixed, Zenon DEF TypeOK

\* A call that has neither arrays nor workers, before and after.
LEMMA InlineStep ==
    ASSUME PipeInv, NEW c \in Call, pc[c] \in {"new", "sequential"}, Mine(c),
           pc'[c] \in {"sequential", "returned"}, pc'[c] = "sequential" => ended'[c] = ended[c],
           UNCHANGED <<arrays, worker, stopped, shared, pools>>, TypeOK'
    PROVE  PipeInv'
<1>1. /\ arrays[c] = <<0, 0>> /\ worker[c] = <<>> /\ ended[c] = "no" /\ stopped[c] = FALSE
      /\ UNCHANGED <<arrays, worker, stopped, slabs, ready, pools>>
  BY DEF PipeInv, Control, Unstarted, Piped, shared
<1>2. /\ Unstarted(c)' /\ PipedControl(c)' /\ DirectControl(c)' /\ InlineControl(c)'
  BY <1>1 DEF Unstarted, PipedControl, DirectControl, InlineControl, Piped, Direct
<1>3. (\A w \in DOMAIN worker[c] : Late(c, worker[c][w]))'
  BY <1>1
<1>4. Owned' /\ Growing
  BY <1>1, OwnedKept, StillGrowing DEF PipeInv
<1>5. QED
  BY <1>2, <1>3, <1>4, PipeParts DEF Control

\* The sequential traversal.
LEMMA InlineTypes ==
    ASSUME PipeInv, NEW c \in Call, BeginSequential(c) \/ VisitInline(c) \/ NextShard(c)
    PROVE  /\ TypeOK' /\ Mine(c) /\ pc[c] \in {"new", "sequential"}
           /\ pc'[c] \in {"sequential", "returned"} /\ (pc'[c] = "sequential" => ended'[c] = ended[c])
           /\ UNCHANGED <<arrays, worker, stopped, shared, pools>>
<1> TypeOK
  BY DEF PipeInv
<1>0. /\ at[c] \in Pairs /\ at[c][1] \in Nat /\ at[c][2] \in Nat /\ DOMAIN seen = Call
      /\ pc \in [Call -> Labels] /\ at \in [Call -> Pairs]
      /\ ended \in [Call -> {"no", "stopped", "panicked"}]
  BY DEF TypeOK, Pairs
<1>1. CASE BeginSequential(c)
  <2>1. /\ job' = job /\ pc' = [pc EXCEPT ![c] = "sequential"] /\ pc[c] = "new"
        /\ UNCHANGED <<at, view, arrays, worker, stopped, seen, ended, slabs, buffer, ready,
                       slabPool, readyPool>>
    BY <1>1 DEF BeginSequential, Goto, history, shared, pools
  <2>2. Mine(c) /\ pc'[c] = "sequential" /\ pc' \in [Call -> Labels]
    BY <1>0, <2>1 DEF Mine, Labels
  <2>3. TypeOK'
    BY <2>1, <2>2, TypeParts DEF TypeOK
  <2>4. QED
    BY <2>1, <2>2, <2>3 DEF shared, pools
<1>2. CASE VisitInline(c)
  <2>1. /\ job' = job /\ pc[c] = "sequential" /\ See(c, <<at[c][1], at[c][2]>>)
        /\ UNCHANGED <<view, arrays, worker, stopped, slabs, buffer, ready, slabPool, readyPool>>
        /\ \/ ended' = ended /\ at' = [at EXCEPT ![c] = <<at[c][1], at[c][2] + 1>>] /\ pc' = pc
           \/ /\ ended' = [ended EXCEPT ![c] = "stopped"] \/ ended' = [ended EXCEPT ![c] = "panicked"]
              /\ pc' = [pc EXCEPT ![c] = "returned"] /\ at' = at
    BY <1>2 DEF VisitInline, Goes, Stops, Panics, Goto, shared, pools
  <2>2. /\ DOMAIN seen' = Call /\ \A d \in Call \ {c} : seen'[d] = seen[d]
        /\ seen'[c] \in [Entries(c) -> Nat]
    BY <2>1, SeeFacts
  <2>3. <<at[c][1], at[c][2] + 1>> \in Pairs
    BY <1>0 DEF Pairs
  <2>4. /\ pc' \in [Call -> Labels] /\ at' \in [Call -> Pairs]
        /\ ended' \in [Call -> {"no", "stopped", "panicked"}]
    BY <1>0, <2>1, <2>3 DEF Labels
  <2>5. /\ \A d \in Call \ {c} : pc'[d] = pc[d] /\ at'[d] = at[d] /\ ended'[d] = ended[d]
        /\ pc'[c] \in {"sequential", "returned"} /\ (pc'[c] = "sequential" => ended'[c] = ended[c])
    BY <1>0, <2>1
  <2>6. \A d \in Call : seen'[d] \in [Entries(d) -> Nat]
    BY <2>2 DEF TypeOK
  <2>7. TypeOK'
    BY <2>1, <2>2, <2>4, <2>6, TypeParts DEF TypeOK
  <2>8. QED
    BY <2>1, <2>2, <2>5, <2>7 DEF Mine, shared, pools
<1>3. CASE NextShard(c)
  <2> DEFINE l == IF at[c][1] < Len(Map(c)) THEN "sequential" ELSE "returned"
  <2>1. /\ job' = job /\ pc[c] = "sequential" /\ at' = [at EXCEPT ![c] = <<at[c][1] + 1, 1>>]
        /\ pc' = [pc EXCEPT ![c] = l]
        /\ UNCHANGED <<view, arrays, worker, stopped, seen, ended, slabs, buffer, ready,
                       slabPool, readyPool>>
    BY <1>3 DEF NextShard, Goto, history, shared, pools
  <2>2. l \in {"sequential", "returned"} /\ <<at[c][1] + 1, 1>> \in Pairs
    BY <1>0 DEF Pairs
  <2> HIDE DEF l
  <2>3. /\ Mine(c) /\ pc'[c] = l /\ pc' \in [Call -> Labels] /\ at' \in [Call -> Pairs]
    BY <1>0, <2>1, <2>2 DEF Mine, Labels
  <2>4. TypeOK'
    BY <2>1, <2>3, TypeParts DEF TypeOK
  <2>5. QED
    BY <2>1, <2>2, <2>3, <2>4 DEF shared, pools
<1>4. QED
  BY <1>1, <1>2, <1>3

-------------------------------------------------------------------------------
(***************************************************************************)
(* Workers and arrays.                                                     *)
(***************************************************************************)
\* The workers of a call, each at the beginning of its chunk.
LEMMA NewWorkersFacts ==
    ASSUME TypeOK, NEW c \in Call, NEW l \in {"collect", "check"}
    PROVE  LET k == NewWorkers(c, l)
           IN /\ k \in Seq(WorkerState) /\ Len(k) = Workers(c) /\ DOMAIN k = 1..Workers(c)
              /\ k # <<>>
              /\ \A w \in 1..Workers(c) :
                   /\ k[w].pc = l /\ k[w].shard = Chunk(c, w)[1] /\ k[w].last = Chunk(c, w)[2]
                   /\ k[w].entry = 1 /\ k[w].late = {}
<1> DEFINE K(w) == [pc |-> l, shard |-> Chunk(c, w)[1], last |-> Chunk(c, w)[2],
                    entry |-> 1, buf |-> NilSlice, late |-> {}]
<1>1. NilSlice \in Slices
  BY DEF NilSlice, Slice, Slices
<1>2. job \in Jobs
  BY DEF TypeOK
<1>3. Workers(c) \in Nat \ {0}
  BY <1>2, WorkerCount
<1>4. \A w \in 1..Workers(c) : Chunk(c, w)[1] \in Nat /\ Chunk(c, w)[2] \in Nat
  BY <1>2, ChunkFacts DEF Pairs
<1>5. \A w \in 1..Workers(c) : K(w) \in WorkerState
  BY <1>1, <1>4 DEF WorkerState, Collects, Visits
<1>6. \A w \in 1..Workers(c) :
        /\ K(w).pc = l /\ K(w).shard = Chunk(c, w)[1] /\ K(w).last = Chunk(c, w)[2]
        /\ K(w).entry = 1 /\ K(w).late = {}
  OBVIOUS
<1>7. NewWorkers(c, l) = [w \in 1..Workers(c) |-> K(w)]
  BY DEF NewWorkers
<1> HIDE DEF K
<1>8. /\ NewWorkers(c, l) \in Seq(WorkerState) /\ Len(NewWorkers(c, l)) = Workers(c)
      /\ DOMAIN NewWorkers(c, l) = 1..Workers(c)
      /\ \A w \in 1..Workers(c) : NewWorkers(c, l)[w] = K(w)
  BY <1>3, <1>5, <1>7
<1>9. NewWorkers(c, l) # <<>>
  BY <1>3, <1>8
<1>10. QED
  BY <1>6, <1>8, <1>9

\* Slices as they come out of a pool: their buffers, and nothing in them.
Emptied(old, new) ==
    /\ Len(new) = Len(old)
    /\ \A w \in DOMAIN old : new[w].back = old[w].back

EmptySlices(a, n) ==
    slabs' = [slabs EXCEPT ![a] = [w \in DOMAIN @ |->
                 IF w <= n THEN Slice(@[w].back, 0) ELSE @[w]]]

\* An empty slice of the same buffer.
LEMMA SliceTyped ==
    ASSUME NEW s \in Slices PROVE Slice(s.back, 0) \in Slices /\ Slice(s.back, 0).back = s.back
  BY DEF Slice, Slices

\* The slices of one array are emptied.
LEMMA EmptyFacts ==
    ASSUME TypeOK, NEW a \in 1..Len(slabs), NEW n \in Nat, EmptySlices(a, n)
    PROVE  /\ slabs' \in Seq(Seq(Slices)) /\ Len(slabs') = Len(slabs)
           /\ \A b \in 1..Len(slabs) : Emptied(slabs[b], slabs'[b]) /\ (b # a => slabs'[b] = slabs[b])
<1> DEFINE old == slabs[a]
           new == [w \in DOMAIN old |-> IF w <= n THEN Slice(old[w].back, 0) ELSE old[w]]
<1>1. slabs \in Seq(Seq(Slices)) /\ old \in Seq(Slices)
  BY DEF TypeOK
<1>2. slabs' = [slabs EXCEPT ![a] = new]
  BY DEF EmptySlices
<1> HIDE DEF old
<1>3. DOMAIN old = 1..Len(old) /\ Len(old) \in Nat
  BY <1>1
<1>4. \A w \in DOMAIN old : old[w] \in Slices /\ Slice(old[w].back, 0) \in Slices
  BY <1>1, SliceTyped
<1>5. \A w \in DOMAIN old : new[w] \in Slices /\ new[w].back = old[w].back
  BY <1>4, SliceTyped
<1>6. new = [w \in 1..Len(old) |-> new[w]]
  BY <1>3
<1> HIDE DEF new
<1>7. new \in Seq(Slices) /\ Len(new) = Len(old)
  BY <1>3, <1>5, <1>6
<1>8. Emptied(old, new)
  BY <1>5, <1>7 DEF Emptied
<1>9. /\ slabs' \in Seq(Seq(Slices)) /\ Len(slabs') = Len(slabs)
      /\ \A b \in 1..Len(slabs) : slabs'[b] = IF b = a THEN new ELSE slabs[b]
  BY <1>1, <1>2, <1>7, ExceptSeq
<1>10. \A b \in 1..Len(slabs) : Emptied(slabs[b], slabs[b])
  BY DEF Emptied
<1>11. QED
  BY <1>8, <1>9, <1>10 DEF old

\* An array from the pool, or a new one: long enough, in no pool, and with
\* the buffers it had.
LEMMA SlabsAcquired ==
    ASSUME TypeOK, NEW n \in Nat \ {0}, NEW a \in 1..(Len(slabs) + 1), AcquireRangeSlabs(n, a)
    PROVE  /\ slabs' \in Seq(Seq(Slices)) /\ a \in 1..Len(slabs') /\ n <= Len(slabs'[a])
           /\ a \in slabPool \/ a = Len(slabs) + 1
           /\ slabPool' = slabPool \ {a} /\ slabPool' \subseteq 1..Len(slabs')
           /\ Len(slabs) <= Len(slabs') /\ Len(slabs') \in Nat
           /\ \A b \in 1..Len(slabs) :
                Emptied(slabs[b], slabs'[b]) /\ (b # a => slabs'[b] = slabs[b])
           /\ \A b \in 1..Len(slabs') :
                \/ b \in 1..Len(slabs)
                \/ b = a /\ (\A w \in DOMAIN slabs'[b] : slabs'[b][w].back = 0)
<1>1. /\ slabs \in Seq(Seq(Slices)) /\ Len(slabs) \in Nat /\ slabPool \subseteq 1..Len(slabs)
  BY DEF TypeOK
<1>2. slabPool' = slabPool \ {a}
  BY DEF AcquireRangeSlabs
<1>3. CASE a > Len(slabs)
  <2> DEFINE L == LargerOf(n, ArrayCap)
             f == [w \in 1..L |-> NilSlice]
  <2>1. slabs' = Append(slabs, f) /\ a = Len(slabs) + 1
    BY <1>1, <1>3 DEF AcquireRangeSlabs, Fresh
  <2>2. L \in Nat /\ n <= L
    BY NumbersAssumption DEF LargerOf
  <2>3. NilSlice \in Slices /\ NilSlice.back = 0
    BY DEF NilSlice, Slice, Slices
  <2> HIDE DEF L
  <2>4. /\ f \in Seq(Slices) /\ Len(f) = L /\ \A w \in DOMAIN f : f[w].back = 0
    BY <2>2, <2>3
  <2> HIDE DEF f
  <2>5. /\ slabs' \in Seq(Seq(Slices)) /\ Len(slabs') = Len(slabs) + 1
        /\ slabs'[Len(slabs) + 1] = f /\ \A b \in 1..Len(slabs) : slabs'[b] = slabs[b]
    BY <1>1, <2>1, <2>4
  <2>6. \A b \in 1..Len(slabs) : Emptied(slabs[b], slabs'[b])
    BY <2>5 DEF Emptied
  <2>7. \A b \in 1..Len(slabs') : b \in 1..Len(slabs) \/ b = a
    BY <1>1, <2>1, <2>5
  <2>8. slabPool' \subseteq 1..Len(slabs')
    <3>1. Len(slabs') = Len(slabs) + 1
      BY <2>5
    <3>2. \A x \in 1..Len(slabs) : x \in 1..Len(slabs')
      BY <1>1, <3>1
    <3>3. QED
      BY <1>1, <1>2, <3>2
  <2>9. QED
    BY <1>1, <1>2, <2>1, <2>2, <2>4, <2>5, <2>6, <2>7, <2>8
<1>4. CASE ~(a > Len(slabs))
  <2>1. a \in 1..Len(slabs) /\ a \in slabPool /\ Len(slabs[a]) >= n
    BY <1>1, <1>4 DEF AcquireRangeSlabs, Got
  <2>2. EmptySlices(a, n)
    BY <1>4 DEF AcquireRangeSlabs, EmptySlices
  <2>3. /\ slabs' \in Seq(Seq(Slices)) /\ Len(slabs') = Len(slabs)
        /\ \A b \in 1..Len(slabs) :
             Emptied(slabs[b], slabs'[b]) /\ (b # a => slabs'[b] = slabs[b])
    BY <2>1, <2>2, EmptyFacts
  <2>4. Len(slabs'[a]) = Len(slabs[a])
    BY <2>1, <2>3 DEF Emptied
  <2>5. QED
    BY <1>1, <1>2, <2>1, <2>3, <2>4
<1>5. QED
  BY <1>3, <1>4

\* The flags of a call are down when it begins.
LEMMA ReadyAcquired ==
    ASSUME TypeOK, NEW n \in Nat \ {0}, NEW a \in 1..(Len(ready) + 1), AcquireRangeReady(n, a)
    PROVE  /\ ready' \in Seq(Seq(BOOLEAN)) /\ a \in 1..Len(ready') /\ n <= Len(ready'[a])
           /\ a \in readyPool \/ a = Len(ready) + 1
           /\ readyPool' = readyPool \ {a} /\ readyPool' \subseteq 1..Len(ready')
           /\ Len(ready) <= Len(ready') /\ Len(ready') \in Nat
           /\ \A b \in 1..Len(ready) : Len(ready'[b]) = Len(ready[b])
                                       /\ (b # a => ready'[b] = ready[b])
           /\ \A w \in 1..n : ready'[a][w] = FALSE
<1>1. /\ ready \in Seq(Seq(BOOLEAN)) /\ Len(ready) \in Nat /\ readyPool \subseteq 1..Len(ready)
  BY DEF TypeOK
<1>2. readyPool' = readyPool \ {a}
  BY DEF AcquireRangeReady
<1>3. CASE a > Len(ready)
  <2> DEFINE L == LargerOf(n, ArrayCap)
             f == [w \in 1..L |-> FALSE]
  <2>1. ready' = Append(ready, f) /\ a = Len(ready) + 1
    BY <1>1, <1>3 DEF AcquireRangeReady, Fresh
  <2>2. L \in Nat /\ n <= L
    BY NumbersAssumption DEF LargerOf
  <2> HIDE DEF L
  <2>4. /\ f \in Seq(BOOLEAN) /\ Len(f) = L /\ \A w \in 1..n : f[w] = FALSE
    BY <2>2
  <2> HIDE DEF f
  <2>5. /\ ready' \in Seq(Seq(BOOLEAN)) /\ Len(ready') = Len(ready) + 1
        /\ ready'[Len(ready) + 1] = f /\ \A b \in 1..Len(ready) : ready'[b] = ready[b]
    BY <1>1, <2>1, <2>4
  <2>6. readyPool' \subseteq 1..Len(ready')
    BY <1>1, <1>2, <2>5
  <2>7. QED
    BY <1>1, <1>2, <2>1, <2>2, <2>4, <2>5, <2>6
<1>4. CASE ~(a > Len(ready))
  <2> DEFINE old == ready[a]
             new == [w \in DOMAIN old |-> w > n /\ old[w]]
  <2>1. a \in 1..Len(ready) /\ a \in readyPool /\ Len(old) >= n
    BY <1>1, <1>4 DEF AcquireRangeReady, Got
  <2>2. ready' = [ready EXCEPT ![a] = new]
    BY <1>4 DEF AcquireRangeReady
  <2>3. old \in Seq(BOOLEAN) /\ Len(old) \in Nat /\ DOMAIN old = 1..Len(old)
    BY <1>1, <2>1
  <2> HIDE DEF old
  <2>4. \A w \in 1..n : new[w] = FALSE
    <3>1. \A w \in 1..n : w \in DOMAIN old /\ ~(w > n)
      BY <2>1, <2>3
    <3>2. \A w \in DOMAIN old : new[w] = (w > n /\ old[w])
      BY Zenon
    <3> HIDE DEF new
    <3>3. QED
      BY <3>1, <3>2, Zenon
  <2>5. new \in Seq(BOOLEAN) /\ Len(new) = Len(old)
    BY <2>3
  <2> HIDE DEF new
  <2>6. /\ ready' \in Seq(Seq(BOOLEAN)) /\ Len(ready') = Len(ready)
        /\ \A b \in 1..Len(ready) : ready'[b] = IF b = a THEN new ELSE ready[b]
    BY <1>1, <2>1, <2>2, <2>5, ExceptSeq
  <2>7. QED
    BY <1>1, <1>2, <2>1, <2>4, <2>5, <2>6 DEF old
<1>5. QED
  BY <1>3, <1>4

-------------------------------------------------------------------------------
(***************************************************************************)
(* The steps keep PipeInv.                                                 *)
(***************************************************************************)
\* RangePar starts its workers.
LEMMA StepBeginDirect ==
    ASSUME PipeInv, NEW c \in Call, BeginDirect(c)
    PROVE  PipeInv' /\ Mine(c)
<1> TypeOK
  BY DEF PipeInv
<1>1. /\ job' = job /\ pc[c] = "new" /\ Kind(c) \in {"RangePar", "TypedRangePar"}
      /\ worker' = [worker EXCEPT ![c] = NewWorkers(c, "check")] /\ pc' = [pc EXCEPT ![c] = "join"]
      /\ UNCHANGED <<at, view, arrays, stopped, seen, ended, slabs, buffer, ready, slabPool, readyPool>>
  BY DEF BeginDirect, Goto, history, shared, pools
<1> DEFINE k == NewWorkers(c, "check")
<1>2. /\ k \in Seq(WorkerState) /\ Len(k) = Workers(c) /\ k # <<>> /\ DOMAIN k = 1..Workers(c)
      /\ \A w \in DOMAIN k : k[w].pc = "check" /\ k[w].late = {}
  BY NewWorkersFacts
<1> HIDE DEF k
<1>3. /\ worker' \in [Call -> Seq(WorkerState)] /\ pc' \in [Call -> Labels]
      /\ worker'[c] = k /\ pc'[c] = "join" /\ Mine(c)
  BY <1>1, <1>2 DEF TypeOK, Labels, Mine, k
<1>4. TypeOK'
  BY <1>1, <1>3, TypeParts DEF TypeOK
<1>5. arrays[c] = <<0, 0>> /\ ended[c] = "no" /\ stopped[c] = FALSE
  BY <1>1 DEF PipeInv, Control, Unstarted, Piped
<1>6. arrays'[c] = <<0, 0>> /\ ended'[c] = "no" /\ stopped'[c] = FALSE
      /\ Kind(c)' = Kind(c) /\ Workers(c)' = Workers(c)
  BY <1>1, <1>5, JobFixed
<1>7. Unstarted(c)' /\ PipedControl(c)' /\ InlineControl(c)'
  BY <1>2, <1>3, <1>6 DEF Unstarted, PipedControl, InlineControl, Piped, Direct
<1>8. DirectControl(c)'
  BY <1>1, <1>2, <1>3, <1>6 DEF DirectControl, Visits
<1>9. (\A w \in DOMAIN worker[c] : Late(c, worker[c][w]))'
  BY <1>2, <1>3 DEF Late, LateIf
<1>10. Owned' /\ Growing
  BY <1>1, <1>3, OwnedKept, StillGrowing DEF PipeInv, pools
<1>11. QED
  BY <1>3, <1>4, <1>7, <1>8, <1>9, <1>10, PipeParts DEF Control

\* Range takes its arrays and starts its workers.
LEMMA BeginPipelineFacts ==
    ASSUME PipeInv, NEW c \in Call, BeginPipeline(c)
    PROVE  \E a \in 1..(Len(slabs) + 1), b \in 1..(Len(ready) + 1) :
             /\ AcquireRangeSlabs(Workers(c), a) /\ AcquireRangeReady(Workers(c), b)
             /\ arrays' = [arrays EXCEPT ![c] = <<a, b>>]
             /\ job' = job /\ pc[c] = "new" /\ Kind(c) \in {"Range", "Snapshot"}
             /\ worker' = [worker EXCEPT ![c] = NewWorkers(c, "collect")]
             /\ pc' = [pc EXCEPT ![c] = "wait"]
             /\ UNCHANGED <<at, view, stopped, seen, ended, buffer>>
  BY DEF BeginPipeline, Goto, history

\* The new arrays are the call's, and the workers are where they begin.
LEMMA StepBeginPipeline ==
    ASSUME PipeInv, NEW c \in Call, BeginPipeline(c)
    PROVE  PipeInv' /\ Mine(c)
<1> TypeOK
  BY DEF PipeInv
<1>1. PICK a \in 1..(Len(slabs) + 1), b \in 1..(Len(ready) + 1) :
             /\ AcquireRangeSlabs(Workers(c), a) /\ AcquireRangeReady(Workers(c), b)
             /\ arrays' = [arrays EXCEPT ![c] = <<a, b>>]
             /\ job' = job /\ pc[c] = "new" /\ Kind(c) \in {"Range", "Snapshot"}
             /\ worker' = [worker EXCEPT ![c] = NewWorkers(c, "collect")]
             /\ pc' = [pc EXCEPT ![c] = "wait"]
             /\ UNCHANGED <<at, view, stopped, seen, ended, buffer>>
  BY BeginPipelineFacts
<1> DEFINE k == NewWorkers(c, "collect")
           n == Workers(c)
<1>2. /\ k \in Seq(WorkerState) /\ Len(k) = n /\ DOMAIN k = 1..n
      /\ \A w \in 1..n : /\ k[w].pc = "collect" /\ k[w].late = {}
                         /\ k[w].shard = Chunk(c, w)[1] /\ k[w].last = Chunk(c, w)[2]
  BY NewWorkersFacts
<1>3. n \in Nat \ {0} /\ Len(slabs) \in Nat /\ Len(ready) \in Nat
  BY WorkerCount DEF TypeOK
<1>4. /\ slabs' \in Seq(Seq(Slices)) /\ a \in 1..Len(slabs') /\ n <= Len(slabs'[a])
      /\ a \in slabPool \/ a = Len(slabs) + 1
      /\ slabPool' = slabPool \ {a} /\ slabPool' \subseteq 1..Len(slabs')
      /\ Len(slabs) <= Len(slabs') /\ Len(slabs') \in Nat
      /\ \A x \in 1..Len(slabs) : Emptied(slabs[x], slabs'[x])
  BY <1>1, <1>3, SlabsAcquired
<1>5. /\ ready' \in Seq(Seq(BOOLEAN)) /\ b \in 1..Len(ready') /\ n <= Len(ready'[b])
      /\ b \in readyPool \/ b = Len(ready) + 1
      /\ readyPool' = readyPool \ {b} /\ readyPool' \subseteq 1..Len(ready')
      /\ Len(ready) <= Len(ready') /\ Len(ready') \in Nat
      /\ \A x \in 1..Len(ready) : Len(ready'[x]) = Len(ready[x])
  BY <1>1, <1>3, ReadyAcquired
<1> HIDE DEF k, n
<1>6. <<a, b>> \in Pairs /\ <<a, b>> # <<0, 0>> /\ a # 0 /\ b # 0
  BY <1>3 DEF Pairs
<1>7. /\ worker' \in [Call -> Seq(WorkerState)] /\ pc' \in [Call -> Labels]
      /\ arrays' \in [Call -> Pairs] /\ arrays'[c] = <<a, b>>
      /\ worker'[c] = k /\ pc'[c] = "wait" /\ Mine(c)
  BY <1>1, <1>2, <1>6 DEF TypeOK, Labels, Mine, k
<1>8. TypeOK'
  BY <1>1, <1>4, <1>5, <1>7, TypeParts DEF TypeOK
<1>9. arrays[c] = <<0, 0>> /\ ended[c] = "no" /\ stopped[c] = FALSE /\ at[c] = <<1, 1>>
  BY <1>1 DEF PipeInv, Control, Unstarted, Piped
<1>10. /\ ended'[c] = "no" /\ at'[c][1] \in 1..n /\ stopped'[c] = FALSE /\ Kind(c)' = Kind(c) /\ Workers(c)' = n
       /\ \A w : Chunk(c, w)' = Chunk(c, w)
  BY <1>1, <1>3, <1>9, JobFixed DEF n
<1>11. Unstarted(c)' /\ DirectControl(c)' /\ InlineControl(c)'
  BY <1>6, <1>7 DEF Unstarted, DirectControl, InlineControl, Piped, Direct
<1>12. PipedControl(c)'
  <2>1. arrays'[c][1] = a /\ arrays'[c][2] = b
    BY <1>7
  <2>2. \A w \in DOMAIN worker'[c] : w \in 1..n /\ worker'[c][w] = k[w]
    BY <1>2, <1>7
  <2>3. "collect" \in Collects
    BY DEF Collects
  <2>4. /\ Len(worker'[c]) = Workers(c)'
        /\ Workers(c)' <= Len(slabs'[arrays'[c][1]]) /\ Workers(c)' <= Len(ready'[arrays'[c][2]])
        /\ Kind(c)' \in {"Range", "Snapshot"}
    BY <1>1, <1>2, <1>4, <1>5, <1>7, <1>10, <2>1
  <2>5. \A w \in DOMAIN worker'[c] :
          /\ worker'[c][w].pc \in Collects /\ worker'[c][w].late = {}
          /\ worker'[c][w].shard = Chunk(c, w)'[1] /\ worker'[c][w].last = Chunk(c, w)'[2]
    BY <1>2, <1>10, <2>2, <2>3
  <2>6. /\ pc'[c] \in {"wait", "visit", "join", "returned"} /\ pc'[c] # "returned"
        /\ arrays'[c][1] \in 1..Len(slabs') /\ arrays'[c][2] \in 1..Len(ready')
    BY <1>4, <1>5, <1>7, <2>1
  <2>7. QED
    BY <1>10, <2>4, <2>5, <2>6, Zenon DEF PipedControl
<1>13. (\A w \in DOMAIN worker[c] : Late(c, worker[c][w]))'
  BY <1>2, <1>7 DEF Late, LateIf
<1>14. Growing
  BY <1>4, <1>5 DEF Growing, Emptied
<1>15. Owned'
  <2>1. Call' = Call /\ \A d \in Call \ {c} : (Holder(d)' <=> Holder(d)) /\ arrays'[d] = arrays[d]
    BY <1>7 DEF Mine, Call, Holder, Piped
  <2>2. \A d \in Call \ {c} : Holder(d) =>
          /\ arrays[d][1] \in 1..Len(slabs) /\ arrays[d][1] \notin slabPool
          /\ arrays[d][2] \in 1..Len(ready) /\ arrays[d][2] \notin readyPool
    BY DEF PipeInv, Owned, Control, PipedControl, Holder
  <2>3. \A d \in Call \ {c} : Holder(d) => arrays[d][1] # a /\ arrays[d][2] # b
    <3>1. a \in slabPool \/ a \notin 1..Len(slabs)
      BY <1>3, <1>4
    <3>2. b \in readyPool \/ b \notin 1..Len(ready)
      BY <1>3, <1>5
    <3>3. QED
      BY <2>2, <3>1, <3>2
  <2>4. /\ a \notin slabPool' /\ b \notin readyPool'
        /\ slabPool' \subseteq slabPool /\ readyPool' \subseteq readyPool
    BY <1>4, <1>5
  <2>5. arrays'[c][1] = a /\ arrays'[c][2] = b
    BY <1>7
  <2>6. QED
    BY SMTT(60), <2>1, <2>2, <2>3, <2>4, <2>5 DEF PipeInv, Owned
<1>16. QED
  BY <1>7, <1>8, <1>11, <1>12, <1>13, <1>14, <1>15, PipeParts DEF Control

\* A step of a call with arrays, or of one of its workers.
LEMMA PipedStep ==
    ASSUME PipeInv, NEW c \in Call, Piped(c), Mine(c), Growing, TypeOK', Owned',
           arrays'[c] = arrays[c], stopped'[c] = stopped[c],
           DOMAIN worker'[c] = DOMAIN worker[c], Len(worker'[c]) = Len(worker[c]),
           \A w \in DOMAIN worker[c] :
             /\ worker'[c][w].pc \in Collects /\ worker'[c][w].late = worker[c][w].late
             /\ worker'[c][w].shard = worker[c][w].shard /\ worker'[c][w].last = worker[c][w].last,
           pc'[c] \in {"wait", "visit", "join", "returned"},
           pc'[c] \in {"wait", "visit"} => ended'[c] = "no" /\ at'[c][1] \in 1..Workers(c),
           pc'[c] = "returned" /\ ended'[c] # "panicked" =>
             \A w \in DOMAIN worker[c] : worker'[c][w].pc = "gone"
    PROVE  PipeInv'
<1>1. /\ Kind(c)' = Kind(c) /\ Workers(c)' = Workers(c) /\ \A w : Chunk(c, w)' = Chunk(c, w)
  BY JobFixed DEF Mine
<1>2. /\ Kind(c) \in {"Range", "Snapshot"} /\ stopped[c] = FALSE /\ Len(worker[c]) = Workers(c)
      /\ \A w \in DOMAIN worker[c] :
           /\ worker[c][w].late = {}
           /\ worker[c][w].shard = Chunk(c, w)[1] /\ worker[c][w].last = Chunk(c, w)[2]
  BY Zenon DEF PipeInv, Control, PipedControl
<1>3. /\ arrays[c][1] \in 1..Len(slabs') /\ Workers(c) <= Len(slabs'[arrays[c][1]])
      /\ arrays[c][2] \in 1..Len(ready') /\ Workers(c) <= Len(ready'[arrays[c][2]])
  BY ArraysThere DEF PipeInv
<1>4. PipedControl(c)'
  BY <1>1, <1>2, <1>3, ZenonT(60) DEF PipedControl
<1>5. Unstarted(c)' /\ DirectControl(c)' /\ InlineControl(c)'
  BY DEF Unstarted, DirectControl, InlineControl, Piped, Direct
<1>6. (\A w \in DOMAIN worker[c] : Late(c, worker[c][w]))'
  BY <1>2 DEF Late, LateIf
<1>7. QED
  BY <1>4, <1>5, <1>6, PipeParts DEF Control

\* In which mode a call is, by its label.
LEMMA Modes ==
    ASSUME PipeInv, NEW c \in Call
    PROVE  /\ pc[c] \in {"wait", "visit"} =>
                Piped(c) /\ ended[c] = "no" /\ at[c][1] \in 1..Workers(c)
           /\ pc[c] = "join" => Piped(c) \/ Direct(c)
           /\ Piped(c) => Kind(c) \in {"Range", "Snapshot"}
           /\ Direct(c) => Kind(c) \in {"RangePar", "TypedRangePar"}
           /\ worker[c] # <<>> => Piped(c) \/ Direct(c)
  BY DEF PipeInv, Control, Unstarted, PipedControl, DirectControl, InlineControl, Piped, Direct

\* AwaitReady and NextSlab, and the visitor that goes on or asks to stop.
LEMMA CallerMoves ==
    ASSUME PipeInv, NEW c \in Call, Piped(c), pc[c] # "returned", Mine(c), TypeOK',
           UNCHANGED <<arrays, worker, stopped, slabs, ready, pools>>,
           pc'[c] \in {"wait", "visit", "join"},
           pc'[c] \in {"wait", "visit"} => ended'[c] = "no" /\ at'[c][1] \in 1..Workers(c)
    PROVE  PipeInv'
<1>1. Owned' /\ Growing
  BY OwnedKept, StillGrowing DEF PipeInv
<1>2. \A w \in DOMAIN worker[c] : worker[c][w].pc \in Collects
  BY Zenon DEF PipeInv, Control, PipedControl
<1>3. QED
  BY <1>1, <1>2, PipedStep

\* The caller's waiting ends.
LEMMA StepAwaitReady ==
    ASSUME PipeInv, NEW c \in Call, AwaitReady(c)
    PROVE  PipeInv' /\ Mine(c)
<1>1. /\ TypeOK /\ pc[c] = "wait" /\ job' = job
      /\ view' = [view EXCEPT ![c] = slabs[arrays[c][1]][at[c][1]]]
      /\ pc' = [pc EXCEPT ![c] = "visit"] /\ ready[arrays[c][2]][at[c][1]]
      /\ UNCHANGED <<at, arrays, worker, stopped, seen, ended, slabs, buffer, ready, slabPool, readyPool>>
  BY DEF AwaitReady, Goto, PipeInv, history, shared, pools
<1>2. Piped(c) /\ ended[c] = "no" /\ at[c][1] \in 1..Workers(c)
  BY <1>1, Modes
<1>3. slabs[arrays[c][1]][at[c][1]] \in Slices
  <2>1. arrays[c][1] \in 1..Len(slabs) /\ Workers(c) <= Len(slabs[arrays[c][1]])
    BY <1>2, Zenon DEF PipeInv, Control, PipedControl
  <2>2. slabs[arrays[c][1]] \in Seq(Slices) /\ Workers(c) \in Nat
    BY <1>1, <2>1, WorkerCount DEF TypeOK
  <2>3. QED
    BY <1>2, <2>1, <2>2
<1>4. view' \in [Call -> Slices] /\ pc' \in [Call -> Labels] /\ Mine(c) /\ pc'[c] = "visit"
  BY <1>1, <1>3 DEF TypeOK, Labels, Mine
<1>5. TypeOK'
  BY <1>1, <1>4, TypeParts DEF TypeOK
<1>6. QED
  BY <1>1, <1>2, <1>4, <1>5, CallerMoves DEF pools

\* The caller goes to the next slab.
LEMMA StepNextSlab ==
    ASSUME PipeInv, NEW c \in Call, NextSlab(c)
    PROVE  PipeInv' /\ Mine(c)
<1> DEFINE l == IF at[c][1] < Workers(c) THEN "wait" ELSE "join"
<1>1. /\ TypeOK /\ pc[c] = "visit" /\ job' = job
      /\ at' = [at EXCEPT ![c] = <<at[c][1] + 1, 1>>] /\ pc' = [pc EXCEPT ![c] = l]
      /\ UNCHANGED <<view, arrays, worker, stopped, seen, ended, slabs, buffer, ready, slabPool, readyPool>>
  BY DEF NextSlab, Goto, PipeInv, history, shared, pools
<1>2. Piped(c) /\ ended[c] = "no" /\ at[c][1] \in 1..Workers(c) /\ Workers(c) \in Nat
  BY <1>1, Modes, WorkerCount DEF TypeOK
<1>3. /\ <<at[c][1] + 1, 1>> \in Pairs /\ l \in {"wait", "join"}
      /\ l = "wait" => at[c][1] + 1 \in 1..Workers(c)
  BY <1>2 DEF Pairs
<1> HIDE DEF l
<1>4. /\ at' \in [Call -> Pairs] /\ pc' \in [Call -> Labels] /\ Mine(c) /\ pc'[c] = l
      /\ at'[c] = <<at[c][1] + 1, 1>>
  BY <1>1, <1>3 DEF TypeOK, Labels, Mine
<1>5. TypeOK'
  BY <1>1, <1>4, TypeParts DEF TypeOK
<1>6. pc'[c] \in {"wait", "visit"} => ended'[c] = "no" /\ at'[c][1] \in 1..Workers(c)
  BY <1>1, <1>2, <1>3, <1>4
<1>7. QED
  BY <1>1, <1>2, <1>3, <1>4, <1>5, <1>6, CallerMoves DEF pools

\* What the arrays of a call are given back with.
LEMMA ReleaseFacts ==
    ASSUME PipeInv, NEW c \in Call, Piped(c), ReleaseArrays(c)
    PROVE  /\ slabs' \in Seq(Seq(Slices)) /\ Len(slabs') = Len(slabs)
           /\ \A b \in 1..Len(slabs) : /\ Emptied(slabs[b], slabs'[b])
                                       /\ b # arrays[c][1] => slabs'[b] = slabs[b]
           /\ slabPool' = slabPool \cup {arrays[c][1]} /\ readyPool' = readyPool \cup {arrays[c][2]}
           /\ slabPool' \subseteq 1..Len(slabs') /\ readyPool' \subseteq 1..Len(ready)
<1>1. TypeOK /\ arrays[c][1] \in 1..Len(slabs) /\ arrays[c][2] \in 1..Len(ready)
  BY Zenon DEF PipeInv, Control, PipedControl
<1>2. EmptySlices(arrays[c][1], Workers(c))
  BY DEF ReleaseArrays, EmptySlices
<1>3. Workers(c) \in Nat
  BY <1>1, WorkerCount DEF TypeOK
<1>4. slabPool' = slabPool \cup {arrays[c][1]} /\ readyPool' = readyPool \cup {arrays[c][2]}
  BY DEF ReleaseArrays
<1>5. slabPool \subseteq 1..Len(slabs) /\ readyPool \subseteq 1..Len(ready)
  BY <1>1 DEF TypeOK
<1>6. /\ slabs' \in Seq(Seq(Slices)) /\ Len(slabs') = Len(slabs)
      /\ \A b \in 1..Len(slabs) : /\ Emptied(slabs[b], slabs'[b])
                                  /\ b # arrays[c][1] => slabs'[b] = slabs[b]
  BY <1>1, <1>2, <1>3, EmptyFacts
<1>7. QED
  BY <1>1, <1>4, <1>5, <1>6

\* A call gives its arrays back as it returns: its visitor has panicked, or
\* its workers are gone.
LEMMA CallerReleases ==
    ASSUME PipeInv, NEW c \in Call, Piped(c), pc[c] # "returned", Mine(c), TypeOK',
           ReleaseArrays(c), UNCHANGED <<arrays, worker, stopped, ready>>,
           pc'[c] = "returned",
           ended'[c] = "panicked" \/ \A w \in DOMAIN worker[c] : worker[c][w].pc = "gone"
    PROVE  PipeInv'
<1>1. /\ Len(slabs') = Len(slabs) /\ Len(slabs) \in Nat /\ Len(ready) \in Nat
      /\ \A b \in 1..Len(slabs) : Emptied(slabs[b], slabs'[b])
      /\ slabPool' = slabPool \cup {arrays[c][1]} /\ readyPool' = readyPool \cup {arrays[c][2]}
  BY SMTT(60), ReleaseFacts DEF PipeInv, TypeOK
<1>2. Growing
  BY <1>1 DEF Growing, Emptied
<1>3. Owned'
  BY <1>1, OwnedReleased DEF PipeInv, Holder
<1>4. \A w \in DOMAIN worker[c] : worker[c][w].pc \in Collects
  BY Zenon DEF PipeInv, Control, PipedControl
<1>5. QED
  BY <1>2, <1>3, <1>4, PipedStep

\* The visitor is called with an entry of a slab.
LEMMA StepVisitSlab ==
    ASSUME PipeInv, NEW c \in Call, VisitSlab(c)
    PROVE  PipeInv' /\ Mine(c)
<1> DEFINE e == buffer[view[c].back][at[c][2]]
<1>1. /\ TypeOK /\ pc[c] = "visit" /\ job' = job /\ See(c, e)
      /\ UNCHANGED <<view, arrays, worker, stopped, buffer, ready>>
      /\ \/ /\ ended' = ended /\ at' = [at EXCEPT ![c] = <<at[c][1], at[c][2] + 1>>]
            /\ pc' = pc /\ UNCHANGED <<slabs, slabPool, readyPool>>
         \/ /\ ended' = [ended EXCEPT ![c] = "stopped"] /\ pc' = [pc EXCEPT ![c] = "join"]
            /\ at' = at /\ UNCHANGED <<slabs, slabPool, readyPool>>
         \/ /\ ended' = [ended EXCEPT ![c] = "panicked"] /\ pc' = [pc EXCEPT ![c] = "returned"]
            /\ at' = at /\ ReleaseArrays(c)
  BY DEF VisitSlab, Goto, Goes, Stops, Panics, PipeInv, pools
<1>2. Piped(c) /\ ended[c] = "no" /\ at[c][1] \in 1..Workers(c) /\ Workers(c) \in Nat
  BY <1>1, Modes, WorkerCount DEF TypeOK
<1>3. <<at[c][1], at[c][2] + 1>> \in Pairs
  <2>1. at[c] \in Nat \X Nat
    BY <1>1 DEF TypeOK, Pairs
  <2>2. QED
    BY <2>1 DEF Pairs
<1>4. /\ DOMAIN seen' = Call /\ \A d \in Call \ {c} : seen'[d] = seen[d]
      /\ seen'[c] \in [Entries(c) -> Nat]
  BY <1>1, SeeFacts
<1>5. \A d \in Call : seen'[d] \in [Entries(d) -> Nat]
  BY <1>1, <1>4 DEF TypeOK
<1> HIDE DEF e
<1>6. /\ slabs' \in Seq(Seq(Slices)) /\ slabPool' \subseteq 1..Len(slabs')
      /\ readyPool' \subseteq 1..Len(ready')
  BY <1>1, <1>2, ReleaseFacts DEF TypeOK
<1>7. /\ pc \in [Call -> Labels] /\ at \in [Call -> Pairs]
      /\ ended \in [Call -> {"no", "stopped", "panicked"}]
  BY <1>1 DEF TypeOK
<1>8. /\ pc' \in [Call -> Labels] /\ at' \in [Call -> Pairs]
      /\ ended' \in [Call -> {"no", "stopped", "panicked"}]
  BY <1>1, <1>3, <1>7 DEF Labels
<1>9. \A d \in Call \ {c} : pc'[d] = pc[d] /\ at'[d] = at[d] /\ ended'[d] = ended[d]
  BY <1>1, <1>7
<1>10. Mine(c)
  BY <1>1, <1>4, <1>9 DEF Mine
<1>11. TypeOK'
  BY <1>1, <1>4, <1>5, <1>6, <1>8, TypeParts DEF TypeOK
<1>12. CASE ended' = ended
  <2>1. at' = [at EXCEPT ![c] = <<at[c][1], at[c][2] + 1>>] /\ pc' = pc
        /\ UNCHANGED <<slabs, slabPool, readyPool>>
    BY <1>1, <1>2, <1>7, <1>12
  <2>2. at'[c][1] \in 1..Workers(c) /\ ended'[c] = "no" /\ pc'[c] = "visit" /\ UNCHANGED pools
    BY <1>1, <1>2, <1>7, <1>12, <2>1 DEF pools
  <2>3. UNCHANGED <<arrays, worker, stopped, slabs, ready, pools>> /\ pc[c] # "returned"
    BY <1>1, <2>1, <2>2
  <2>4. QED
    BY <1>2, <1>10, <1>11, <2>2, <2>3, CallerMoves
<1>13. CASE ended' = [ended EXCEPT ![c] = "stopped"]
  <2>1. pc' = [pc EXCEPT ![c] = "join"] /\ UNCHANGED <<slabs, slabPool, readyPool>>
    BY <1>1, <1>2, <1>7, <1>13
  <2>2. pc'[c] = "join"
    BY <1>7, <2>1
  <2>3. QED
    BY <1>1, <1>2, <1>10, <1>11, <2>1, <2>2, CallerMoves DEF pools
<1>14. CASE ended' = [ended EXCEPT ![c] = "panicked"]
  <2>1. pc' = [pc EXCEPT ![c] = "returned"] /\ ReleaseArrays(c)
    BY <1>1, <1>2, <1>7, <1>14
  <2>2. pc'[c] = "returned" /\ ended'[c] = "panicked"
    BY <1>7, <1>14, <2>1
  <2>3. QED
    BY <1>1, <1>2, <1>10, <1>11, <2>1, <2>2, CallerReleases
<1>15. QED
  BY <1>1, <1>10, <1>12, <1>13, <1>14

\* The workers are gone, and the call returns.
LEMMA StepJoin ==
    ASSUME PipeInv, NEW c \in Call, Join(c)
    PROVE  PipeInv' /\ Mine(c)
<1>1. /\ TypeOK /\ pc[c] = "join" /\ job' = job /\ pc' = [pc EXCEPT ![c] = "returned"]
      /\ \A w \in DOMAIN worker[c] : worker[c][w].pc = "gone"
      /\ IF Kind(c) \in {"Range", "Snapshot"} THEN ReleaseArrays(c)
         ELSE UNCHANGED <<slabs, slabPool, readyPool>>
      /\ UNCHANGED <<at, view, arrays, worker, stopped, seen, ended, buffer, ready>>
  BY DEF Join, Goto, PipeInv, history, pools
<1>2. pc' \in [Call -> Labels] /\ pc'[c] = "returned" /\ Mine(c)
  BY <1>1 DEF TypeOK, Labels, Mine
<1>3. CASE Piped(c)
  <2>1. ReleaseArrays(c)
    BY <1>1, <1>3, Modes
  <2>2. /\ slabs' \in Seq(Seq(Slices)) /\ slabPool' \subseteq 1..Len(slabs')
        /\ readyPool' \subseteq 1..Len(ready')
    BY <1>1, <1>3, <2>1, ReleaseFacts
  <2>3. TypeOK'
    BY <1>1, <1>2, <2>2, TypeParts DEF TypeOK
  <2>4. QED
    BY <1>1, <1>2, <1>3, <2>1, <2>3, CallerReleases
<1>4. CASE ~Piped(c)
  <2>1. Direct(c) /\ UNCHANGED <<slabs, slabPool, readyPool>>
    BY <1>1, <1>4, Modes
  <2>2. TypeOK'
    BY <1>1, <1>2, <2>1, TypeParts DEF TypeOK
  <2>3. Owned' /\ Growing
    BY <1>1, <1>2, <2>1, OwnedKept, StillGrowing DEF PipeInv, pools
  <2>4. Kind(c)' = Kind(c) /\ Workers(c)' = Workers(c)
    BY <1>1, JobFixed
  <2>5. DirectControl(c)'
    BY <1>1, <1>2, <2>1, <2>4 DEF PipeInv, Control, DirectControl, Direct
  <2>6. Unstarted(c)' /\ PipedControl(c)' /\ InlineControl(c)'
    BY <1>1, <1>2, <2>1 DEF Unstarted, PipedControl, InlineControl, Piped, Direct
  <2>7. (\A w \in DOMAIN worker[c] : Late(c, worker[c][w]))'
    BY <1>1, <2>4 DEF PipeInv, Control, Late, LateIf
  <2>8. QED
    BY <1>2, <2>2, <2>3, <2>5, <2>6, <2>7, PipeParts DEF Control
<1>5. QED
  BY <1>3, <1>4

-------------------------------------------------------------------------------
(***************************************************************************)
(* The workers' steps.                                                     *)
(***************************************************************************)
\* In which mode a worker's call is, by the worker's label.
LEMMA WorkerModes ==
    ASSUME PipeInv, NEW c \in Call, NEW w \in DOMAIN worker[c]
    PROVE  /\ worker[c][w] \in WorkerState /\ w \in 1..Workers(c) /\ DOMAIN worker[c] = 1..Workers(c)
           /\ worker[c][w].pc \in {"collect", "flush", "ready"} => Piped(c)
           /\ worker[c][w].pc \in {"check", "direct"} => Direct(c)
           /\ worker[c][w].pc # "gone" =>
                pc[c] # "returned" \/ (Piped(c) /\ ended[c] = "panicked")
           /\ Piped(c) \/ Direct(c)
<1>1. TypeOK /\ worker[c] \in Seq(WorkerState)
  BY DEF PipeInv, TypeOK
<1>2. worker[c] # <<>> /\ DOMAIN worker[c] = 1..Len(worker[c]) /\ worker[c][w] \in WorkerState
  BY <1>1
<1>3. Piped(c) \/ Direct(c)
  BY <1>2, Modes
<1>4. Len(worker[c]) = Workers(c)
  BY <1>3 DEF PipeInv, Control, PipedControl, DirectControl
<1>5. Piped(c) => worker[c][w].pc \in Collects
  BY DEF PipeInv, Control, PipedControl
<1>6. Direct(c) => worker[c][w].pc \in Visits
  BY DEF PipeInv, Control, DirectControl
<1>7. pc[c] = "returned" => worker[c][w].pc = "gone" \/ (Piped(c) /\ ended[c] = "panicked")
  BY <1>3 DEF PipeInv, Control, PipedControl, DirectControl
<1>8. QED
  BY <1>2, <1>3, <1>4, <1>5, <1>6, <1>7 DEF Collects, Visits

\* What rangeShardsCollect does to the buffers: found is at the beginning of
\* the one it uses, which is that of out or a new one.
BackOf(out, found) == IF Cap(out) < Len(found) THEN Len(buffer) + 1 ELSE out.back
FillBuffer(out, found) ==
    buffer' = IF Cap(out) < Len(found) THEN Append(buffer, found \o [i \in 1..Spare |-> <<0, 0>>])
              ELSE IF found = <<>> THEN buffer
              ELSE [buffer EXCEPT ![out.back] = found \o SubSeq(@, Len(found) + 1, Len(@))]

\* The buffer that is used, and the others.
LEMMA BufferFilled ==
    ASSUME TypeOK, NEW out \in Slices, NEW found \in Seq(Pairs), FillBuffer(out, found)
    PROVE  LET b == BackOf(out, found)
           IN /\ buffer' \in Seq(Seq(Pairs)) /\ b \in Nat /\ Len(buffer) <= Len(buffer')
              /\ b = out.back \/ (b = Len(buffer) + 1 /\ Len(buffer') = Len(buffer) + 1)
              /\ \A x \in 1..Len(buffer) : x # b => buffer'[x] = buffer[x]
              /\ out.back \in 0..Len(buffer) /\ found # <<>> =>
                   /\ b \in 1..Len(buffer') /\ Len(buffer'[b]) >= Len(found)
                   /\ \A i \in 1..Len(found) : buffer'[b][i] = found[i]
<1>1. buffer \in Seq(Seq(Pairs)) /\ Len(buffer) \in Nat /\ out.back \in Nat /\ Len(found) \in Nat
  BY DEF TypeOK, Slices
<1>2. CASE Cap(out) < Len(found)
  <2> DEFINE z == [i \in 1..Spare |-> <<0, 0>>]
             new == found \o z
  <2>1. buffer' = Append(buffer, new) /\ BackOf(out, found) = Len(buffer) + 1
    BY <1>2 DEF FillBuffer, BackOf
  <2>2. z \in Seq(Pairs)
    BY NumbersAssumption DEF Pairs
  <2> HIDE DEF z
  <2>3. /\ new \in Seq(Pairs) /\ Len(new) >= Len(found)
        /\ \A i \in 1..Len(found) : new[i] = found[i]
    BY <1>1, <2>2
  <2> HIDE DEF new
  <2>4. /\ buffer' \in Seq(Seq(Pairs)) /\ Len(buffer') = Len(buffer) + 1
        /\ buffer'[Len(buffer) + 1] = new /\ \A x \in 1..Len(buffer) : buffer'[x] = buffer[x]
    BY <1>1, <2>1, <2>3
  <2>5. Len(buffer) + 1 \in 1..Len(buffer') /\ Len(buffer) <= Len(buffer')
    BY <1>1, <2>4
  <2>6. QED
    BY <1>1, <2>1, <2>3, <2>4, <2>5
<1>3. CASE ~(Cap(out) < Len(found)) /\ found = <<>>
  BY <1>1, <1>3 DEF FillBuffer, BackOf
<1>4. CASE ~(Cap(out) < Len(found)) /\ found # <<>>
  <2> DEFINE old == buffer[out.back]
             rest == SubSeq(old, Len(found) + 1, Len(old))
             new == found \o rest
  <2>1. buffer' = [buffer EXCEPT ![out.back] = new] /\ BackOf(out, found) = out.back
    BY <1>4 DEF FillBuffer, BackOf
  <2>2. CASE out.back \in 1..Len(buffer)
    <3>1. old \in Seq(Pairs) /\ Len(old) >= Len(found) /\ Len(old) \in Nat
      BY <1>1, <1>4, <2>2 DEF Cap
    <3> HIDE DEF old
    <3>2. rest \in Seq(Pairs)
      BY <1>1, <3>1
    <3> HIDE DEF rest
    <3>3. /\ new \in Seq(Pairs) /\ Len(new) >= Len(found)
          /\ \A i \in 1..Len(found) : new[i] = found[i]
      BY <1>1, <3>2
    <3> HIDE DEF new
    <3>4. /\ buffer' \in Seq(Seq(Pairs)) /\ Len(buffer') = Len(buffer)
          /\ \A x \in 1..Len(buffer) : buffer'[x] = IF x = out.back THEN new ELSE buffer[x]
      BY <1>1, <2>1, <2>2, <3>3, ExceptSeq
    <3>5. QED
      BY <1>1, <2>1, <2>2, <3>3, <3>4
  <2>3. CASE out.back \notin 1..Len(buffer)
    <3> HIDE DEF new
    <3>1. out.back \notin DOMAIN buffer
      BY <1>1, <2>3
    <3>2. buffer' = buffer
      BY <1>1, <2>1, <3>1
    <3>3. Len(found) > 0
      BY <1>1, <1>4
    <3>4. out.back # 0
      BY <1>1, <1>4, <3>3 DEF Cap
    <3>5. out.back \notin 0..Len(buffer)
      BY <1>1, <2>3, <3>4
    <3>6. BackOf(out, found) = out.back
      BY <2>1
    <3>7. QED
      BY <1>1, <3>2, <3>5, <3>6
  <2>4. QED
    BY <2>2, <2>3
<1>5. QED
  BY <1>2, <1>3, <1>4

\* A worker that collects goes one step further.
LEMMA PipedWorkerStep ==
    ASSUME PipeInv, NEW c \in Call, Piped(c), NEW w \in DOMAIN worker[c], NEW k \in WorkerState,
           worker[c][w].pc # "gone",
           worker' = [worker EXCEPT ![c] = [worker[c] EXCEPT ![w] = k]],
           k.pc \in Collects, k.late = worker[c][w].late,
           k.shard = worker[c][w].shard, k.last = worker[c][w].last,
           job' = job, UNCHANGED <<caller, stopped, history, pools>>, Growing, TypeOK'
    PROVE  PipeInv' /\ Mine(c)
<1>1. /\ UNCHANGED <<pc, at, view, arrays, stopped, seen, ended>>
  BY DEF caller, history
<1>2. /\ \A d \in Call \ {c} : worker'[d] = worker[d]
      /\ Len(worker'[c]) = Len(worker[c]) /\ DOMAIN worker'[c] = DOMAIN worker[c]
      /\ worker'[c][w] = k /\ \A v \in DOMAIN worker[c] \ {w} : worker'[c][v] = worker[c][v]
  BY SetWorker DEF PipeInv
<1>3. Mine(c)
  BY <1>1, <1>2 DEF Mine
<1>4. Owned'
  BY <1>1, <1>3, OwnedKept DEF PipeInv
<1>5. /\ pc[c] \in {"wait", "visit", "join", "returned"}
      /\ pc[c] \in {"wait", "visit"} => ended[c] = "no" /\ at[c][1] \in 1..Workers(c)
      /\ pc[c] = "returned" => ended[c] = "panicked"
      /\ \A v \in DOMAIN worker[c] : worker[c][v].pc \in Collects
  BY Zenon DEF PipeInv, Control, PipedControl
<1>6. \A v \in DOMAIN worker[c] :
        /\ worker'[c][v].pc \in Collects /\ worker'[c][v].late = worker[c][v].late
        /\ worker'[c][v].shard = worker[c][v].shard /\ worker'[c][v].last = worker[c][v].last
  BY <1>2, <1>5
<1>7. QED
  BY <1>1, <1>2, <1>3, <1>4, <1>5, <1>6, PipedStep

\* The record of a worker that has collected.
Filled(k, b, n) == [k EXCEPT !.pc = "flush", !.buf = Slice(b, n)]

\* It has its slice, and is otherwise as it was.
LEMMA CollectedTyped ==
    ASSUME NEW x \in WorkerState, NEW y \in Nat, NEW z \in Nat
    PROVE  /\ Filled(x, y, z) \in WorkerState /\ Filled(x, y, z).pc = "flush"
           /\ Filled(x, y, z).late = x.late /\ Filled(x, y, z).shard = x.shard
           /\ Filled(x, y, z).last = x.last
           /\ Filled(x, y, z).buf.back = y /\ Filled(x, y, z).buf.len = z
  BY DEF Filled, WorkerState, Slice, Slices, Collects, Visits

\* What the step of a collecting worker does.
LEMMA CollectFacts ==
    ASSUME PipeInv, NEW c \in Call, NEW w \in DOMAIN worker[c], CollectShards(c, w)
    PROVE  LET out == slabs[arrays[c][1]][w]
               found == Found(c, w)
               k == Filled(worker[c][w], BackOf(out, found), Len(found))
           IN /\ Piped(c) /\ worker[c][w].pc = "collect" /\ out \in Slices /\ found \in Seq(Pairs)
              /\ arrays[c][1] \in 1..Len(slabs) /\ w \in DOMAIN slabs[arrays[c][1]]
              /\ FillBuffer(out, found)
              /\ worker' = [worker EXCEPT ![c] = [worker[c] EXCEPT ![w] = k]]
              /\ UNCHANGED <<job, caller, stopped, history, slabs, ready, pools>>
<1> DEFINE out == slabs[arrays[c][1]][w]
           found == Found(c, w)
<1>1. /\ TypeOK /\ job \in Jobs /\ worker[c][w].pc = "collect"
      /\ UNCHANGED <<job, caller, stopped, history, slabs, ready, pools>>
  BY DEF CollectShards, WorkerAt, PipeInv, TypeOK
<1>2. Piped(c) /\ w \in 1..Workers(c)
  BY <1>1, WorkerModes
<1>3. /\ arrays[c][1] \in 1..Len(slabs) /\ Workers(c) <= Len(slabs[arrays[c][1]])
      /\ worker[c][w].shard = Chunk(c, w)[1] /\ worker[c][w].last = Chunk(c, w)[2]
  BY <1>2, Zenon DEF PipeInv, Control, PipedControl
<1>4. out \in Slices /\ w \in DOMAIN slabs[arrays[c][1]]
  <2>1. slabs[arrays[c][1]] \in Seq(Slices) /\ Workers(c) \in Nat
    BY <1>1, <1>3, WorkerCount DEF TypeOK
  <2>2. QED
    BY <1>2, <1>3, <2>1
<1>5. found = Collected(c, worker[c][w].shard, worker[c][w].last)
  BY <1>3 DEF Found
<1>6. found \in Seq(Pairs)
  BY <1>1, <1>2, FoundFacts
<1>7. FillBuffer(out, found)
  BY <1>5 DEF CollectShards, FillBuffer
<1>8. worker' = [worker EXCEPT ![c][w] = Filled(@, BackOf(out, found), Len(found))]
  BY <1>5 DEF CollectShards, BackOf, Filled
<1> HIDE DEF out, found
<1>9. worker' = [worker EXCEPT ![c] = [worker[c] EXCEPT ![w] =
        Filled(worker[c][w], BackOf(out, found), Len(found))]]
  BY <1>8
<1>10. QED
  BY <1>1, <1>2, <1>3, <1>4, <1>6, <1>7, <1>9 DEF out, found

\* A worker has read its shards.
LEMMA StepCollectShards ==
    ASSUME PipeInv, NEW c \in Call, NEW w \in DOMAIN worker[c], CollectShards(c, w)
    PROVE  PipeInv' /\ Mine(c)
<1> DEFINE out == slabs[arrays[c][1]][w]
           found == Found(c, w)
           b == BackOf(out, found)
           k == Filled(worker[c][w], b, Len(found))
<1>1. /\ Piped(c) /\ worker[c][w].pc = "collect" /\ out \in Slices /\ found \in Seq(Pairs)
      /\ FillBuffer(out, found)
      /\ worker' = [worker EXCEPT ![c] = [worker[c] EXCEPT ![w] = k]]
      /\ UNCHANGED <<job, caller, stopped, history, slabs, ready, pools>>
  BY CollectFacts
<1>2. TypeOK /\ worker[c][w] \in WorkerState
  BY WorkerModes DEF PipeInv
<1> HIDE DEF out, found
<1>3. buffer' \in Seq(Seq(Pairs)) /\ b \in Nat /\ Len(found) \in Nat
  BY <1>1, <1>2, BufferFilled
<1> HIDE DEF b
<1>4. /\ k \in WorkerState /\ k.pc = "flush" /\ k.late = worker[c][w].late
      /\ k.shard = worker[c][w].shard /\ k.last = worker[c][w].last
  <2> DEFINE x == worker[c][w]
             z == Len(found)
  <2>1. x \in WorkerState /\ z \in Nat
    BY <1>2, <1>3
  <2> HIDE DEF x, z
  <2>2. /\ Filled(x, b, z) \in WorkerState /\ Filled(x, b, z).pc = "flush"
        /\ Filled(x, b, z).late = x.late /\ Filled(x, b, z).shard = x.shard
        /\ Filled(x, b, z).last = x.last
    BY <1>3, <2>1, CollectedTyped
  <2>3. QED
    BY ONLY <2>2 DEF x, z
<1> HIDE DEF k
<1>5. worker' \in [Call -> Seq(WorkerState)]
  BY <1>1, <1>2, <1>4, SetWorker
<1>6. UNCHANGED <<job, pc, at, view, arrays, stopped, seen, ended, slabs, ready, slabPool, readyPool>>
  BY <1>1 DEF caller, history, pools
<1>7. TypeOK'
  BY <1>2, <1>3, <1>5, <1>6, TypeParts DEF TypeOK
<1>8. Growing
  BY <1>1, <1>2, StillGrowing
<1>9. "flush" \in Collects
  BY DEF Collects
<1>10. QED
  BY <1>1, <1>4, <1>7, <1>8, <1>9, PipedWorkerStep

\* One place of one array is set.
LEMMA SetPlace ==
    ASSUME NEW S, NEW m \in Seq(Seq(S)), NEW a \in 1..Len(m), NEW w \in DOMAIN m[a], NEW x \in S
    PROVE  LET n == [m EXCEPT ![a] = [m[a] EXCEPT ![w] = x]]
           IN /\ n \in Seq(Seq(S)) /\ Len(n) = Len(m)
              /\ \A b \in 1..Len(m) : /\ Len(n[b]) = Len(m[b]) /\ DOMAIN n[b] = DOMAIN m[b]
                                      /\ b # a => n[b] = m[b]
              /\ n[a][w] = x /\ \A v \in DOMAIN m[a] \ {w} : n[a][v] = m[a][v]
<1> DEFINE s == [m[a] EXCEPT ![w] = x]
           n == [m EXCEPT ![a] = s]
<1>1. m[a] \in Seq(S) /\ w \in 1..Len(m[a]) /\ DOMAIN m[a] = 1..Len(m[a])
  OBVIOUS
<1>2. /\ s \in Seq(S) /\ Len(s) = Len(m[a]) /\ DOMAIN s = DOMAIN m[a]
      /\ s[w] = x /\ \A v \in DOMAIN m[a] \ {w} : s[v] = m[a][v]
  BY <1>1, ExceptSeq
<1> HIDE DEF s
<1>3. /\ n \in Seq(Seq(S)) /\ Len(n) = Len(m)
      /\ \A b \in 1..Len(m) : n[b] = IF b = a THEN s ELSE m[b]
  BY <1>2, ExceptSeq
<1> HIDE DEF n
<1>4. QED
  BY <1>2, <1>3 DEF n, s

\* The worker's slice is stored in its place of the array.
LEMMA FlushFacts ==
    ASSUME PipeInv, NEW c \in Call, NEW w \in DOMAIN worker[c], Flush(c, w)
    PROVE  /\ Piped(c) /\ worker[c][w].pc = "flush"
           /\ arrays[c][1] \in 1..Len(slabs) /\ w \in DOMAIN slabs[arrays[c][1]]
           /\ MoveWorker(c, w, "ready")
           /\ UNCHANGED <<job, caller, stopped, history, buffer, ready, pools>>
           /\ slabs' \in Seq(Seq(Slices)) /\ Len(slabs') = Len(slabs)
           /\ \A b \in 1..Len(slabs) :
                /\ Len(slabs'[b]) = Len(slabs[b]) /\ DOMAIN slabs'[b] = DOMAIN slabs[b]
                /\ b # arrays[c][1] => slabs'[b] = slabs[b]
           /\ slabs'[arrays[c][1]][w] = worker[c][w].buf
           /\ \A v \in DOMAIN slabs[arrays[c][1]] \ {w} :
                slabs'[arrays[c][1]][v] = slabs[arrays[c][1]][v]
<1> DEFINE a == arrays[c][1]
<1>1. /\ TypeOK /\ worker[c][w].pc = "flush" /\ MoveWorker(c, w, "ready")
      /\ slabs' = [slabs EXCEPT ![a][w] = worker[c][w].buf]
      /\ UNCHANGED <<job, caller, stopped, history, buffer, ready, pools>>
  BY DEF Flush, WorkerAt, PipeInv
<1>2. Piped(c) /\ w \in 1..Workers(c) /\ worker[c][w] \in WorkerState
  BY <1>1, WorkerModes
<1>3. a \in 1..Len(slabs) /\ Workers(c) <= Len(slabs[a])
  BY <1>2, Zenon DEF PipeInv, Control, PipedControl
<1>4. slabs \in Seq(Seq(Slices)) /\ slabs[a] \in Seq(Slices) /\ Workers(c) \in Nat
  BY <1>1, <1>3, WorkerCount DEF TypeOK
<1>5. w \in DOMAIN slabs[a]
  BY <1>2, <1>3, <1>4
<1>6. worker[c][w].buf \in Slices
  BY <1>2 DEF WorkerState
<1> HIDE DEF a
<1>7. slabs' = [slabs EXCEPT ![a] = [slabs[a] EXCEPT ![w] = worker[c][w].buf]]
  BY <1>1
<1>8. /\ slabs' \in Seq(Seq(Slices)) /\ Len(slabs') = Len(slabs)
      /\ \A b \in 1..Len(slabs) :
           /\ Len(slabs'[b]) = Len(slabs[b]) /\ DOMAIN slabs'[b] = DOMAIN slabs[b]
           /\ b # a => slabs'[b] = slabs[b]
      /\ slabs'[a][w] = worker[c][w].buf
      /\ \A v \in DOMAIN slabs[a] \ {w} : slabs'[a][v] = slabs[a][v]
  BY <1>3, <1>4, <1>5, <1>6, <1>7, SetPlace
<1>9. QED
  BY <1>1, <1>2, <1>3, <1>5, <1>8 DEF a

\* A worker has stored its slice.
LEMMA StepFlush ==
    ASSUME PipeInv, NEW c \in Call, NEW w \in DOMAIN worker[c], Flush(c, w)
    PROVE  PipeInv' /\ Mine(c)
<1> DEFINE k == [worker[c][w] EXCEPT !.pc = "ready"]
<1>1. /\ TypeOK /\ Piped(c) /\ worker[c][w].pc = "flush" /\ MoveWorker(c, w, "ready")
      /\ UNCHANGED <<job, caller, stopped, history, buffer, ready, pools>>
      /\ slabs' \in Seq(Seq(Slices)) /\ Len(slabs') = Len(slabs)
      /\ \A b \in 1..Len(slabs) : Len(slabs'[b]) = Len(slabs[b])
  BY FlushFacts DEF PipeInv
<1>2. "ready" \in Collects
  BY DEF Collects
<1>3. /\ worker[c][w] \in WorkerState /\ k \in WorkerState
      /\ worker' = [worker EXCEPT ![c] = [worker[c] EXCEPT ![w] = k]]
  BY <1>1, <1>2, MoveIsSet
<1>4. /\ k.pc = "ready" /\ k.late = worker[c][w].late
      /\ k.shard = worker[c][w].shard /\ k.last = worker[c][w].last
  BY <1>2, <1>3, WorkerTyped
<1> HIDE DEF k
<1>5. worker' \in [Call -> Seq(WorkerState)]
  BY <1>1, <1>3, SetWorker
<1>6. UNCHANGED <<job, pc, at, view, arrays, stopped, seen, ended, buffer, ready, slabPool, readyPool>>
  BY <1>1 DEF caller, history, pools
<1>7. slabPool \subseteq 1..Len(slabs')
  BY <1>1 DEF TypeOK
<1>8. TypeOK'
  BY <1>1, <1>5, <1>6, <1>7, TypeParts DEF TypeOK
<1>9. Growing
  BY <1>1 DEF TypeOK, Growing
<1>10. QED
  BY <1>1, <1>2, <1>3, <1>4, <1>8, <1>9, PipedWorkerStep

\* The worker's flag goes up.
LEMMA SetReadyFacts ==
    ASSUME PipeInv, NEW c \in Call, NEW w \in DOMAIN worker[c], SetReady(c, w)
    PROVE  /\ Piped(c) /\ worker[c][w].pc = "ready"
           /\ arrays[c][2] \in 1..Len(ready) /\ w \in DOMAIN ready[arrays[c][2]]
           /\ MoveWorker(c, w, "done")
           /\ UNCHANGED <<job, caller, stopped, history, buffer, slabs, pools>>
           /\ ready' \in Seq(Seq(BOOLEAN)) /\ Len(ready') = Len(ready)
           /\ \A b \in 1..Len(ready) :
                /\ Len(ready'[b]) = Len(ready[b])
                /\ b # arrays[c][2] => ready'[b] = ready[b]
           /\ ready'[arrays[c][2]][w] = TRUE
           /\ \A v \in DOMAIN ready[arrays[c][2]] \ {w} :
                ready'[arrays[c][2]][v] = ready[arrays[c][2]][v]
<1> DEFINE a == arrays[c][2]
<1>1. /\ TypeOK /\ worker[c][w].pc = "ready" /\ MoveWorker(c, w, "done")
      /\ ready' = [ready EXCEPT ![a][w] = TRUE]
      /\ UNCHANGED <<job, caller, stopped, history, buffer, slabs, pools>>
  BY DEF SetReady, WorkerAt, PipeInv
<1>2. Piped(c) /\ w \in 1..Workers(c)
  BY <1>1, WorkerModes
<1>3. a \in 1..Len(ready) /\ Workers(c) <= Len(ready[a])
  BY <1>2, Zenon DEF PipeInv, Control, PipedControl
<1>4. ready \in Seq(Seq(BOOLEAN)) /\ ready[a] \in Seq(BOOLEAN) /\ Workers(c) \in Nat
  BY <1>1, <1>3, WorkerCount DEF TypeOK
<1>5. w \in DOMAIN ready[a]
  BY <1>2, <1>3, <1>4
<1> HIDE DEF a
<1>6. ready' = [ready EXCEPT ![a] = [ready[a] EXCEPT ![w] = TRUE]]
  BY <1>1
<1>7. TRUE \in BOOLEAN
  OBVIOUS
<1>8. /\ ready' \in Seq(Seq(BOOLEAN)) /\ Len(ready') = Len(ready)
      /\ \A b \in 1..Len(ready) : Len(ready'[b]) = Len(ready[b]) /\ (b # a => ready'[b] = ready[b])
      /\ ready'[a][w] = TRUE
      /\ \A v \in DOMAIN ready[a] \ {w} : ready'[a][v] = ready[a][v]
  BY <1>3, <1>4, <1>5, <1>6, <1>7, SetPlace
<1>9. QED
  BY <1>1, <1>2, <1>3, <1>5, <1>8 DEF a

\* A worker has announced its slab.
LEMMA StepSetReady ==
    ASSUME PipeInv, NEW c \in Call, NEW w \in DOMAIN worker[c], SetReady(c, w)
    PROVE  PipeInv' /\ Mine(c)
<1> DEFINE k == [worker[c][w] EXCEPT !.pc = "done"]
<1>1. /\ TypeOK /\ Piped(c) /\ worker[c][w].pc = "ready" /\ MoveWorker(c, w, "done")
      /\ UNCHANGED <<job, caller, stopped, history, buffer, slabs, pools>>
      /\ ready' \in Seq(Seq(BOOLEAN)) /\ Len(ready') = Len(ready)
      /\ \A b \in 1..Len(ready) : Len(ready'[b]) = Len(ready[b])
  BY SetReadyFacts DEF PipeInv
<1>2. "done" \in Collects
  BY DEF Collects
<1>3. /\ worker[c][w] \in WorkerState /\ k \in WorkerState
      /\ worker' = [worker EXCEPT ![c] = [worker[c] EXCEPT ![w] = k]]
  BY <1>1, <1>2, MoveIsSet
<1>4. /\ k.pc = "done" /\ k.late = worker[c][w].late
      /\ k.shard = worker[c][w].shard /\ k.last = worker[c][w].last
  BY <1>2, <1>3, WorkerTyped
<1> HIDE DEF k
<1>5. worker' \in [Call -> Seq(WorkerState)]
  BY <1>1, <1>3, SetWorker
<1>6. UNCHANGED <<job, pc, at, view, arrays, stopped, seen, ended, buffer, slabs, slabPool, readyPool>>
  BY <1>1 DEF caller, history, pools
<1>7. readyPool \subseteq 1..Len(ready')
  BY <1>1 DEF TypeOK
<1>8. TypeOK'
  BY <1>1, <1>5, <1>6, <1>7, TypeParts DEF TypeOK
<1>9. Growing
  BY <1>1 DEF TypeOK, Growing
<1>10. QED
  BY <1>1, <1>2, <1>3, <1>4, <1>8, <1>9, PipedWorkerStep

\* A worker that calls the visitor goes one step further.
LEMMA DirectWorkerStep ==
    ASSUME PipeInv, NEW c \in Call, Direct(c), NEW w \in DOMAIN worker[c], NEW k \in WorkerState,
           worker[c][w].pc # "gone",
           worker' = [worker EXCEPT ![c] = [worker[c] EXCEPT ![w] = k]],
           k.pc \in Visits, Mine(c), UNCHANGED <<caller, shared, pools>>, TypeOK',
           ended'[c] # "panicked", stopped'[c] <=> ended'[c] # "no",
           stopped[c] = TRUE => stopped'[c] = TRUE, LateIf(c, k, stopped'[c])
    PROVE  PipeInv'
<1>1. UNCHANGED <<pc, at, view, arrays, slabs, ready, pools>>
  BY DEF caller, shared
<1>2. /\ Len(worker'[c]) = Len(worker[c]) /\ DOMAIN worker'[c] = DOMAIN worker[c]
      /\ worker'[c] # <<>>
      /\ worker'[c][w] = k /\ \A v \in DOMAIN worker[c] \ {w} : worker'[c][v] = worker[c][v]
  BY SetWorker DEF PipeInv
<1>3. Kind(c)' = Kind(c) /\ Workers(c)' = Workers(c)
  BY JobFixed DEF Mine
<1>4. Owned' /\ Growing
  BY <1>1, OwnedKept, StillGrowing DEF PipeInv
<1>5. Unstarted(c)' /\ PipedControl(c)' /\ InlineControl(c)'
  <2>1. arrays'[c] = <<0, 0>> /\ pc'[c] \in {"join", "returned"}
    BY <1>1 DEF Direct, PipeInv, Control, DirectControl
  <2>2. QED
    BY <1>2, <2>1 DEF Unstarted, PipedControl, InlineControl, Piped, Direct
<1>6. DirectControl(c)'
  <2>1. /\ Kind(c) \in {"RangePar", "TypedRangePar"} /\ pc[c] = "join"
        /\ Len(worker[c]) = Workers(c)
        /\ \A v \in DOMAIN worker[c] : worker[c][v].pc \in Visits
    BY DEF PipeInv, Control, DirectControl
  <2>2. \A v \in DOMAIN worker'[c] : worker'[c][v].pc \in Visits
    BY <1>2, <2>1
  <2>3. QED
    BY <1>1, <1>2, <1>3, <2>1, <2>2 DEF DirectControl
<1>7. (\A v \in DOMAIN worker[c] : Late(c, worker[c][v]))'
  <2> SUFFICES ASSUME NEW v \in DOMAIN worker[c] PROVE Late(c, worker[c][v])'
    BY <1>2
  <2>1. CASE v = w
    BY <1>2, <1>3, <2>1 DEF Late, LateIf
  <2>2. CASE v # w
    <3>1. worker'[c][v] = worker[c][v]
      BY <1>2, <2>2
    <3>2. Late(c, worker[c][v])
      BY DEF PipeInv, Control
    <3>3. QED
      BY <1>3, <3>1, <3>2 DEF Late, LateIf
  <2>3. QED
    BY <2>1, <2>2
<1>8. QED
  BY <1>4, <1>5, <1>6, <1>7, PipeParts DEF Control

\* wg.Done, of either worker.
LEMMA StepDone ==
    ASSUME PipeInv, NEW c \in Call, NEW w \in DOMAIN worker[c], Done(c, w)
    PROVE  PipeInv' /\ Mine(c)
<1> DEFINE k == [worker[c][w] EXCEPT !.pc = "gone"]
<1>1. /\ TypeOK /\ worker[c][w].pc = "done" /\ MoveWorker(c, w, "gone")
      /\ UNCHANGED <<job, caller, stopped, history, shared, pools>>
  BY DEF Done, WorkerAt, PipeInv
<1>2. "gone" \in Collects /\ "gone" \in Visits
  BY DEF Collects, Visits
<1>3. /\ worker[c][w] \in WorkerState /\ k \in WorkerState
      /\ worker' = [worker EXCEPT ![c] = [worker[c] EXCEPT ![w] = k]]
  BY <1>1, <1>2, MoveIsSet
<1>4. /\ k.pc = "gone" /\ k.late = worker[c][w].late
      /\ k.shard = worker[c][w].shard /\ k.last = worker[c][w].last
  BY <1>2, <1>3, WorkerTyped
<1> HIDE DEF k
<1>5. worker' \in [Call -> Seq(WorkerState)] /\ \A d \in Call \ {c} : worker'[d] = worker[d]
  BY <1>1, <1>3, SetWorker
<1>6. UNCHANGED <<job, pc, at, view, arrays, stopped, seen, ended, slabs, buffer, ready, slabPool, readyPool>>
  BY <1>1 DEF caller, history, shared, pools
<1>7. TypeOK'
  BY <1>1, <1>5, <1>6, TypeParts DEF TypeOK
<1>8. Growing /\ Mine(c)
  BY <1>1, <1>5, <1>6, StillGrowing DEF Mine
<1>9. CASE Piped(c)
  BY <1>1, <1>2, <1>3, <1>4, <1>7, <1>8, <1>9, PipedWorkerStep
<1>10. CASE Direct(c)
  <2>1. Late(c, worker[c][w]) /\ ended[c] # "panicked" /\ (stopped[c] <=> ended[c] # "no")
    BY <1>10 DEF PipeInv, Control, DirectControl
  <2>3. LateIf(c, k, stopped'[c])
    BY <1>4, <1>6, <2>1 DEF Late, LateIf
  <2>4. /\ ended'[c] # "panicked" /\ (stopped'[c] <=> ended'[c] # "no")
        /\ stopped[c] = TRUE => stopped'[c] = TRUE
    BY <1>6, <2>1
  <2>5. QED
    BY <1>1, <1>2, <1>3, <1>4, <1>7, <1>8, <1>10, <2>3, <2>4, DirectWorkerStep
<1>11. QED
  BY <1>9, <1>10, WorkerModes

\* The worker that CheckStop leaves: at the end, past an empty shard, or at an
\* entry.
Checked(c, k) ==
    IF k.shard > k.last \/ stopped[c] THEN [k EXCEPT !.pc = "done"]
    ELSE IF Map(c)[k.shard] = 0 THEN [k EXCEPT !.shard = @ + 1]
    ELSE [k EXCEPT !.pc = "direct"]

\* The next shard.
LEMMA ShardTyped ==
    ASSUME NEW k \in WorkerState
    PROVE  /\ [k EXCEPT !.shard = @ + 1] \in WorkerState
           /\ [k EXCEPT !.shard = @ + 1].shard = k.shard + 1
           /\ [k EXCEPT !.shard = @ + 1].pc = k.pc
           /\ [k EXCEPT !.shard = @ + 1].last = k.last
           /\ [k EXCEPT !.shard = @ + 1].entry = k.entry
           /\ [k EXCEPT !.shard = @ + 1].late = k.late
  BY DEF WorkerState

\* Its fields.
LEMMA CheckedFacts ==
    ASSUME NEW c, NEW k \in WorkerState, k.pc = "check"
    PROVE  /\ Checked(c, k) \in WorkerState /\ Checked(c, k).late = k.late
           /\ Checked(c, k).last = k.last /\ Checked(c, k).entry = k.entry
           /\ \/ /\ k.shard > k.last \/ stopped[c]
                 /\ Checked(c, k).pc = "done" /\ Checked(c, k).shard = k.shard
              \/ /\ ~(k.shard > k.last) /\ ~stopped[c] /\ Map(c)[k.shard] = 0
                 /\ Checked(c, k).pc = "check" /\ Checked(c, k).shard = k.shard + 1
              \/ /\ ~(k.shard > k.last) /\ ~stopped[c] /\ Map(c)[k.shard] # 0
                 /\ Checked(c, k).pc = "direct" /\ Checked(c, k).shard = k.shard
<1>1. "done" \in Collects \cup Visits /\ "direct" \in Collects \cup Visits
  BY DEF Collects, Visits
<1>2. CASE k.shard > k.last \/ stopped[c]
  <2>1. Checked(c, k) = [k EXCEPT !.pc = "done"]
    BY <1>2 DEF Checked
  <2>2. QED
    BY <1>1, <1>2, <2>1, WorkerTyped
<1>3. CASE ~(k.shard > k.last \/ stopped[c]) /\ Map(c)[k.shard] = 0
  <2>1. Checked(c, k) = [k EXCEPT !.shard = @ + 1]
    BY <1>3 DEF Checked
  <2>2. QED
    BY <1>3, <2>1, ShardTyped
<1>4. CASE ~(k.shard > k.last \/ stopped[c]) /\ Map(c)[k.shard] # 0
  <2>1. Checked(c, k) = [k EXCEPT !.pc = "direct"]
    BY <1>4 DEF Checked
  <2>2. QED
    BY <1>1, <1>4, <2>1, WorkerTyped
<1>5. QED
  BY <1>2, <1>3, <1>4

\* A worker looks at the flag.
LEMMA StepCheckStop ==
    ASSUME PipeInv, NEW c \in Call, NEW w \in DOMAIN worker[c], CheckStop(c, w)
    PROVE  PipeInv' /\ Mine(c)
<1> DEFINE k == worker[c][w]
           m == Checked(c, k)
<1>1. /\ TypeOK /\ k.pc = "check"
      /\ UNCHANGED <<job, caller, stopped, history, shared, pools>>
  BY DEF CheckStop, WorkerAt, PipeInv
<1>2. worker' = [worker EXCEPT ![c][w] = m]
  BY DEF CheckStop, Checked
<1>3. k \in WorkerState /\ Direct(c)
  BY <1>1, WorkerModes
<1>4. /\ m \in WorkerState /\ m.late = k.late
      /\ m.pc \in {"done", "check", "direct"} /\ (m.pc = "direct" => ~stopped[c])
  BY <1>1, <1>3, CheckedFacts
<1> HIDE DEF m
<1>5. worker' = [worker EXCEPT ![c] = [worker[c] EXCEPT ![w] = m]]
  BY <1>2
<1>6. worker' \in [Call -> Seq(WorkerState)] /\ \A d \in Call \ {c} : worker'[d] = worker[d]
  BY <1>1, <1>4, <1>5, SetWorker
<1>7. UNCHANGED <<job, pc, at, view, arrays, stopped, seen, ended, slabs, buffer, ready, slabPool, readyPool>>
  BY <1>1 DEF caller, history, shared, pools
<1>8. TypeOK'
  BY <1>1, <1>6, <1>7, TypeParts DEF TypeOK
<1>9. Mine(c)
  BY <1>6, <1>7 DEF Mine
<1>10. /\ Late(c, k) /\ ended[c] # "panicked" /\ (stopped[c] <=> ended[c] # "no")
       /\ Kind(c)' = Kind(c)
  BY <1>1, <1>3, JobFixed DEF PipeInv, Control, DirectControl
<1>11. LateIf(c, m, stopped'[c])
  BY <1>4, <1>7, <1>10 DEF Late, LateIf
<1>12. m.pc \in Visits /\ k.pc # "gone"
  BY <1>1, <1>4 DEF Visits
<1>13. /\ ended'[c] # "panicked" /\ (stopped'[c] <=> ended'[c] # "no")
       /\ stopped[c] = TRUE => stopped'[c] = TRUE
  BY <1>7, <1>10
<1>14. QED
  BY <1>1, <1>3, <1>4, <1>5, <1>8, <1>9, <1>11, <1>12, <1>13, DirectWorkerStep

\* The worker that has called the visitor, before it moves on: the call is
\* noted when the flag was up.
Noted(c, k) == [k EXCEPT !.late = IF stopped[c] THEN @ \cup {<<k.shard, k.entry>>} ELSE @]

\* Its fields.
LEMMA NotedFacts ==
    ASSUME NEW c, NEW k \in WorkerState
    PROVE  /\ Noted(c, k) \in WorkerState /\ Noted(c, k).pc = k.pc
           /\ Noted(c, k).shard = k.shard /\ Noted(c, k).last = k.last
           /\ Noted(c, k).entry = k.entry
           /\ Noted(c, k).late = IF stopped[c] THEN k.late \cup {<<k.shard, k.entry>>} ELSE k.late
<1>1. k.late \subseteq Pairs /\ <<k.shard, k.entry>> \in Pairs
  BY DEF WorkerState, Pairs
<1> DEFINE l == IF stopped[c] THEN k.late \cup {<<k.shard, k.entry>>} ELSE k.late
<1>2. l \in SUBSET Pairs
  BY <1>1
<1>3. Noted(c, k) = [k EXCEPT !.late = l]
  BY DEF Noted
<1> HIDE DEF l
<1>4. /\ [k EXCEPT !.late = l] \in WorkerState /\ [k EXCEPT !.late = l].pc = k.pc
      /\ [k EXCEPT !.late = l].shard = k.shard /\ [k EXCEPT !.late = l].last = k.last
      /\ [k EXCEPT !.late = l].entry = k.entry /\ [k EXCEPT !.late = l].late = l
  BY <1>2 DEF WorkerState
<1>5. QED
  BY <1>3, <1>4 DEF l

\* The next entry, in the shard or in a later one.
LEMMA AfterFacts ==
    ASSUME NEW c, NEW k \in WorkerState
    PROVE  /\ After(c, k) \in WorkerState /\ After(c, k).late = k.late
           /\ After(c, k).last = k.last
           /\ \/ /\ k.entry < Map(c)[k.shard] /\ After(c, k).entry = k.entry + 1
                 /\ After(c, k).shard = k.shard
                 /\ After(c, k).pc = IF Kind(c) = "RangePar" THEN "direct" ELSE "check"
              \/ /\ ~(k.entry < Map(c)[k.shard]) /\ After(c, k).entry = 1
                 /\ After(c, k).shard = k.shard + 1 /\ After(c, k).pc = "check"
<1> DEFINE l == IF Kind(c) = "RangePar" THEN "direct" ELSE "check"
<1>1. l \in Collects \cup Visits /\ "check" \in Collects \cup Visits
  BY DEF Collects, Visits
<1>2. CASE k.entry < Map(c)[k.shard]
  <2>1. After(c, k) = [k EXCEPT !.entry = @ + 1, !.pc = l]
    BY <1>2 DEF After
  <2> HIDE DEF l
  <2> DEFINE n == k.entry + 1
             m == [k EXCEPT !.entry = n, !.pc = l]
  <2>0. n \in Nat
    BY DEF WorkerState
  <2> HIDE DEF n
  <2>2. m \in WorkerState
    BY <1>1, <2>0 DEF WorkerState
  <2>3. /\ m.entry = n /\ m.shard = k.shard /\ m.pc = l
        /\ m.late = k.late /\ m.last = k.last
    BY DEF WorkerState
  <2> HIDE DEF m
  <2>4. QED
    BY <1>2, <2>1, <2>2, <2>3 DEF l, m, n
<1>3. CASE ~(k.entry < Map(c)[k.shard])
  <2>1. After(c, k) = [k EXCEPT !.shard = @ + 1, !.entry = 1, !.pc = "check"]
    BY <1>3 DEF After
  <2> DEFINE n == k.shard + 1
             m == [k EXCEPT !.shard = n, !.entry = 1, !.pc = "check"]
  <2>0. n \in Nat
    BY DEF WorkerState
  <2> HIDE DEF n
  <2>2. m \in WorkerState
    BY <1>1, <2>0 DEF WorkerState
  <2>3. /\ m.entry = 1 /\ m.shard = n /\ m.pc = "check"
        /\ m.late = k.late /\ m.last = k.last
    BY DEF WorkerState
  <2> HIDE DEF m
  <2>4. QED
    BY <1>3, <2>1, <2>2, <2>3 DEF m, n
<1>4. QED
  BY <1>2, <1>3

\* The worker goes on to the next entry, or the visitor has asked to stop.
GoesOn(c, k, m) ==
    /\ UNCHANGED <<ended, stopped>>
    /\ \/ /\ k.entry < Map(c)[k.shard] /\ m.entry = k.entry + 1 /\ m.shard = k.shard
          /\ m.pc = IF Kind(c) = "RangePar" THEN "direct" ELSE "check"
       \/ /\ ~(k.entry < Map(c)[k.shard]) /\ m.entry = 1 /\ m.shard = k.shard + 1
          /\ m.pc = "check"
AsksToStop(c, m) ==
    /\ m.pc = "done" /\ ended' = [ended EXCEPT ![c] = "stopped"]
    /\ stopped' = [stopped EXCEPT ![c] = TRUE]

\* What the step of a worker that calls the visitor does.
LEMMA VisitDirectFacts ==
    ASSUME PipeInv, NEW c \in Call, NEW w \in DOMAIN worker[c], VisitDirect(c, w)
    PROVE  /\ Direct(c) /\ worker[c][w] \in WorkerState /\ worker[c][w].pc = "direct"
           /\ See(c, <<worker[c][w].shard, worker[c][w].entry>>)
           /\ UNCHANGED <<job, caller, shared, pools>>
           /\ \E m \in WorkerState :
                /\ worker' = [worker EXCEPT ![c] = [worker[c] EXCEPT ![w] = m]]
                /\ m.late = Noted(c, worker[c][w]).late /\ m.last = worker[c][w].last
                /\ GoesOn(c, worker[c][w], m) \/ AsksToStop(c, m)
<1> DEFINE k == worker[c][w]
           n == Noted(c, k)
<1>1. /\ k.pc = "direct" /\ See(c, <<k.shard, k.entry>>) /\ UNCHANGED <<job, caller, shared, pools>>
      /\ \/ ended' = ended /\ stopped' = stopped /\ worker' = [worker EXCEPT ![c][w] = After(c, n)]
         \/ /\ ended' = [ended EXCEPT ![c] = "stopped"] /\ stopped' = [stopped EXCEPT ![c] = TRUE]
            /\ worker' = [worker EXCEPT ![c][w] = [n EXCEPT !.pc = "done"]]
  BY DEF VisitDirect, WorkerAt, Goes, Stops, Noted
<1>2. Direct(c) /\ k \in WorkerState
  BY <1>1, WorkerModes
<1> HIDE DEF k
<1>3. /\ n \in WorkerState /\ n.shard = k.shard /\ n.last = k.last /\ n.entry = k.entry
  BY <1>2, NotedFacts
<1> HIDE DEF n
<1>4. "done" \in Collects \cup Visits
  BY DEF Visits
<1>5. CASE ended' = ended /\ stopped' = stopped /\ worker' = [worker EXCEPT ![c][w] = After(c, n)]
  <2> DEFINE m == After(c, n)
  <2>1. /\ m \in WorkerState /\ m.late = n.late /\ m.last = n.last
        /\ \/ /\ n.entry < Map(c)[n.shard] /\ m.entry = n.entry + 1
              /\ m.shard = n.shard
              /\ m.pc = IF Kind(c) = "RangePar" THEN "direct" ELSE "check"
           \/ /\ ~(n.entry < Map(c)[n.shard]) /\ m.entry = 1
              /\ m.shard = n.shard + 1 /\ m.pc = "check"
    BY <1>3, AfterFacts
  <2> HIDE DEF m
  <2>2. worker' = [worker EXCEPT ![c] = [worker[c] EXCEPT ![w] = m]]
    BY <1>5 DEF m
  <2>3. QED
    <3>1. GoesOn(c, k, m)
      BY <1>3, <1>5, <2>1 DEF GoesOn
    <3>2. QED
      BY <1>1, <1>2, <1>3, <2>1, <2>2, <3>1 DEF k, n
<1>6. CASE /\ ended' = [ended EXCEPT ![c] = "stopped"] /\ stopped' = [stopped EXCEPT ![c] = TRUE]
           /\ worker' = [worker EXCEPT ![c][w] = [n EXCEPT !.pc = "done"]]
  <2> DEFINE m == [n EXCEPT !.pc = "done"]
  <2>1. m \in WorkerState /\ m.pc = "done" /\ m.late = n.late /\ m.last = n.last
    BY <1>3, <1>4, WorkerTyped
  <2> HIDE DEF m
  <2>2. worker' = [worker EXCEPT ![c] = [worker[c] EXCEPT ![w] = m]]
    BY <1>6 DEF m
  <2>3. QED
    <3>1. AsksToStop(c, m)
      BY <1>6, <2>1 DEF AsksToStop
    <3>2. QED
      BY <1>1, <1>2, <1>3, <2>1, <2>2, <3>1 DEF k, n
<1>7. QED
  BY <1>1, <1>5, <1>6

\* A worker has called the visitor.
LEMMA StepVisitDirect ==
    ASSUME PipeInv, NEW c \in Call, NEW w \in DOMAIN worker[c], VisitDirect(c, w)
    PROVE  PipeInv' /\ Mine(c)
<1> DEFINE k == worker[c][w]
<1>1. /\ TypeOK /\ Direct(c) /\ k \in WorkerState /\ k.pc = "direct"
      /\ See(c, <<k.shard, k.entry>>) /\ UNCHANGED <<job, caller, shared, pools>>
  BY VisitDirectFacts DEF PipeInv
<1>2. PICK m \in WorkerState :
         /\ worker' = [worker EXCEPT ![c] = [worker[c] EXCEPT ![w] = m]]
         /\ m.late = Noted(c, k).late /\ m.last = k.last
         /\ GoesOn(c, k, m) \/ AsksToStop(c, m)
  BY VisitDirectFacts
<1>3. m.late = IF stopped[c] THEN k.late \cup {<<k.shard, k.entry>>} ELSE k.late
  BY <1>1, <1>2, NotedFacts
<1>4. /\ Late(c, k) /\ ended[c] # "panicked" /\ (stopped[c] <=> ended[c] # "no")
      /\ Kind(c) \in {"RangePar", "TypedRangePar"}
  BY <1>1 DEF PipeInv, Control, DirectControl
<1>5. /\ stopped \in [Call -> BOOLEAN] /\ ended \in [Call -> {"no", "stopped", "panicked"}]
  BY <1>1 DEF TypeOK
<1> HIDE DEF k
<1>6. /\ stopped' \in [Call -> BOOLEAN] /\ ended' \in [Call -> {"no", "stopped", "panicked"}]
      /\ \A d \in Call \ {c} : stopped'[d] = stopped[d] /\ ended'[d] = ended[d]
  BY <1>2, <1>5 DEF GoesOn, AsksToStop
<1>7. /\ ended'[c] # "panicked" /\ (stopped'[c] <=> ended'[c] # "no")
      /\ stopped[c] = TRUE => stopped'[c] = TRUE
  <2>1. CASE UNCHANGED <<ended, stopped>>
    BY <1>4, <2>1
  <2>2. CASE /\ ended' = [ended EXCEPT ![c] = "stopped"] /\ stopped' = [stopped EXCEPT ![c] = TRUE]
    <3>1. ended'[c] = "stopped" /\ stopped'[c] = TRUE
      BY <1>5, <2>2
    <3>2. QED
      BY <3>1
  <2>3. QED
    BY <1>2, <2>1, <2>2 DEF GoesOn, AsksToStop
<1>8. /\ worker' \in [Call -> Seq(WorkerState)] /\ \A d \in Call \ {c} : worker'[d] = worker[d]
  BY <1>1, <1>2, SetWorker
<1>9. /\ DOMAIN seen' = Call /\ (\A d \in Call \ {c} : seen'[d] = seen[d])
      /\ seen'[c] \in [Entries(c) -> Nat]
  BY <1>1, SeeFacts
<1>10. \A d \in Call : seen'[d] \in [Entries(d) -> Nat]
  BY <1>1, <1>9 DEF TypeOK
<1>11. UNCHANGED <<job, pc, at, view, arrays, slabs, buffer, ready, slabPool, readyPool>>
  BY <1>1 DEF caller, shared, pools
<1>12. TypeOK'
  BY <1>1, <1>6, <1>8, <1>9, <1>10, <1>11, TypeParts DEF TypeOK
<1>13. Mine(c)
  BY <1>6, <1>8, <1>9, <1>11 DEF Mine
<1>14. LateIf(c, m, stopped'[c])
  <2>1. stopped[c] \in BOOLEAN
    BY <1>5
  <2>2. /\ k.late # {} => stopped[c] = TRUE
        /\ \A e \in k.late : e[1] = k.shard
        /\ Kind(c) = "TypedRangePar" => k.late = {}
    BY <1>1, <1>4 DEF Late, LateIf
  <2>3. /\ m.late # {} => stopped[c] = TRUE
        /\ \A e \in m.late : e[1] = k.shard
        /\ Kind(c) = "TypedRangePar" => \A e, f \in m.late : e = f
    BY <1>3, <2>1, <2>2
  <2>4. m.pc = "direct" => m.shard = k.shard /\ Kind(c) = "RangePar"
    BY <1>2 DEF GoesOn, AsksToStop
  <2>5. QED
    BY <1>7, <2>3, <2>4 DEF LateIf
<1>15. m.pc \in Visits /\ k.pc # "gone"
  BY <1>1, <1>2 DEF Visits, GoesOn, AsksToStop
<1>16. QED
  BY <1>1, <1>2, <1>7, <1>12, <1>13, <1>14, <1>15, DirectWorkerStep DEF k

-------------------------------------------------------------------------------
(***************************************************************************)
(* What holds of the arrays and of the flag.                               *)
(***************************************************************************)
\* No call has begun.
LEMMA PipeInit == Init => PipeInv
<1> SUFFICES ASSUME Init PROVE PipeInv
  OBVIOUS
<1>1. NilSlice \in Slices /\ <<1, 1>> \in Pairs /\ <<0, 0>> \in Pairs
  BY DEF NilSlice, Slice, Slices, Pairs
<1>2. TypeOK
  <2>1. \A c \in Call : seen[c] \in [Entries(c) -> Nat]
    BY DEF Init
  <2>2. slabs \in Seq(Seq(Slices)) /\ buffer \in Seq(Seq(Pairs)) /\ ready \in Seq(Seq(BOOLEAN))
    BY DEF Init
  <2>3. worker \in [Call -> Seq(WorkerState)]
    BY DEF Init
  <2>4. QED
    BY <1>1, <2>1, <2>2, <2>3 DEF Init, TypeOK, Labels
<1>3. \A c \in Call : pc[c] = "new" /\ arrays[c] = <<0, 0>> /\ worker[c] = <<>>
                      /\ stopped[c] = FALSE /\ ended[c] = "no" /\ at[c] = <<1, 1>>
  BY DEF Init
<1>4. \A c \in Call : Control(c) /\ ~Holder(c)
  BY <1>3 DEF Control, Unstarted, PipedControl, DirectControl, InlineControl, Piped, Direct, Holder
<1>5. QED
  BY <1>2, <1>4 DEF PipeInv, Owned

\* A step is one of some call, or changes nothing.
LEMMA PipeMoves ==
    ASSUME PipeInv, Next
    PROVE  \/ \E c \in Call : PipeInv' /\ Mine(c)
           \/ UNCHANGED vars
<1>1. ASSUME NEW c \in Call, Begin(c) PROVE PipeInv' /\ Mine(c)
  <2>1. CASE BeginSequential(c)
    BY <2>1, InlineTypes, InlineStep
  <2>2. QED
    BY <1>1, <2>1, StepBeginPipeline, StepBeginDirect DEF Begin
<1>2. ASSUME NEW c \in Call, CallerStep(c) PROVE PipeInv' /\ Mine(c)
  <2>1. CASE VisitInline(c) \/ NextShard(c)
    BY <2>1, InlineTypes, InlineStep
  <2>2. QED
    BY <1>2, <2>1, StepAwaitReady, StepVisitSlab, StepNextSlab, StepJoin DEF CallerStep
<1>3. ASSUME NEW c \in Call, NEW w \in DOMAIN worker[c], WorkerStep(c, w) PROVE PipeInv' /\ Mine(c)
  BY <1>3, StepCollectShards, StepFlush, StepSetReady, StepDone, StepCheckStop, StepVisitDirect
     DEF WorkerStep
<1>4. QED
  BY <1>1, <1>2, <1>3 DEF Next, Finished

\* Nothing changes.
LEMMA PipeStutter ==
    ASSUME PipeInv, UNCHANGED vars PROVE PipeInv'
<1>1. UNCHANGED <<job, pc, at, view, arrays, worker, stopped, seen, ended, slabs, buffer, ready,
                  slabPool, readyPool>>
  BY DEF vars, caller, history, shared, pools
<1>2. TypeOK'
  BY <1>1, TypeParts DEF PipeInv, TypeOK
<1>3. Growing
  BY <1>1, StillGrowing DEF PipeInv
<1>4. Call' = Call
  BY <1>1, JobFixed
<1>6. \A c \in Call : Control(c)'
  BY <1>1, <1>3, ControlKept DEF PipeInv
<1>7. Owned'
  BY <1>1, <1>4 DEF PipeInv, Owned, Holder, Piped
<1>8. QED
  BY <1>2, <1>4, <1>6, <1>7 DEF PipeInv

\* The invariant of control and ownership is inductive.
LEMMA PipeInvHolds == Spec => []PipeInv
<1>1. PipeInv /\ [Next]_vars => PipeInv'
  BY PipeMoves, PipeStutter
<1>2. QED
  BY <1>1, PipeInit, PTL DEF Spec

\* The arrays that a call of Range uses are nobody else's, and in no pool:
\* releaseRangeSlabs and releaseRangeReady run after wg.Wait, and a Get takes
\* the array out of the pool (ArraysOwned, for calls whose visitors do not
\* panic).
THEOREM ArraysAreOwned == Spec => []ArraysOwned
<1>1. ASSUME PipeInv PROVE ArraysOwned
  <2>1. \A c \in Call : Uses(c) => Holder(c)
    BY <1>1 DEF PipeInv, Control, PipedControl, Uses, Quiet, Holder, Piped
  <2>2. QED
    BY <1>1, <2>1 DEF PipeInv, Owned, ArraysOwned
<1>2. QED
  BY <1>1, PipeInvHolds, PTL

\* Once a visitor of RangePar has returned false, a worker finishes at most
\* the shard it is in, and a goroutine of TypedMap's RangePar the call it is
\* in (StopIsPrompt).
THEOREM StopsPromptly == Spec => []StopIsPrompt
<1>1. ASSUME PipeInv PROVE StopIsPrompt
  <2> SUFFICES ASSUME NEW c \in Call, NEW w \in DOMAIN worker[c]
               PROVE  /\ \A e, f \in worker[c][w].late : e[1] = f[1]
                      /\ Kind(c) = "TypedRangePar" => Cardinality(worker[c][w].late) <= 1
    BY DEF StopIsPrompt
  <2> DEFINE l == worker[c][w].late
  <2>1. /\ \A e, f \in l : e[1] = f[1]
        /\ Kind(c) = "TypedRangePar" => \A e, f \in l : e = f
    BY <1>1 DEF PipeInv, Control, Late, LateIf
  <2> HIDE DEF l
  <2>2. ASSUME \A e, f \in l : e = f PROVE Cardinality(l) <= 1
    <3>1. CASE l = {}
      BY <3>1, FS_EmptySet
    <3>2. CASE l # {}
      <4>1. PICK e \in l : TRUE
        BY <3>2
      <4>2. l = {e}
        BY <2>2, <4>1
      <4>3. QED
        BY <4>2, FS_Singleton
    <3>3. QED
      BY <3>1, <3>2
  <2>3. QED
    BY <2>1, <2>2 DEF l
<1>2. QED
  BY <1>1, PipeInvHolds, PTL

\* Range calls the visitor from one goroutine, and never again after it has
\* returned false or panicked (NoVisitAfterFalse).
THEOREM NoVisitAfterFalseHolds == Spec => NoVisitAfterFalse
<1> DEFINE Keeps == \A c \in Call : ended[c] # "no" /\ stopped[c] = FALSE => seen'[c] = seen[c]
<1>1. ASSUME PipeInv, [Next]_vars PROVE [Keeps]_vars
  <2>1. CASE UNCHANGED vars
    BY <2>1
  <2>2. ASSUME NEW d \in Call, ended[d] # "no" /\ stopped[d] = FALSE,
               NEW c \in Call, Begin(c) \/ CallerStep(c) \/ \E w \in DOMAIN worker[c] : WorkerStep(c, w)
        PROVE  seen'[d] = seen[d]
    <3>1. CASE d # c
      <4>1. PipeInv' /\ Mine(c)
        <5>1. Begin(c) => PipeInv' /\ Mine(c)
          BY <1>1, InlineTypes, InlineStep, StepBeginPipeline, StepBeginDirect DEF Begin
        <5>2. CallerStep(c) => PipeInv' /\ Mine(c)
          BY <1>1, InlineTypes, InlineStep, StepAwaitReady, StepVisitSlab, StepNextSlab, StepJoin
          DEF CallerStep
        <5>3. (\E w \in DOMAIN worker[c] : WorkerStep(c, w)) => PipeInv' /\ Mine(c)
          BY <1>1, StepCollectShards, StepFlush, StepSetReady, StepDone, StepCheckStop,
             StepVisitDirect DEF WorkerStep
        <5>4. QED
          BY <2>2, <5>1, <5>2, <5>3
      <4>2. QED
        BY <3>1, <4>1 DEF Mine
    <3>2. CASE d = c
      <4>1. CASE Begin(c)
        BY <3>2, <4>1 DEF Begin, BeginSequential, BeginPipeline, BeginDirect, history
      <4>2. CASE CallerStep(c)
        <5>1. ~VisitInline(c)
          BY <1>1, <2>2, <3>2 DEF VisitInline, PipeInv, Control, Unstarted
        <5>2. ~VisitSlab(c)
          BY <1>1, <2>2, <3>2, Modes DEF VisitSlab
        <5>3. QED
          BY <3>2, <4>2, <5>1, <5>2 DEF CallerStep, NextShard, AwaitReady, NextSlab, Join, history
      <4>3. ASSUME NEW w \in DOMAIN worker[c], WorkerStep(c, w) PROVE seen' = seen
        <5>1. ~VisitDirect(c, w)
          BY <1>1, <2>2, <3>2, WorkerModes DEF VisitDirect, WorkerAt, PipeInv, Control, DirectControl
        <5>2. QED
          BY <4>3, <5>1 DEF WorkerStep, CollectShards, Flush, SetReady, Done, CheckStop, history
      <4>4. QED
        BY <2>2, <3>2, <4>1, <4>2, <4>3
    <3>3. QED
      BY <3>1, <3>2
  <2>3. CASE Next
    <3>1. \/ \E c \in Call : Begin(c) \/ CallerStep(c) \/ \E w \in DOMAIN worker[c] : WorkerStep(c, w)
          \/ UNCHANGED vars
      BY <2>3 DEF Next, Finished
    <3>2. QED
      BY <2>1, <2>2, <3>1
  <2>4. QED
    BY <1>1, <2>1, <2>3
<1>2. QED
  BY <1>1, PipeInvHolds, PTL DEF Spec, NoVisitAfterFalse

-------------------------------------------------------------------------------
(***************************************************************************)
(* What the shared memory holds, while nobody has panicked.                *)
(***************************************************************************)
Good == PipeInv /\ NoPanic /\ Separate /\ \A c \in Call : Counted(c)

\* The buffers of a place, one by one.
LEMMA BacksMember ==
    ASSUME NEW a, NEW w, NEW x
    PROVE  x \in Backs(a, w) <=>
             \/ x = slabs[a][w].back
             \/ \E d \in Call : /\ Holder(d) /\ arrays[d][1] = a /\ w \in DOMAIN worker[d]
                                /\ worker[d][w].pc = "flush" /\ x = worker[d][w].buf.back
  BY Zenon DEF Backs

\* A step that gives no place a buffer it did not have.
LEMMA SeparateKept ==
    ASSUME TypeOK, TypeOK', Separate, Len(buffer) <= Len(buffer'),
           \A a \in 1..Len(slabs') : \A w \in DOMAIN slabs'[a] : \A x \in Backs(a, w)' :
             x = 0 \/ (a \in 1..Len(slabs) /\ w \in DOMAIN slabs[a] /\ x \in Backs(a, w))
    PROVE  Separate'
<1>1. Len(buffer) \in Nat /\ Len(buffer') \in Nat
  BY DEF TypeOK
<1>2. ASSUME NEW a \in 1..Len(slabs'), NEW w \in DOMAIN slabs'[a], NEW x \in Backs(a, w)'
      PROVE  x \in 0..Len(buffer')
  <2>1. CASE x = 0
    BY <1>1, <2>1
  <2>2. CASE a \in 1..Len(slabs) /\ w \in DOMAIN slabs[a] /\ x \in Backs(a, w)
    <3>1. x \in 0..Len(buffer)
      BY <2>2 DEF Separate
    <3>2. QED
      BY <1>1, <3>1
  <2>3. QED
    BY <1>2, <2>1, <2>2
<1>3. ASSUME NEW a \in 1..Len(slabs'), NEW v \in DOMAIN slabs'[a],
             NEW b \in 1..Len(slabs'), NEW w \in DOMAIN slabs'[b], <<a, v>> # <<b, w>>,
             NEW x, x \in Backs(a, v)', x \in Backs(b, w)'
      PROVE  x = 0
  <2> SUFFICES ASSUME x # 0 PROVE FALSE
    OBVIOUS
  <2>1. /\ a \in 1..Len(slabs) /\ v \in DOMAIN slabs[a] /\ x \in Backs(a, v)
        /\ b \in 1..Len(slabs) /\ w \in DOMAIN slabs[b] /\ x \in Backs(b, w)
    BY <1>3
  <2>2. Backs(a, v) \cap Backs(b, w) \subseteq {0}
    BY <1>3, <2>1 DEF Separate
  <2>3. QED
    BY <2>1, <2>2
<1>4. QED
  BY <1>2, <1>3 DEF Separate

\* What the workers of a call have collected is left alone.
Kept(d) ==
    \A w \in DOMAIN worker[d] :
        /\ ready'[arrays[d][2]][w] = ready[arrays[d][2]][w]
        /\ slabs'[arrays[d][1]][w] = slabs[arrays[d][1]][w]
        /\ worker[d][w].pc # "collect" /\ worker[d][w].buf.back \in 1..Len(buffer) =>
             /\ worker[d][w].buf.back \in 1..Len(buffer')
             /\ buffer'[worker[d][w].buf.back] = buffer[worker[d][w].buf.back]

\* What a slice of this state holds in the next one.
HoldsNext(slice, found) ==
    /\ slice.len = Len(found)
    /\ found # <<>> =>
         /\ slice.back \in 1..Len(buffer') /\ Len(buffer'[slice.back]) >= Len(found)
         /\ \A i \in 1..Len(found) : buffer'[slice.back][i] = found[i]

\* A worker that does not move has collected what it had.
LEMMA CollectingKept ==
    ASSUME job' = job, NEW d, NEW w, Collecting(d, w), arrays'[d] = arrays[d],
           worker'[d][w] = worker[d][w],
           ready'[arrays[d][2]][w] = ready[arrays[d][2]][w],
           slabs'[arrays[d][1]][w] = slabs[arrays[d][1]][w],
           worker[d][w].pc # "collect" /\ worker[d][w].buf.back \in 1..Len(buffer) =>
             /\ worker[d][w].buf.back \in 1..Len(buffer')
             /\ buffer'[worker[d][w].buf.back] = buffer[worker[d][w].buf.back]
    PROVE  Collecting(d, w)'
<1>1. Found(d, w)' = Found(d, w)
  BY JobFixed
<1>2. /\ ready'[arrays'[d][2]][w] <=> worker'[d][w].pc \in {"done", "gone"}
      /\ worker'[d][w].pc \in {"ready", "done", "gone"} => slabs'[arrays'[d][1]][w] = worker'[d][w].buf
  BY Zenon DEF Collecting
<1>3. worker[d][w].pc # "collect" => HoldsNext(worker[d][w].buf, Found(d, w))
  BY DEF Collecting, Holds, HoldsNext
<1>4. worker'[d][w].pc # "collect" => Holds(worker[d][w].buf, Found(d, w))'
  BY <1>1, <1>3 DEF Holds, HoldsNext
<1>5. QED
  BY <1>2, <1>4, Zenon DEF Collecting

\* A call that does nothing.
LEMMA CountedKept ==
    ASSUME job' = job, NEW d \in Call, Counted(d), Holder(d) => Kept(d),
           pc'[d] = pc[d], at'[d] = at[d], view'[d] = view[d], arrays'[d] = arrays[d],
           worker'[d] = worker[d], seen'[d] = seen[d], ended'[d] = ended[d]
    PROVE  Counted(d)'
<1>1. /\ Map(d)' = Map(d) /\ Workers(d)' = Workers(d) /\ Entries(d)' = Entries(d)
      /\ \A w : /\ Chunk(d, w)' = Chunk(d, w) /\ Found(d, w)' = Found(d, w)
                /\ Chunked(d, w)' = Chunked(d, w)
  BY JobFixed
<1>2. pc'[d] = "new" => \A e \in Entries(d)' : seen'[d][e] = 0
  BY <1>1 DEF Counted
<1>3. pc'[d] = "sequential" =>
         /\ at'[d][1] \in 1..Len(Map(d)') /\ at'[d][2] \in 1..(Map(d)'[at'[d][1]] + 1)
         /\ Before(d, at[d][1], at[d][2])'
  BY <1>1 DEF Counted, Before
<1>4. Piped(d)' /\ pc'[d] \in {"wait", "visit"} => Visiting(d)'
  BY <1>1 DEF Counted, Visiting, Tally, Piped
<1>5. Direct(d)' => \A w \in DOMAIN worker'[d] : Progress(d, w)'
  BY <1>1 DEF Counted, Progress, Direct
<1>6. pc'[d] \in {"join", "returned"} /\ ~Direct(d)' => Once(d)'
  BY <1>1 DEF Counted, Once, Direct
<1>7. Holder(d)' => \A w \in DOMAIN worker'[d] : Collecting(d, w)'
  BY CollectingKept DEF Counted, Kept, Holder, Piped
<1>8. QED
  BY <1>2, <1>3, <1>4, <1>5, <1>6, <1>7 DEF Counted

\* The calls that do not take the step.
LEMMA OthersCounted ==
    ASSUME \A d \in Call : Counted(d), NEW c \in Call, Mine(c),
           \A d \in Call \ {c} : Holder(d) => Kept(d), Counted(c)'
    PROVE  (\A d \in Call : Counted(d))'
<1>1. Call' = Call /\ job' = job
  BY JobFixed DEF Mine
<1>2. \A d \in Call \ {c} : Counted(d)'
  BY CountedKept DEF Mine
<1>3. QED
  BY <1>1, <1>2

\* A step that leaves the shared memory alone keeps what was collected.
LEMMA AllKept ==
    ASSUME UNCHANGED <<slabs, buffer, ready>> PROVE \A d : Kept(d)
  BY DEF Kept

\* It gives nobody a buffer either.
LEMMA SeparateStays ==
    ASSUME PipeInv, PipeInv', Separate, UNCHANGED <<slabs, buffer>>, NEW c \in Call, Mine(c),
           arrays'[c] = arrays[c], pc[c] = "returned" => pc'[c] = "returned",
           \A w \in DOMAIN worker'[c] :
             worker'[c][w].pc = "flush" => w \in DOMAIN worker[c] /\ worker'[c][w] = worker[c][w]
    PROVE  Separate'
<1>1. TypeOK /\ TypeOK' /\ Len(buffer) <= Len(buffer')
  BY SMTT(60) DEF PipeInv, TypeOK
<1>2. Call' = Call /\ \A d \in Call : Holder(d)' => Holder(d)
  BY DEF Mine, Call, Holder, Piped
<1>3. \A d \in Call : \A w \in DOMAIN worker'[d] :
        worker'[d][w].pc = "flush" => w \in DOMAIN worker[d] /\ worker'[d][w] = worker[d][w]
  BY DEF Mine
<1>4. \A d \in Call : arrays'[d] = arrays[d]
  BY DEF Mine
<1>5. ASSUME NEW a, NEW w, NEW x \in Backs(a, w)' PROVE x \in Backs(a, w)
  <2>1. \/ x = slabs'[a][w].back
        \/ \E d \in Call' : /\ Holder(d)' /\ arrays'[d][1] = a /\ w \in DOMAIN worker'[d]
                            /\ worker'[d][w].pc = "flush" /\ x = worker'[d][w].buf.back
    BY Zenon DEF Backs
  <2>2. CASE x = slabs'[a][w].back
    BY <2>2, BacksMember
  <2>3. ASSUME NEW d \in Call, Holder(d)', arrays'[d][1] = a, w \in DOMAIN worker'[d],
               worker'[d][w].pc = "flush", x = worker'[d][w].buf.back
        PROVE  x \in Backs(a, w)
    BY <1>2, <1>3, <1>4, <2>3, BacksMember
  <2>4. QED
    BY <1>2, <2>1, <2>2, <2>3
<1>6. QED
  BY <1>1, <1>5, SeparateKept

\* Every entry is found by one worker, in one place.
LEMMA FoundPlaces ==
    ASSUME job \in Jobs, NEW c \in Call
    PROVE  /\ \A v \in 1..Workers(c) : \A j \in 1..Len(Found(c, v)) : Found(c, v)[j] \in Entries(c)
           /\ \A v, w \in 1..Workers(c) : \A i \in 1..Len(Found(c, v)), j \in 1..Len(Found(c, w)) :
                Found(c, v)[i] = Found(c, w)[j] => v = w /\ i = j
           /\ \A e \in Entries(c) : \E v \in 1..Workers(c) : \E j \in 1..Len(Found(c, v)) :
                e = Found(c, v)[j]
<1>1. \A v \in 1..Workers(c) : /\ Distinct(Found(c, v))
                               /\ Elements(Found(c, v)) = Chunked(c, v)
  BY FoundFacts
<1>2. \A v \in 1..Workers(c) : \A j \in 1..Len(Found(c, v)) : Found(c, v)[j] \in Chunked(c, v)
  BY <1>1 DEF Elements
<1>3. \A v, w \in 1..Workers(c) : v # w => Chunked(c, v) \cap Chunked(c, w) = {}
  BY ChunksApart
<1>4. ASSUME NEW v \in 1..Workers(c), NEW w \in 1..Workers(c),
             NEW i \in 1..Len(Found(c, v)), NEW j \in 1..Len(Found(c, w)),
             Found(c, v)[i] = Found(c, w)[j]
      PROVE  v = w /\ i = j
  <2>1. v = w
    BY <1>2, <1>3, <1>4
  <2>2. QED
    BY <1>1, <1>4, <2>1 DEF Distinct
<1>5. ASSUME NEW e \in Entries(c)
      PROVE  \E v \in 1..Workers(c) : \E j \in 1..Len(Found(c, v)) : e = Found(c, v)[j]
  <2>1. PICK v \in 1..Workers(c) : e \in Chunked(c, v)
    BY ChunksApart
  <2>2. QED
    BY <1>1, <2>1 DEF Elements
<1>6. QED
  BY <1>2, <1>4, <1>5 DEF Chunked

\* A step of a call that leaves the shared memory alone.
LEMMA PrivateStep ==
    ASSUME Good, PipeInv', NEW c \in Call, Mine(c), UNCHANGED <<slabs, buffer, ready>>,
           arrays'[c] = arrays[c], pc[c] = "returned" => pc'[c] = "returned",
           \A w \in DOMAIN worker'[c] :
             worker'[c][w].pc = "flush" => w \in DOMAIN worker[c] /\ worker'[c][w] = worker[c][w],
           Counted(c)'
    PROVE  Separate' /\ (\A d \in Call : Counted(d))'
<1>1. Separate'
  BY SeparateStays DEF Good
<1>2. \A d \in Call \ {c} : Kept(d)
  BY AllKept
<1>3. QED
  BY <1>1, <1>2, OthersCounted DEF Good

-------------------------------------------------------------------------------
(***************************************************************************)
(* The sequential traversal visits the entries in order.                   *)
(***************************************************************************)
\* One more entry has been visited.
LEMMA BeforeNext ==
    ASSUME PipeInv, NEW c \in Call, NEW s \in 1..Len(Map(c)), NEW i \in 1..Map(c)[s],
           Before(c, s, i), See(c, <<s, i>>)
    PROVE  \A e \in Entries(c) :
             seen'[c][e] = IF e[1] < s \/ (e[1] = s /\ e[2] < i + 1) THEN 1 ELSE 0
<1>1. TypeOK /\ job \in Jobs
  BY DEF PipeInv, TypeOK
<1>2. /\ Map(c)[s] \in Nat /\ Len(Map(c)) \in Nat
  BY <1>1, JobFacts
<1>3. \A e \in Entries(c) :
        /\ e \in Nat \X Nat
        /\ seen'[c][e] = IF e = <<s, i>> THEN seen[c][e] + 1 ELSE seen[c][e]
  BY <1>1, SeeFacts, EntryFacts DEF Pairs
<1>4. SUFFICES ASSUME NEW e \in Entries(c)
               PROVE  seen'[c][e] = IF e[1] < s \/ (e[1] = s /\ e[2] < i + 1) THEN 1 ELSE 0
  OBVIOUS
<1>5. e[1] \in Nat /\ e[2] \in Nat /\ (e = <<s, i>> <=> e[1] = s /\ e[2] = i) /\ s \in Nat /\ i \in Nat
  BY <1>2, <1>3
<1>6. seen[c][e] = IF e[1] < s \/ (e[1] = s /\ e[2] < i) THEN 1 ELSE 0
  BY DEF Before
<1>7. CASE e = <<s, i>>
  BY <1>3, <1>5, <1>6, <1>7
<1>8. CASE e # <<s, i>>
  <2>1. seen'[c][e] = seen[c][e]
    BY <1>3, <1>8
  <2>2. (e[1] = s /\ e[2] < i) <=> (e[1] = s /\ e[2] < i + 1)
    BY <1>5, <1>8
  <2>3. QED
    BY <1>6, <2>1, <2>2
<1>9. QED
  BY <1>7, <1>8

\* The sequential traversal.
LEMMA GoodInline ==
    ASSUME Good, NEW c \in Call, BeginSequential(c) \/ VisitInline(c) \/ NextShard(c), NoPanic'
    PROVE  Separate' /\ (\A d \in Call : Counted(d))'
<1>1. /\ PipeInv /\ PipeInv' /\ Mine(c) /\ pc[c] \in {"new", "sequential"} /\ job' = job
      /\ pc'[c] \in {"sequential", "returned"}
      /\ UNCHANGED <<arrays, worker, stopped, shared, pools>>
  BY InlineTypes, InlineStep DEF Good, Mine
<1>2. /\ TypeOK /\ job \in Jobs /\ Call' = Call /\ Map(c)' = Map(c) /\ Entries(c)' = Entries(c)
  BY <1>1, JobFixed DEF PipeInv, TypeOK
<1>3. /\ arrays[c] = <<0, 0>> /\ worker[c] = <<>> /\ ended[c] = "no"
  BY <1>1 DEF PipeInv, Control, Unstarted, Piped
<1>4. ~Piped(c)' /\ ~Direct(c)' /\ worker'[c] = <<>> /\ arrays'[c] = arrays[c]
  BY <1>1, <1>3 DEF Piped, Direct
<1>5. /\ Len(Map(c)) \in Nat \ {0} /\ \A s \in 1..Len(Map(c)) : Map(c)[s] \in Nat
  BY <1>2, JobFacts
<1>6. \A e \in Entries(c) : e[1] \in 1..Len(Map(c)) /\ e[2] \in 1..Map(c)[e[1]]
  BY <1>2, EntryFacts
<1>7. Counted(c)
  BY DEF Good
<1> DEFINE s == at[c][1]
           i == at[c][2]
<1>8. pc[c] = "sequential" =>
        s \in 1..Len(Map(c)) /\ i \in 1..(Map(c)[s] + 1) /\ Before(c, s, i)
  BY <1>7 DEF Counted
<1>9. ASSUME BeginSequential(c) PROVE Counted(c)'
  <2>1. /\ pc[c] = "new" /\ pc' = [pc EXCEPT ![c] = "sequential"] /\ at' = at /\ seen' = seen
    BY <1>9 DEF BeginSequential, Goto, history
  <2>2. pc'[c] = "sequential" /\ at[c] = <<1, 1>> /\ at'[c] = <<1, 1>>
    BY <1>1, <1>2, <2>1 DEF TypeOK, PipeInv, Control, Unstarted
  <2>3. \A e \in Entries(c) : seen'[c][e] = 0
    BY <1>7, <2>1 DEF Counted
  <2>4. at'[c][1] \in 1..Len(Map(c)') /\ at'[c][2] \in 1..(Map(c)'[at'[c][1]] + 1)
    BY <1>2, <1>5, <2>2
  <2>5. Before(c, at[c][1], at[c][2])'
    BY <1>2, <1>6, <2>2, <2>3 DEF Before
  <2>6. QED
    BY <1>4, <2>2, <2>4, <2>5 DEF Counted, Holder
<1>10. ASSUME VisitInline(c) PROVE Counted(c)'
  <2>1. /\ pc[c] = "sequential" /\ i <= Map(c)[s] /\ See(c, <<s, i>>)
        /\ \/ ended' = ended /\ at' = [at EXCEPT ![c] = <<s, i + 1>>] /\ pc' = pc
           \/ /\ ended' = [ended EXCEPT ![c] = "stopped"] \/ ended' = [ended EXCEPT ![c] = "panicked"]
              /\ pc' = [pc EXCEPT ![c] = "returned"] /\ at' = at
    BY <1>10 DEF VisitInline, Goes, Stops, Panics, Goto
  <2>2. s \in 1..Len(Map(c)) /\ i \in 1..Map(c)[s] /\ Before(c, s, i) /\ i + 1 \in 1..(Map(c)[s] + 1)
    BY <1>5, <1>8, <2>1
  <2>3. \A e \in Entries(c) :
          seen'[c][e] = IF e[1] < s \/ (e[1] = s /\ e[2] < i + 1) THEN 1 ELSE 0
    BY <1>1, <2>1, <2>2, BeforeNext
  <2>4. CASE ended' = ended
    <3>1. at'[c] = <<s, i + 1>> /\ pc'[c] = "sequential"
      BY <1>2, <1>3, <2>1, <2>4 DEF TypeOK
    <3>2. at'[c][1] = s /\ at'[c][2] = i + 1
      BY <3>1
    <3>3. Before(c, at[c][1], at[c][2])'
      BY <1>2, <2>3, <3>2 DEF Before
    <3>4. at'[c][1] \in 1..Len(Map(c)') /\ at'[c][2] \in 1..(Map(c)'[at'[c][1]] + 1)
      BY <1>2, <2>2, <3>2
    <3>5. QED
      BY <1>4, <3>1, <3>3, <3>4 DEF Counted, Holder
  <2>5. CASE ended' # ended
    <3>1. pc' = [pc EXCEPT ![c] = "returned"]
          /\ (ended' = [ended EXCEPT ![c] = "stopped"] \/ ended' = [ended EXCEPT ![c] = "panicked"])
      BY <2>1, <2>5
    <3>2. pc'[c] = "returned" /\ ended'[c] # "no"
      BY <1>2, <3>1 DEF TypeOK
    <3>3. Once(c)'
      BY <1>2, <2>3, <3>2 DEF Once
    <3>4. QED
      BY <1>4, <3>2, <3>3 DEF Counted, Holder
  <2>6. QED
    BY <2>4, <2>5
<1>11. ASSUME NextShard(c) PROVE Counted(c)'
  <2>1. /\ pc[c] = "sequential" /\ i > Map(c)[s] /\ at' = [at EXCEPT ![c] = <<s + 1, 1>>]
        /\ pc' = [pc EXCEPT ![c] = IF s < Len(Map(c)) THEN "sequential" ELSE "returned"]
        /\ seen' = seen /\ ended' = ended
    BY <1>11 DEF NextShard, Goto, history
  <2>2. /\ at'[c] = <<s + 1, 1>>
        /\ pc'[c] = IF s < Len(Map(c)) THEN "sequential" ELSE "returned"
    BY <1>2, <2>1 DEF TypeOK
  <2>3. at'[c][1] = s + 1 /\ at'[c][2] = 1
    BY <2>2
  <2>4. s \in 1..Len(Map(c)) /\ i = Map(c)[s] + 1 /\ Map(c)[s] \in Nat /\ Before(c, s, i)
    BY <1>5, <1>8, <2>1
  <2> HIDE DEF s, i
  <2>5. ASSUME NEW e \in Entries(c)
        PROVE  seen'[c][e] = IF e[1] < s + 1 THEN 1 ELSE 0
    <3>1. seen'[c][e] = IF e[1] < s \/ (e[1] = s /\ e[2] < i) THEN 1 ELSE 0
      BY <2>1, <2>4 DEF Before
    <3>2. e[1] \in Nat /\ s \in Nat /\ (e[1] = s => e[2] < i)
      BY <1>5, <1>6, <2>4
    <3>3. QED
      BY <3>1, <3>2
  <2>6. CASE s < Len(Map(c))
    <3>1. pc'[c] = "sequential"
      BY <2>2, <2>6
    <3>2. \A e \in Entries(c) : e[2] \in Nat /\ ~(e[2] < 1)
      BY <1>5, <1>6
    <3>3. Before(c, at[c][1], at[c][2])'
      BY <1>2, <2>3, <2>5, <3>2 DEF Before
    <3>4. s + 1 \in 1..Len(Map(c)) /\ 1 \in 1..(Map(c)[s + 1] + 1)
      BY <1>5, <2>4, <2>6
    <3>5. at'[c][1] \in 1..Len(Map(c)') /\ at'[c][2] \in 1..(Map(c)'[at'[c][1]] + 1)
      BY <1>2, <2>3, <3>4
    <3>6. QED
      BY <1>4, <3>1, <3>3, <3>5 DEF Counted, Holder
  <2>7. CASE ~(s < Len(Map(c)))
    <3>1. pc'[c] = "returned"
      BY <2>2, <2>7
    <3>2. \A e \in Entries(c) : e[1] < s + 1
      BY <1>5, <1>6, <2>4, <2>7
    <3>3. Once(c)'
      BY <1>2, <2>5, <3>2 DEF Once
    <3>4. QED
      BY <1>4, <3>1, <3>3 DEF Counted, Holder
  <2>8. QED
    BY <2>6, <2>7
<1>12. Counted(c)'
  BY <1>9, <1>10, <1>11
<1>13. UNCHANGED <<slabs, buffer, ready>> /\ pc[c] # "returned" /\ DOMAIN worker'[c] = {}
  BY <1>1, <1>4 DEF shared
<1>14. QED
  BY <1>1, <1>4, <1>12, <1>13, PrivateStep

-------------------------------------------------------------------------------
(***************************************************************************)
(* Range visits the slabs in order.                                        *)
(***************************************************************************)
\* The parts of a call with arrays, in the next state.
LEMMA PipedCounted ==
    ASSUME PipeInv', NEW c \in Call, job' = job, Piped(c)',
           pc'[c] \in {"wait", "visit"} =>
             /\ pc'[c] = "wait" => at'[c][2] = 1
             /\ pc'[c] = "visit" =>
                  /\ worker'[c][at'[c][1]].pc \in {"done", "gone"}
                  /\ view'[c] = worker'[c][at'[c][1]].buf /\ at'[c][2] \in 1..(view'[c].len + 1)
             /\ Tally(c, at'[c], seen'[c]),
           pc'[c] \in {"join", "returned"} =>
             \A e \in Entries(c) : seen'[c][e] <= 1 /\ (ended'[c] = "no" => seen'[c][e] = 1),
           pc'[c] # "returned" => (\A w \in DOMAIN worker[c] : Collecting(c, w))'
    PROVE  Counted(c)'
<1>1. /\ Workers(c)' = Workers(c) /\ Entries(c)' = Entries(c) /\ \A w : Found(c, w)' = Found(c, w)
      /\ c \in Call'
  BY JobFixed
<1>2. pc'[c] \in {"wait", "visit", "join", "returned"} /\ ~Direct(c)'
  <2>1. PipedControl(c)'
    BY <1>1 DEF PipeInv, Control
  <2>2. pc'[c] \in {"wait", "visit", "join", "returned"}
    BY <2>1, Zenon DEF PipedControl
  <2>3. ~Direct(c)'
    BY DEF Piped, Direct
  <2>4. QED
    BY <2>2, <2>3
<1>3. pc'[c] \in {"wait", "visit"} => Visiting(c)'
  BY <1>1 DEF Visiting, Tally
<1>4. pc'[c] \in {"join", "returned"} => Once(c)'
  BY <1>1 DEF Once
<1>5. Holder(c)' => (\A w \in DOMAIN worker[c] : Collecting(c, w))'
  BY DEF Holder
<1>6. pc'[c] # "new" /\ pc'[c] # "sequential"
  BY <1>2
<1>7. QED
  BY <1>2, <1>3, <1>4, <1>5, <1>6 DEF Counted

\* The parts of a call with arrays, in this state.
LEMMA PipedFacts ==
    ASSUME Good, NEW c \in Call, Piped(c)
    PROVE  /\ pc[c] \in {"wait", "visit", "join", "returned"} /\ ~Direct(c)
           /\ DOMAIN worker[c] = 1..Workers(c) /\ Workers(c) \in Nat \ {0} /\ job \in Jobs
           /\ pc[c] \in {"wait", "visit"} =>
                /\ pc[c] = "wait" => at[c][2] = 1
                /\ pc[c] = "visit" =>
                     /\ worker[c][at[c][1]].pc \in {"done", "gone"}
                     /\ view[c] = worker[c][at[c][1]].buf /\ at[c][2] \in 1..(view[c].len + 1)
                /\ Tally(c, at[c], seen[c])
                /\ at[c][1] \in 1..Workers(c) /\ ended[c] = "no"
           /\ pc[c] \in {"join", "returned"} =>
                \A e \in Entries(c) : seen[c][e] <= 1 /\ (ended[c] = "no" => seen[c][e] = 1)
           /\ pc[c] # "returned" => \A w \in DOMAIN worker[c] : Collecting(c, w)
<1>1. PipeInv /\ Counted(c) /\ TypeOK /\ job \in Jobs /\ PipedControl(c)
  BY DEF Good, PipeInv, TypeOK, Control
<1>2. ~Direct(c)
  BY DEF Piped, Direct
<1>3. pc[c] \in {"wait", "visit", "join", "returned"} /\ Len(worker[c]) = Workers(c)
  BY <1>1, Zenon DEF PipedControl
<1>4. DOMAIN worker[c] = 1..Workers(c)
  BY <1>1, <1>3 DEF TypeOK
<1>5. Workers(c) \in Nat \ {0}
  BY <1>1, WorkerCount
<1>6. pc[c] \in {"wait", "visit"} => Visiting(c) /\ at[c][1] \in 1..Workers(c) /\ ended[c] = "no"
  BY <1>1, Modes DEF Counted
<1>7. pc[c] \in {"join", "returned"} => Once(c)
  BY <1>1, <1>2 DEF Counted
<1>8. pc[c] # "returned" => \A w \in DOMAIN worker[c] : Collecting(c, w)
  BY <1>1 DEF Counted, Holder
<1>9. QED
  BY <1>1, <1>2, <1>3, <1>4, <1>5, <1>6, <1>7, <1>8 DEF Visiting, Once

\* The workers of a call that moves itself.
LEMMA WorkersKept ==
    ASSUME NEW c \in Call, job' = job, Kept(c), worker'[c] = worker[c], arrays'[c] = arrays[c],
           \A w \in DOMAIN worker[c] : Collecting(c, w)
    PROVE  (\A w \in DOMAIN worker[c] : Collecting(c, w))'
  BY CollectingKept DEF Kept

\* The slab the caller copies is that of a worker that has stored it.
LEMMA GoodAwaitReady ==
    ASSUME Good, NEW c \in Call, AwaitReady(c)
    PROVE  Separate' /\ (\A d \in Call : Counted(d))'
<1> DEFINE w == at[c][1]
<1>1. /\ PipeInv /\ TypeOK /\ pc[c] = "wait" /\ job' = job
      /\ view' = [view EXCEPT ![c] = slabs[arrays[c][1]][w]]
      /\ pc' = [pc EXCEPT ![c] = "visit"] /\ ready[arrays[c][2]][w]
      /\ UNCHANGED <<at, arrays, worker, stopped, seen, ended, slabs, buffer, ready, slabPool, readyPool>>
  BY DEF AwaitReady, Goto, Good, PipeInv, history, shared, pools
<1>2. PipeInv' /\ Mine(c)
  BY <1>1, StepAwaitReady
<1>3. Piped(c)
  BY <1>1, Modes
<1>4. /\ at[c][2] = 1 /\ Tally(c, at[c], seen[c]) /\ w \in 1..Workers(c)
      /\ DOMAIN worker[c] = 1..Workers(c) /\ \A v \in DOMAIN worker[c] : Collecting(c, v)
  BY <1>1, <1>3, PipedFacts
<1>5. Collecting(c, w)
  BY <1>4
<1>6. worker[c][w].pc \in {"done", "gone"} /\ slabs[arrays[c][1]][w] = worker[c][w].buf
  BY <1>1, <1>5, Zenon DEF Collecting
<1>7. worker[c][w] \in WorkerState
  BY <1>1, <1>4, WorkerModes
<1>8. worker[c][w].buf.len \in Nat
  BY <1>7 DEF WorkerState, Slices
<1>9. pc'[c] = "visit" /\ view'[c] = worker[c][w].buf
  BY <1>1, <1>6 DEF TypeOK
<1>10. (\A v \in DOMAIN worker[c] : Collecting(c, v))'
  BY <1>1, <1>4, AllKept, WorkersKept
<1>11. Piped(c)'
  BY <1>1, <1>3 DEF Piped
<1>12. at'[c][2] \in 1..(view'[c].len + 1)
  <2>1. at'[c][2] = 1 /\ view'[c].len \in Nat
    BY <1>1, <1>4, <1>8, <1>9
  <2>2. QED
    BY <2>1
<1>13. Counted(c)'
  <2>1. /\ pc'[c] # "wait" /\ pc'[c] \notin {"join", "returned"}
        /\ worker'[c][at'[c][1]].pc \in {"done", "gone"} /\ view'[c] = worker'[c][at'[c][1]].buf
        /\ Tally(c, at'[c], seen'[c])
    BY <1>1, <1>4, <1>6, <1>9
  <2>2. QED
    BY <1>1, <1>2, <1>10, <1>11, <1>12, <2>1, PipedCounted
<1>14. QED
  BY <1>1, <1>2, <1>13, PrivateStep

\* The end of a slab is the beginning of the next one.
LEMMA TallyNext ==
    ASSUME job \in Jobs, NEW c \in Call, NEW n, NEW w \in 1..Workers(c), NEW i \in Nat,
           Tally(c, <<w, i>>, n), i > Len(Found(c, w))
    PROVE  Tally(c, <<w + 1, 1>>, n)
<1> SUFFICES ASSUME NEW v \in 1..Workers(c), NEW j \in 1..Len(Found(c, v))
             PROVE  n[Found(c, v)[j]] = IF v < w + 1 \/ (v = w + 1 /\ j < 1) THEN 1 ELSE 0
  BY DEF Tally
<1>1. n[Found(c, v)[j]] = IF v < w \/ (v = w /\ j < i) THEN 1 ELSE 0
  BY DEF Tally
<1>2. Workers(c) \in Nat /\ Len(Found(c, v)) \in Nat
  BY WorkerCount, FoundFacts
<1>3. v = w => j < i
  BY <1>2
<1>4. v \in Nat /\ w \in Nat /\ j \in Nat /\ 1 <= j
  BY <1>2
<1>5. QED
  BY <1>1, <1>3, <1>4

\* Nobody is visited twice, and in the end everybody has been visited.
LEMMA TallyBounds ==
    ASSUME job \in Jobs, NEW c \in Call, NEW n, NEW w \in Nat, NEW i \in Nat, Tally(c, <<w, i>>, n)
    PROVE  /\ \A e \in Entries(c) : n[e] \in {0, 1}
           /\ w > Workers(c) => \A e \in Entries(c) : n[e] = 1
<1>1. Workers(c) \in Nat
  BY WorkerCount
<1>2. \A e \in Entries(c) : \E v \in 1..Workers(c) : \E j \in 1..Len(Found(c, v)) : e = Found(c, v)[j]
  BY FoundPlaces
<1>3. \A v \in 1..Workers(c) : \A j \in 1..Len(Found(c, v)) :
        n[Found(c, v)[j]] = IF v < w \/ (v = w /\ j < i) THEN 1 ELSE 0
  BY DEF Tally
<1>4. w > Workers(c) => \A v \in 1..Workers(c) : v < w
  BY <1>1
<1>5. QED
  BY <1>2, <1>3, <1>4

\* One more entry of a slab has been visited.
LEMMA TallySee ==
    ASSUME TypeOK, NEW c \in Call, NEW w \in 1..Workers(c), NEW i \in 1..Len(Found(c, w)),
           Tally(c, <<w, i>>, seen[c]), See(c, Found(c, w)[i])
    PROVE  Tally(c, <<w, i + 1>>, seen'[c])
<1>1. job \in Jobs
  BY DEF TypeOK
<1> SUFFICES ASSUME NEW v \in 1..Workers(c), NEW j \in 1..Len(Found(c, v))
             PROVE  seen'[c][Found(c, v)[j]] = IF v < w \/ (v = w /\ j < i + 1) THEN 1 ELSE 0
  BY DEF Tally
<1>2. seen[c][Found(c, v)[j]] = IF v < w \/ (v = w /\ j < i) THEN 1 ELSE 0
  BY DEF Tally
<1>3. /\ Found(c, v)[j] \in Entries(c)
      /\ Found(c, v)[j] = Found(c, w)[i] => v = w /\ j = i
  BY <1>1, FoundPlaces
<1>4. seen'[c][Found(c, v)[j]] =
        IF Found(c, v)[j] = Found(c, w)[i] THEN seen[c][Found(c, v)[j]] + 1
        ELSE seen[c][Found(c, v)[j]]
  BY <1>3, SeeFacts
<1>5. Workers(c) \in Nat /\ Len(Found(c, v)) \in Nat /\ Len(Found(c, w)) \in Nat
  BY <1>1, WorkerCount, FoundFacts
<1>6. v \in Nat /\ w \in Nat /\ j \in Nat /\ i \in Nat
  BY <1>5
<1>7. CASE v = w /\ j = i
  <2>1. ~(v < w) /\ ~(j < i) /\ j < i + 1
    BY <1>6, <1>7
  <2>2. seen[c][Found(c, v)[j]] = 0
    BY <1>2, <2>1
  <2>3. QED
    BY <1>4, <1>7, <2>1, <2>2
<1>8. CASE ~(v = w /\ j = i)
  <2>1. seen'[c][Found(c, v)[j]] = seen[c][Found(c, v)[j]]
    BY <1>3, <1>4, <1>8
  <2>2. (v = w /\ j < i) <=> (v = w /\ j < i + 1)
    BY <1>6, <1>8
  <2>3. QED
    BY <1>2, <2>1, <2>2
<1>9. QED
  BY <1>7, <1>8

\* The slab that the caller visits is what its worker found.
LEMMA SlabFacts ==
    ASSUME Good, NEW c \in Call, Piped(c), pc[c] = "visit"
    PROVE  LET w == at[c][1]
               i == at[c][2]
           IN /\ w \in 1..Workers(c) /\ i \in 1..(Len(Found(c, w)) + 1) /\ at[c] = <<w, i>>
              /\ view[c].len = Len(Found(c, w)) /\ Len(Found(c, w)) \in Nat /\ Workers(c) \in Nat
              /\ i <= view[c].len => buffer[view[c].back][i] = Found(c, w)[i]
<1> DEFINE w == at[c][1]
           i == at[c][2]
<1>1. /\ job \in Jobs /\ w \in 1..Workers(c) /\ Workers(c) \in Nat
      /\ worker[c][w].pc \in {"done", "gone"} /\ view[c] = worker[c][w].buf
      /\ i \in 1..(view[c].len + 1)
      /\ DOMAIN worker[c] = 1..Workers(c) /\ \A v \in DOMAIN worker[c] : Collecting(c, v)
  BY PipedFacts
<1>2. at[c] \in Nat \X Nat
  BY DEF Good, PipeInv, TypeOK, Pairs
<1>3. at[c] = <<w, i>>
  BY <1>2
<1>4. Len(Found(c, w)) \in Nat
  BY <1>1, FoundFacts
<1> HIDE DEF w, i
<1>5. Holds(view[c], Found(c, w))
  <2>1. Collecting(c, w)
    BY <1>1
  <2>2. QED
    BY <1>1, <2>1 DEF Collecting
<1>6. view[c].len = Len(Found(c, w))
  BY <1>5 DEF Holds
<1>7. i <= view[c].len => i \in 1..Len(Found(c, w)) /\ Found(c, w) # <<>>
  BY <1>1, <1>4, <1>6
<1>8. i <= view[c].len => buffer[view[c].back][i] = Found(c, w)[i]
  BY <1>5, <1>7 DEF Holds
<1>9. QED
  BY <1>1, <1>3, <1>4, <1>6, <1>8 DEF w, i

\* The caller goes to the next slab.
LEMMA GoodNextSlab ==
    ASSUME Good, NEW c \in Call, NextSlab(c)
    PROVE  Separate' /\ (\A d \in Call : Counted(d))'
<1> DEFINE w == at[c][1]
           i == at[c][2]
<1>1. /\ PipeInv /\ TypeOK /\ pc[c] = "visit" /\ job' = job /\ i > view[c].len
      /\ at' = [at EXCEPT ![c] = <<w + 1, 1>>]
      /\ pc' = [pc EXCEPT ![c] = IF w < Workers(c) THEN "wait" ELSE "join"]
      /\ UNCHANGED <<view, arrays, worker, stopped, seen, ended, slabs, buffer, ready, slabPool, readyPool>>
  BY DEF NextSlab, Goto, Good, PipeInv, history, shared, pools
<1>2. PipeInv' /\ Mine(c) /\ Piped(c)
  BY <1>1, StepNextSlab, Modes
<1>3. /\ w \in 1..Workers(c) /\ i \in 1..(Len(Found(c, w)) + 1) /\ at[c] = <<w, i>>
      /\ view[c].len = Len(Found(c, w)) /\ Len(Found(c, w)) \in Nat /\ Workers(c) \in Nat
  BY <1>1, <1>2, SlabFacts
<1>4. /\ job \in Jobs /\ Tally(c, at[c], seen[c]) /\ ended[c] = "no"
      /\ \A v \in DOMAIN worker[c] : Collecting(c, v)
  BY <1>1, <1>2, PipedFacts
<1>5. at'[c] = <<w + 1, 1>> /\ pc'[c] = IF w < Workers(c) THEN "wait" ELSE "join"
  BY <1>1 DEF TypeOK
<1>6. (\A v \in DOMAIN worker[c] : Collecting(c, v))'
  BY <1>1, <1>4, AllKept, WorkersKept
<1>7. Piped(c)'
  BY <1>1, <1>2 DEF Piped
<1> HIDE DEF w, i
<1>8. Tally(c, <<w + 1, 1>>, seen[c])
  <2>1. i \in Nat /\ i > Len(Found(c, w)) /\ Tally(c, <<w, i>>, seen[c])
    BY <1>1, <1>3, <1>4
  <2>2. QED
    BY <1>3, <1>4, <2>1, TallyNext
<1>9. w + 1 \in Nat /\ (~(w < Workers(c)) => w + 1 > Workers(c))
  BY <1>3
<1>10. pc'[c] = "join" => \A e \in Entries(c) : seen[c][e] = 1
  BY <1>4, <1>5, <1>8, <1>9, TallyBounds
<1>11. Counted(c)'
  <2>1. /\ pc'[c] \in {"wait", "join"} /\ at'[c][2] = 1 /\ Tally(c, at'[c], seen'[c])
        /\ pc'[c] \in {"join", "returned"} =>
             \A e \in Entries(c) : seen'[c][e] <= 1 /\ (ended'[c] = "no" => seen'[c][e] = 1)
    BY <1>1, <1>5, <1>8, <1>10
  <2>2. QED
    BY <1>1, <1>2, <1>6, <1>7, <2>1, PipedCounted
<1>12. QED
  BY <1>1, <1>2, <1>11, PrivateStep

\* The caller calls the visitor with the entry that is due.
LEMMA GoodVisitSlab ==
    ASSUME Good, NEW c \in Call, VisitSlab(c), NoPanic'
    PROVE  Separate' /\ (\A d \in Call : Counted(d))'
<1> DEFINE w == at[c][1]
           i == at[c][2]
<1>1. /\ PipeInv /\ TypeOK /\ pc[c] = "visit" /\ job' = job /\ i <= view[c].len
      /\ See(c, buffer[view[c].back][i])
      /\ UNCHANGED <<view, arrays, worker, stopped, buffer, ready>>
      /\ \/ /\ ended' = ended /\ at' = [at EXCEPT ![c] = <<w, i + 1>>]
            /\ pc' = pc /\ UNCHANGED <<slabs, slabPool, readyPool>>
         \/ /\ ended' = [ended EXCEPT ![c] = "stopped"] /\ pc' = [pc EXCEPT ![c] = "join"]
            /\ at' = at /\ UNCHANGED <<slabs, slabPool, readyPool>>
         \/ ended' = [ended EXCEPT ![c] = "panicked"]
  BY DEF VisitSlab, Goto, Goes, Stops, Panics, Good, PipeInv, pools
<1>2. PipeInv' /\ Mine(c) /\ Piped(c)
  BY <1>1, StepVisitSlab, Modes
<1>3. /\ w \in 1..Workers(c) /\ i \in 1..(Len(Found(c, w)) + 1) /\ at[c] = <<w, i>>
      /\ view[c].len = Len(Found(c, w)) /\ Len(Found(c, w)) \in Nat /\ Workers(c) \in Nat
      /\ buffer[view[c].back][i] = Found(c, w)[i]
  BY <1>1, <1>2, SlabFacts
<1>4. /\ job \in Jobs /\ Tally(c, at[c], seen[c]) /\ ended[c] = "no"
      /\ worker[c][w].pc \in {"done", "gone"} /\ view[c] = worker[c][w].buf
      /\ \A v \in DOMAIN worker[c] : Collecting(c, v)
  BY <1>1, <1>2, PipedFacts
<1>5. ended \in [Call -> {"no", "stopped", "panicked"}] /\ at \in [Call -> Pairs] /\ pc \in [Call -> Labels]
  BY <1>1 DEF TypeOK
<1>6. ended' # [ended EXCEPT ![c] = "panicked"]
  <2>1. c \in Call'
    BY <1>1, JobFixed
  <2>2. QED
    BY <1>5, <2>1 DEF NoPanic
<1>7. UNCHANGED <<slabs, buffer, ready>>
  BY <1>1, <1>6
<1>8. (\A v \in DOMAIN worker[c] : Collecting(c, v))'
  BY <1>1, <1>4, <1>7, AllKept, WorkersKept
<1>9. Piped(c)'
  BY <1>1, <1>2 DEF Piped
<1>10. /\ \/ ended'[c] = "no" /\ at'[c] = <<w, i + 1>> /\ pc'[c] = "visit"
          \/ ended'[c] = "stopped" /\ pc'[c] = "join"
  BY <1>1, <1>4, <1>5, <1>6
<1> HIDE DEF w, i
<1>11. i \in 1..Len(Found(c, w)) /\ i \in Nat /\ i + 1 \in 1..(Len(Found(c, w)) + 1)
  BY <1>1, <1>3
<1>12. Tally(c, <<w, i + 1>>, seen'[c])
  BY <1>1, <1>3, <1>4, <1>11, TallySee
<1>13. \A e \in Entries(c) : seen'[c][e] \in {0, 1}
  <2>1. w \in Nat /\ i + 1 \in Nat
    BY <1>3, <1>11
  <2>2. QED
    BY <1>4, <1>12, <2>1, TallyBounds
<1>14. Counted(c)'
  <2>1. CASE ended'[c] = "no" /\ at'[c] = <<w, i + 1>> /\ pc'[c] = "visit"
    <3>1. at'[c][1] = w /\ at'[c][2] = i + 1
      BY <2>1
    <3>2. /\ worker'[c][at'[c][1]].pc \in {"done", "gone"} /\ view'[c] = worker'[c][at'[c][1]].buf
          /\ at'[c][2] \in 1..(view'[c].len + 1)
      BY <1>1, <1>3, <1>4, <1>11, <3>1
    <3>3. Tally(c, at'[c], seen'[c])
      BY <1>12, <2>1
    <3>4. QED
      BY <1>1, <1>2, <1>8, <1>9, <2>1, <3>2, <3>3, PipedCounted
  <2>2. CASE ended'[c] = "stopped" /\ pc'[c] = "join"
    <3>1. \A e \in Entries(c) : seen'[c][e] <= 1
      BY <1>13
    <3>2. QED
      BY <1>1, <1>2, <1>8, <1>9, <2>2, <3>1, PipedCounted
  <2>3. QED
    BY <1>10, <2>1, <2>2
<1>15. QED
  <2>1. /\ arrays'[c] = arrays[c] /\ worker'[c] = worker[c] /\ pc[c] # "returned"
    BY <1>1
  <2>2. QED
    BY <1>2, <1>7, <1>14, <2>1, PrivateStep

\* The arrays of the other calls are left alone when one call changes its own.
LEMMA OthersKept ==
    ASSUME Good, NEW c \in Call, UNCHANGED <<buffer, ready>>, Holder(c),
           \A b \in 1..Len(slabs) : b # arrays[c][1] => slabs'[b] = slabs[b]
    PROVE  \A d \in Call \ {c} : Holder(d) => Kept(d)
<1> SUFFICES ASSUME NEW d \in Call \ {c}, Holder(d) PROVE Kept(d)
  OBVIOUS
<1>1. arrays[d][1] # arrays[c][1] /\ arrays[d][1] \in 1..Len(slabs)
  BY DEF Good, PipeInv, Owned, Control, PipedControl, Holder
<1>2. QED
  BY <1>1 DEF Kept

\* Slices that are emptied keep their buffers.
LEMMA SeparateEmptied ==
    ASSUME PipeInv, PipeInv', Separate, UNCHANGED buffer, NEW c \in Call, Mine(c),
           arrays'[c] = arrays[c], pc'[c] = "returned",
           Len(slabs') = Len(slabs), \A b \in 1..Len(slabs) : Emptied(slabs[b], slabs'[b])
    PROVE  Separate'
<1>1. TypeOK /\ TypeOK' /\ Len(buffer) <= Len(buffer')
  <2>1. TypeOK /\ TypeOK'
    BY DEF PipeInv
  <2>2. Len(buffer) \in Nat
    BY <2>1 DEF TypeOK
  <2>3. QED
    BY <2>1, <2>2
<1>2. Call' = Call /\ ~Holder(c)' /\ \A d \in Call \ {c} :
        (Holder(d)' => Holder(d)) /\ arrays'[d] = arrays[d] /\ worker'[d] = worker[d]
  BY DEF Mine, Call, Holder, Piped
<1>3. ASSUME NEW a \in 1..Len(slabs'), NEW w \in DOMAIN slabs'[a], NEW x \in Backs(a, w)'
      PROVE  a \in 1..Len(slabs) /\ w \in DOMAIN slabs[a] /\ x \in Backs(a, w)
  <2>1. a \in 1..Len(slabs) /\ Emptied(slabs[a], slabs'[a])
    OBVIOUS
  <2>2. DOMAIN slabs[a] = 1..Len(slabs[a]) /\ DOMAIN slabs'[a] = 1..Len(slabs'[a])
    BY <1>1, <2>1 DEF TypeOK
  <2>3. w \in DOMAIN slabs[a] /\ slabs'[a][w].back = slabs[a][w].back
    BY <2>1, <2>2 DEF Emptied
  <2>4. \/ x = slabs'[a][w].back
        \/ \E d \in Call' : /\ Holder(d)' /\ arrays'[d][1] = a /\ w \in DOMAIN worker'[d]
                            /\ worker'[d][w].pc = "flush" /\ x = worker'[d][w].buf.back
    BY Zenon DEF Backs
  <2>5. CASE x = slabs'[a][w].back
    BY <2>1, <2>3, <2>5, BacksMember
  <2>6. ASSUME NEW d \in Call', Holder(d)', arrays'[d][1] = a, w \in DOMAIN worker'[d],
               worker'[d][w].pc = "flush", x = worker'[d][w].buf.back
        PROVE  x \in Backs(a, w)
    <3>1. d \in Call \ {c}
      BY <1>2, <2>6
    <3>2. Holder(d) /\ arrays'[d] = arrays[d] /\ worker'[d] = worker[d]
      BY <1>2, <2>6, <3>1
    <3>3. QED
      BY <2>6, <3>1, <3>2, BacksMember
  <2>7. QED
    BY <2>1, <2>3, <2>4, <2>5, <2>6
<1>4. QED
  BY <1>1, <1>3, SeparateKept

\* The call returns.
LEMMA GoodJoin ==
    ASSUME Good, NEW c \in Call, Join(c)
    PROVE  Separate' /\ (\A d \in Call : Counted(d))'
<1>1. /\ PipeInv /\ TypeOK /\ pc[c] = "join" /\ job' = job /\ pc' = [pc EXCEPT ![c] = "returned"]
      /\ IF Kind(c) \in {"Range", "Snapshot"} THEN ReleaseArrays(c)
         ELSE UNCHANGED <<slabs, slabPool, readyPool>>
      /\ UNCHANGED <<at, view, arrays, worker, stopped, seen, ended, buffer, ready>>
  BY DEF Join, Goto, Good, PipeInv, history, pools
<1>2. PipeInv' /\ Mine(c) /\ pc'[c] = "returned" /\ Counted(c)
  BY <1>1, StepJoin DEF TypeOK, Good
<1>3. CASE Piped(c)
  <2>1. ReleaseArrays(c) /\ Holder(c)
    BY <1>1, <1>3, Modes DEF Holder
  <2>2. /\ Len(slabs') = Len(slabs)
        /\ \A b \in 1..Len(slabs) : /\ Emptied(slabs[b], slabs'[b])
                                    /\ b # arrays[c][1] => slabs'[b] = slabs[b]
    BY <1>1, <1>3, <2>1, ReleaseFacts
  <2>3. \A d \in Call \ {c} : Holder(d) => Kept(d)
    BY <1>1, <2>1, <2>2, OthersKept
  <2>4. Separate'
    BY <1>1, <1>2, <2>2, SeparateEmptied DEF Good
  <2>5. \A e \in Entries(c) : seen'[c][e] <= 1 /\ (ended'[c] = "no" => seen'[c][e] = 1)
    BY <1>1, <1>3, PipedFacts
  <2>6. Counted(c)'
    <3>1. Piped(c)'
      BY <1>1, <1>3 DEF Piped
    <3>2. QED
      BY <1>1, <1>2, <2>5, <3>1, PipedCounted
  <2>7. QED
    BY <1>2, <2>3, <2>4, <2>6, OthersCounted DEF Good
<1>4. CASE ~Piped(c)
  <2>1. Direct(c) /\ UNCHANGED <<slabs, buffer, ready>>
    BY <1>1, <1>4, Modes
  <2>2. Direct(c)' /\ ~Piped(c)'
    BY <1>1, <2>1 DEF Direct, Piped
  <2>3. (\A w \in DOMAIN worker[c] : Progress(c, w))'
    <3>1. \A w \in DOMAIN worker[c] : Progress(c, w)
      BY <1>2, <2>1 DEF Counted
    <3>2. Map(c)' = Map(c) /\ \A w : Chunk(c, w)' = Chunk(c, w) /\ Chunked(c, w)' = Chunked(c, w)
      BY <1>1, JobFixed
    <3>3. QED
      BY <1>1, <3>1, <3>2 DEF Progress
  <2>4. Counted(c)'
    BY <1>2, <2>2, <2>3 DEF Counted, Holder
  <2>5. QED
    BY <1>1, <1>2, <2>1, <2>4, PrivateStep
<1>5. QED
  BY <1>3, <1>4

\* A call begins with flags that are down, slices that are nobody else's and
\* entries that nobody has visited.
LEMMA GoodBeginPipeline ==
    ASSUME Good, NEW c \in Call, BeginPipeline(c)
    PROVE  Separate' /\ (\A d \in Call : Counted(d))'
<1>1. PICK a \in 1..(Len(slabs) + 1), b \in 1..(Len(ready) + 1) :
             /\ AcquireRangeSlabs(Workers(c), a) /\ AcquireRangeReady(Workers(c), b)
             /\ arrays' = [arrays EXCEPT ![c] = <<a, b>>]
             /\ job' = job /\ pc[c] = "new" /\ Kind(c) \in {"Range", "Snapshot"}
             /\ worker' = [worker EXCEPT ![c] = NewWorkers(c, "collect")]
             /\ pc' = [pc EXCEPT ![c] = "wait"]
             /\ UNCHANGED <<at, view, stopped, seen, ended, buffer>>
  BY BeginPipelineFacts DEF Good
<1>2. /\ PipeInv /\ TypeOK /\ job \in Jobs /\ PipeInv' /\ TypeOK' /\ Mine(c)
  BY StepBeginPipeline DEF Good, PipeInv, TypeOK
<1> DEFINE n == Workers(c)
           k == NewWorkers(c, "collect")
<1>3. n \in Nat \ {0} /\ Len(slabs) \in Nat /\ Len(ready) \in Nat /\ Len(buffer) \in Nat
  BY <1>2, WorkerCount DEF TypeOK
<1>4. /\ a \in slabPool \/ a = Len(slabs) + 1
      /\ \A x \in 1..Len(slabs) : Emptied(slabs[x], slabs'[x]) /\ (x # a => slabs'[x] = slabs[x])
      /\ \A x \in 1..Len(slabs') :
           \/ x \in 1..Len(slabs)
           \/ \A w \in DOMAIN slabs'[x] : slabs'[x][w].back = 0
  BY <1>1, <1>2, <1>3, SlabsAcquired
<1>5. /\ b \in readyPool \/ b = Len(ready) + 1
      /\ \A x \in 1..Len(ready) : x # b => ready'[x] = ready[x]
      /\ \A w \in 1..n : ready'[b][w] = FALSE
  BY <1>1, <1>2, <1>3, ReadyAcquired
<1>6. DOMAIN k = 1..n /\ \A w \in 1..n : k[w].pc = "collect"
  BY <1>2, NewWorkersFacts
<1> HIDE DEF n, k
<1>7. /\ arrays'[c] = <<a, b>> /\ arrays'[c][1] = a /\ arrays'[c][2] = b
      /\ worker'[c] = k /\ pc'[c] = "wait"
  <2>1. arrays'[c] = <<a, b>> /\ worker'[c] = k /\ pc'[c] = "wait"
    BY <1>1, <1>2 DEF TypeOK, k
  <2>2. QED
    BY <2>1
<1>8. \A d \in Call \ {c} : Holder(d) => Kept(d)
  <2> SUFFICES ASSUME NEW d \in Call \ {c}, Holder(d) PROVE Kept(d)
    OBVIOUS
  <2>1. /\ arrays[d][1] \in 1..Len(slabs) /\ arrays[d][1] \notin slabPool
        /\ arrays[d][2] \in 1..Len(ready) /\ arrays[d][2] \notin readyPool
    BY <1>2 DEF PipeInv, Owned, Control, PipedControl, Holder
  <2>2. Len(slabs) + 1 \notin 1..Len(slabs) /\ Len(ready) + 1 \notin 1..Len(ready)
    BY <1>3
  <2>3. arrays[d][1] # a /\ arrays[d][2] # b
    BY <1>4, <1>5, <2>1, <2>2
  <2>4. slabs'[arrays[d][1]] = slabs[arrays[d][1]] /\ ready'[arrays[d][2]] = ready[arrays[d][2]]
    BY <1>4, <1>5, <2>1, <2>3
  <2>5. buffer' = buffer
    BY <1>1
  <2>6. QED
    BY <2>4, <2>5 DEF Kept
<1>9. Separate'
  <2>1. Call' = Call /\ \A d \in Call \ {c} :
          (Holder(d)' => Holder(d)) /\ arrays'[d] = arrays[d] /\ worker'[d] = worker[d]
    BY <1>2 DEF Mine, Call, Holder, Piped
  <2>2. ASSUME NEW x \in 1..Len(slabs'), NEW w \in DOMAIN slabs'[x], NEW y \in Backs(x, w)'
        PROVE  y = 0 \/ (x \in 1..Len(slabs) /\ w \in DOMAIN slabs[x] /\ y \in Backs(x, w))
    <3>1. \/ y = slabs'[x][w].back
          \/ \E d \in Call' : /\ Holder(d)' /\ arrays'[d][1] = x /\ w \in DOMAIN worker'[d]
                              /\ worker'[d][w].pc = "flush" /\ y = worker'[d][w].buf.back
      BY Zenon DEF Backs
    <3>2. x \in 1..Len(slabs) => w \in DOMAIN slabs[x] /\ slabs'[x][w].back = slabs[x][w].back
      <4> SUFFICES ASSUME x \in 1..Len(slabs)
                   PROVE  w \in DOMAIN slabs[x] /\ slabs'[x][w].back = slabs[x][w].back
        OBVIOUS
      <4>1. Emptied(slabs[x], slabs'[x])
        BY <1>4
      <4>2. DOMAIN slabs[x] = 1..Len(slabs[x]) /\ DOMAIN slabs'[x] = 1..Len(slabs'[x])
        <5>1. slabs \in Seq(Seq(Slices)) /\ slabs' \in Seq(Seq(Slices))
          BY <1>2 DEF TypeOK
        <5>2. slabs[x] \in Seq(Slices) /\ slabs'[x] \in Seq(Slices)
          BY <5>1
        <5>3. QED
          BY <5>2
      <4>3. QED
        BY <4>1, <4>2 DEF Emptied
    <3>3. CASE y = slabs'[x][w].back
      <4>1. CASE x \in 1..Len(slabs)
        BY <3>2, <3>3, <4>1, BacksMember
      <4>2. CASE x \notin 1..Len(slabs)
        BY <1>4, <3>3, <4>2
      <4>3. QED
        BY <4>1, <4>2
    <3>4. ASSUME NEW d \in Call', Holder(d)', arrays'[d][1] = x, w \in DOMAIN worker'[d],
                 worker'[d][w].pc = "flush", y = worker'[d][w].buf.back
          PROVE  x \in 1..Len(slabs) /\ w \in DOMAIN slabs[x] /\ y \in Backs(x, w)
      <4>1. d # c
        BY <1>6, <1>7, <3>4
      <4>2. d \in Call \ {c} /\ Holder(d) /\ arrays'[d] = arrays[d] /\ worker'[d] = worker[d]
        BY <2>1, <3>4, <4>1
      <4>3. arrays[d][1] \in 1..Len(slabs)
        BY <1>2, <4>2 DEF PipeInv, Control, PipedControl, Holder
      <4>4. x \in 1..Len(slabs)
        BY <3>4, <4>2, <4>3
      <4>5. y \in Backs(x, w)
        BY <3>4, <4>2, BacksMember
      <4>6. QED
        BY <3>2, <4>4, <4>5
    <3>5. QED
      BY <3>1, <3>3, <3>4
  <2>3. Len(buffer) <= Len(buffer')
    BY <1>1, <1>3
  <2>4. QED
    BY <1>2, <2>2, <2>3, SeparateKept DEF Good
<1>10. Counted(c)'
  <2>1. Piped(c)'
    BY <1>3, <1>7 DEF Piped
  <2>2. at[c] = <<1, 1>>
    BY <1>1, <1>2 DEF PipeInv, Control, Unstarted
  <2>3. at'[c] = <<1, 1>> /\ at'[c][2] = 1
    BY <1>1, <2>2
  <2>4. Tally(c, at'[c], seen'[c])
    <3>1. \A e \in Entries(c) : seen'[c][e] = 0
      BY <1>1 DEF Good, Counted
    <3>2. \A v \in 1..Workers(c) : \A j \in 1..Len(Found(c, v)) : Found(c, v)[j] \in Entries(c)
      BY <1>2, FoundPlaces
    <3>3. \A v \in 1..Workers(c) : \A j \in 1..Len(Found(c, v)) : ~(v < 1) /\ ~(v = 1 /\ j < 1)
      BY <1>2, <1>3, FoundFacts DEF n
    <3>4. QED
      BY <2>3, <3>1, <3>2, <3>3 DEF Tally
  <2>5. \A w \in DOMAIN worker'[c] : w \in 1..n /\ worker'[c][w].pc = "collect" /\ ready'[b][w] = FALSE
    BY <1>5, <1>6, <1>7
  <2>6. \A w \in DOMAIN worker'[c] : /\ worker'[c][w].pc = "collect"
                                     /\ ready'[arrays'[c][2]][w] = FALSE
    BY <1>7, <2>5
  <2>7. (\A w \in DOMAIN worker[c] : Collecting(c, w))'
    BY <2>6 DEF Collecting
  <2>8. QED
    BY <1>1, <1>2, <1>7, <2>1, <2>3, <2>4, <2>7, PipedCounted
<1>11. QED
  BY <1>2, <1>8, <1>9, <1>10, OthersCounted DEF Good

-------------------------------------------------------------------------------
(***************************************************************************)
(* The workers of Range collect into buffers of their own.                 *)
(***************************************************************************)
\* A worker that is not gone works for a call that has not returned.
LEMMA WorkerHolds ==
    ASSUME Good, NEW c \in Call, NEW w \in DOMAIN worker[c], Piped(c), worker[c][w].pc # "gone"
    PROVE  Holder(c)
  BY WorkerModes DEF Good, NoPanic, Holder

\* The call of a worker that collects, after a step of the worker.
LEMMA WorkerCounted ==
    ASSUME Good, PipeInv', NEW c \in Call, Holder(c), NEW w \in DOMAIN worker[c],
           UNCHANGED <<job, pc, at, view, arrays, seen, ended>>,
           \A v \in DOMAIN worker[c] \ {w} : worker'[c][v] = worker[c][v],
           worker[c][w].pc \in {"done", "gone"} =>
             worker'[c][w].pc \in {"done", "gone"} /\ worker'[c][w].buf = worker[c][w].buf,
           (\A v \in DOMAIN worker[c] : Collecting(c, v))'
    PROVE  Counted(c)'
<1>1. Piped(c) /\ pc[c] # "returned" /\ Piped(c)'
  BY DEF Holder, Piped
<1>2. /\ DOMAIN worker[c] = 1..Workers(c)
      /\ pc[c] \in {"wait", "visit"} =>
           /\ pc[c] = "wait" => at[c][2] = 1
           /\ pc[c] = "visit" =>
                /\ worker[c][at[c][1]].pc \in {"done", "gone"}
                /\ view[c] = worker[c][at[c][1]].buf /\ at[c][2] \in 1..(view[c].len + 1)
           /\ Tally(c, at[c], seen[c]) /\ at[c][1] \in 1..Workers(c)
      /\ pc[c] \in {"join", "returned"} =>
           \A e \in Entries(c) : seen[c][e] <= 1 /\ (ended[c] = "no" => seen[c][e] = 1)
  BY <1>1, PipedFacts
<1>3. pc[c] = "visit" => /\ worker'[c][at[c][1]].pc \in {"done", "gone"}
                         /\ worker'[c][at[c][1]].buf = worker[c][at[c][1]].buf
  <2>1. CASE at[c][1] = w
    BY <1>2, <2>1
  <2>2. CASE at[c][1] # w
    BY <1>2, <2>2
  <2>3. QED
    BY <2>1, <2>2
<1>4. QED
  <2>1. pc'[c] \in {"wait", "visit"} =>
             /\ pc'[c] = "wait" => at'[c][2] = 1
             /\ pc'[c] = "visit" =>
                  /\ worker'[c][at'[c][1]].pc \in {"done", "gone"}
                  /\ view'[c] = worker'[c][at'[c][1]].buf /\ at'[c][2] \in 1..(view'[c].len + 1)
             /\ Tally(c, at'[c], seen'[c])
    BY <1>2, <1>3
  <2>2. pc'[c] \in {"join", "returned"} =>
             \A e \in Entries(c) : seen'[c][e] <= 1 /\ (ended'[c] = "no" => seen'[c][e] = 1)
    BY <1>2
  <2>3. QED
    BY <1>1, <2>1, <2>2, PipedCounted

\* The place of a worker in the array of its call.
LEMMA PlaceFacts ==
    ASSUME Good, NEW d \in Call, Holder(d), NEW v \in DOMAIN worker[d]
    PROVE  /\ arrays[d][1] \in 1..Len(slabs) /\ v \in DOMAIN slabs[arrays[d][1]]
           /\ arrays[d][2] \in 1..Len(ready) /\ Collecting(d, v)
           /\ worker[d][v].pc # "collect" => worker[d][v].buf.back \in Backs(arrays[d][1], v)
<1>1. PipeInv /\ TypeOK /\ Piped(d) /\ pc[d] # "returned" /\ job \in Jobs
  BY DEF Good, PipeInv, Holder, TypeOK
<1>2. /\ arrays[d][1] \in 1..Len(slabs) /\ Workers(d) <= Len(slabs[arrays[d][1]])
      /\ arrays[d][2] \in 1..Len(ready) /\ worker[d][v].pc \in Collects
  BY <1>1, Zenon DEF PipeInv, Control, PipedControl
<1>3. v \in 1..Workers(d) /\ Workers(d) \in Nat /\ Collecting(d, v)
  BY <1>1, PipedFacts
<1>4. slabs[arrays[d][1]] \in Seq(Slices)
  BY <1>1, <1>2 DEF TypeOK
<1>5. v \in DOMAIN slabs[arrays[d][1]]
  BY <1>2, <1>3, <1>4
<1>6. ASSUME worker[d][v].pc # "collect" PROVE worker[d][v].buf.back \in Backs(arrays[d][1], v)
  <2>1. CASE worker[d][v].pc = "flush"
    BY <2>1, BacksMember
  <2>2. CASE worker[d][v].pc # "flush"
    <3>1. worker[d][v].pc \in {"ready", "done", "gone"}
      BY <1>2, <1>6, <2>2 DEF Collects
    <3>2. slabs[arrays[d][1]][v] = worker[d][v].buf
      BY <1>3, <3>1 DEF Collecting
    <3>3. QED
      BY <3>2, BacksMember
  <2>3. QED
    BY <2>1, <2>2
<1>7. QED
  BY <1>2, <1>3, <1>5, <1>6

\* Nobody else has the buffers of a worker.
LEMMA BacksApart ==
    ASSUME Good, NEW c \in Call, Holder(c), NEW w \in DOMAIN worker[c],
           NEW d \in Call, Holder(d), NEW v \in DOMAIN worker[d], d # c \/ v # w,
           worker[d][v].pc # "collect", worker[d][v].buf.back # 0
    PROVE  worker[d][v].buf.back \notin Backs(arrays[c][1], w)
<1>1. /\ arrays[c][1] \in 1..Len(slabs) /\ w \in DOMAIN slabs[arrays[c][1]]
      /\ arrays[d][1] \in 1..Len(slabs) /\ v \in DOMAIN slabs[arrays[d][1]]
      /\ worker[d][v].buf.back \in Backs(arrays[d][1], v)
  BY PlaceFacts
<1>2. d # c => arrays[d][1] # arrays[c][1]
  BY DEF Good, PipeInv, Owned
<1>3. <<arrays[d][1], v>> # <<arrays[c][1], w>>
  BY <1>2
<1>4. Backs(arrays[d][1], v) \cap Backs(arrays[c][1], w) \subseteq {0}
  BY <1>1, <1>3 DEF Good, Separate
<1>5. QED
  BY <1>1, <1>4

\* A worker fills a buffer that nobody else has.
LEMMA GoodCollectShards ==
    ASSUME Good, NEW c \in Call, NEW w \in DOMAIN worker[c], CollectShards(c, w)
    PROVE  Separate' /\ (\A d \in Call : Counted(d))'
<1> DEFINE a == arrays[c][1]
           out == slabs[a][w]
           found == Found(c, w)
           b == BackOf(out, found)
           k == Filled(worker[c][w], b, Len(found))
<1>1. /\ Piped(c) /\ worker[c][w].pc = "collect" /\ out \in Slices /\ found \in Seq(Pairs)
      /\ a \in 1..Len(slabs) /\ w \in DOMAIN slabs[a]
      /\ FillBuffer(out, found)
      /\ worker' = [worker EXCEPT ![c] = [worker[c] EXCEPT ![w] = k]]
      /\ UNCHANGED <<job, caller, stopped, history, slabs, ready, pools>>
  BY CollectFacts DEF Good
<1>2. /\ PipeInv /\ TypeOK /\ PipeInv' /\ TypeOK' /\ Mine(c) /\ worker[c][w] \in WorkerState
  BY StepCollectShards, WorkerModes DEF Good, PipeInv
<1>3. Holder(c)
  BY <1>1, WorkerHolds
<1>4. out.back \in Backs(a, w) /\ out.back \in 0..Len(buffer)
  <2>1. out.back \in Backs(a, w)
    BY BacksMember
  <2>2. QED
    BY <1>1, <2>1 DEF Good, Separate
<1> HIDE DEF out, found
<1>5. /\ b \in Nat /\ Len(buffer) <= Len(buffer') /\ Len(buffer) \in Nat /\ Len(buffer') \in Nat
      /\ b = out.back \/ (b = Len(buffer) + 1 /\ Len(buffer') = Len(buffer) + 1)
      /\ \A x \in 1..Len(buffer) : x # b => buffer'[x] = buffer[x]
      /\ found # <<>> =>
           /\ b \in 1..Len(buffer') /\ Len(buffer'[b]) >= Len(found)
           /\ \A i \in 1..Len(found) : buffer'[b][i] = found[i]
  <2>1. Len(buffer) \in Nat /\ Len(buffer') \in Nat
    BY <1>2 DEF TypeOK
  <2>2. QED
    BY <1>1, <1>2, <1>4, <2>1, BufferFilled
<1>6. Len(found) \in Nat
  BY <1>1
<1> HIDE DEF b
<1>7. k \in WorkerState /\ k.pc = "flush" /\ k.buf.back = b /\ k.buf.len = Len(found)
  <2>1. k \in WorkerState
    BY <1>2, <1>5, <1>6, CollectedTyped
  <2>2. k.pc = "flush"
    BY <1>2, <1>5, <1>6, CollectedTyped
  <2>3. k.buf.back = b
    BY <1>2, <1>5, <1>6, CollectedTyped
  <2>4. k.buf.len = Len(found)
    BY <1>2, <1>5, <1>6, CollectedTyped
  <2>5. QED
    BY <2>1, <2>2, <2>3, <2>4
<1> HIDE DEF k
<1>8. /\ DOMAIN worker'[c] = DOMAIN worker[c] /\ worker'[c][w] = k
      /\ \A v \in DOMAIN worker[c] \ {w} : worker'[c][v] = worker[c][v]
      /\ \A d \in Call \ {c} : worker'[d] = worker[d]
  BY <1>1, <1>2, <1>7, SetWorker
<1>9. UNCHANGED <<job, pc, at, view, arrays, seen, ended, slabs, ready>>
  BY <1>1 DEF caller, history
<1>10. ASSUME NEW d \in Call, Holder(d), NEW v \in DOMAIN worker[d], d # c \/ v # w,
              worker[d][v].pc # "collect", worker[d][v].buf.back \in 1..Len(buffer)
       PROVE  /\ worker[d][v].buf.back \in 1..Len(buffer')
              /\ buffer'[worker[d][v].buf.back] = buffer[worker[d][v].buf.back]
  <2>1. worker[d][v].buf.back # 0
    BY <1>5, <1>10
  <2>2. worker[d][v].buf.back \notin Backs(a, w)
    BY <1>3, <1>10, <2>1, BacksApart
  <2>3. worker[d][v].buf.back # b
    BY <1>4, <1>5, <1>10, <2>2
  <2>4. QED
    BY <1>5, <1>10, <2>3
<1>11. \A d \in Call \ {c} : Holder(d) => Kept(d)
  BY <1>9, <1>10 DEF Kept
<1>12. (\A v \in DOMAIN worker[c] : Collecting(c, v))'
  <2>1. \A v \in DOMAIN worker[c] : Collecting(c, v)
    BY <1>3, PlaceFacts
  <2>2. ASSUME NEW v \in DOMAIN worker[c], v # w PROVE Collecting(c, v)'
    <3>1. worker'[c][v] = worker[c][v] /\ Collecting(c, v)
      BY <1>8, <2>1, <2>2
    <3>2. worker[c][v].pc # "collect" /\ worker[c][v].buf.back \in 1..Len(buffer) =>
            /\ worker[c][v].buf.back \in 1..Len(buffer')
            /\ buffer'[worker[c][v].buf.back] = buffer[worker[c][v].buf.back]
      BY <1>3, <1>10, <2>2
    <3>3. QED
      BY <1>9, <3>1, <3>2, CollectingKept
  <2>3. Collecting(c, w)'
    <3>1. ~ready'[arrays'[c][2]][w]
      BY <1>1, <1>9, <2>1 DEF Collecting
    <3>2. HoldsNext(k.buf, found)
      BY <1>5, <1>7 DEF HoldsNext
    <3>3. Found(c, w)' = found
      BY <1>9, JobFixed DEF found
    <3>4. Holds(worker[c][w].buf, Found(c, w))'
      BY <1>8, <3>2, <3>3 DEF Holds, HoldsNext
    <3>5. worker'[c][w].pc = "flush"
      BY <1>7, <1>8
    <3>6. QED
      BY <3>1, <3>4, <3>5 DEF Collecting
  <2>4. QED
    BY <1>8, <2>2, <2>3
<1>13. Counted(c)'
  BY <1>1, <1>2, <1>3, <1>8, <1>9, <1>12, WorkerCounted
<1>14. Separate'
  <2>1. Call' = Call /\ \A d \in Call : (Holder(d)' <=> Holder(d)) /\ arrays'[d] = arrays[d]
    BY <1>9 DEF Call, Holder, Piped
  <2>2. ASSUME NEW x, NEW v, NEW y \in Backs(x, v)'
        PROVE  y \in Backs(x, v) \/ (<<x, v>> = <<a, w>> /\ y = b)
    <3>1. \/ y = slabs'[x][v].back
          \/ \E d \in Call' : /\ Holder(d)' /\ arrays'[d][1] = x /\ v \in DOMAIN worker'[d]
                              /\ worker'[d][v].pc = "flush" /\ y = worker'[d][v].buf.back
      BY Zenon DEF Backs
    <3>2. CASE y = slabs'[x][v].back
      BY <1>9, <3>2, BacksMember
    <3>3. ASSUME NEW d \in Call, Holder(d)', arrays'[d][1] = x, v \in DOMAIN worker'[d],
                 worker'[d][v].pc = "flush", y = worker'[d][v].buf.back
          PROVE  y \in Backs(x, v) \/ (<<x, v>> = <<a, w>> /\ y = b)
      <4>1. CASE d = c /\ v = w
        BY <1>7, <1>8, <2>1, <3>3, <4>1
      <4>2. CASE ~(d = c /\ v = w)
        <5>1. v \in DOMAIN worker[d] /\ worker'[d][v] = worker[d][v]
          BY <1>8, <3>3, <4>2
        <5>2. QED
          BY <2>1, <3>3, <5>1, BacksMember
      <4>3. QED
        BY <4>1, <4>2
    <3>4. QED
      BY <2>1, <3>1, <3>2, <3>3
  <2>3. b \in Backs(a, w) \/ (b = Len(buffer) + 1 /\ Len(buffer') = Len(buffer) + 1)
    BY <1>4, <1>5
  <2>4. \A x \in 1..Len(slabs) : \A v \in DOMAIN slabs[x] : Backs(x, v) \subseteq 0..Len(buffer)
    BY DEF Good, Separate
  <2>5. ASSUME NEW x \in 1..Len(slabs), NEW v \in DOMAIN slabs[x], NEW y \in Backs(x, v)'
        PROVE  y \in 0..Len(buffer')
    <3>1. y \in 0..Len(buffer) \/ (y = Len(buffer) + 1 /\ Len(buffer') = Len(buffer) + 1)
      BY <1>1, <2>2, <2>3, <2>4
    <3>2. QED
      BY <1>5, <3>1
  <2>6. ASSUME NEW x \in 1..Len(slabs), NEW v \in DOMAIN slabs[x],
               NEW z \in 1..Len(slabs), NEW u \in DOMAIN slabs[z], <<x, v>> # <<z, u>>,
               NEW y, y \in Backs(x, v)', y \in Backs(z, u)'
        PROVE  y = 0
    <3>1. Backs(x, v) \cap Backs(z, u) \subseteq {0}
      BY <2>6 DEF Good, Separate
    <3>2. Backs(x, v) \subseteq 0..Len(buffer) /\ Backs(z, u) \subseteq 0..Len(buffer)
      BY <2>4
    <3>3. Len(buffer) + 1 \notin 0..Len(buffer)
      BY <1>5
    <3>4. /\ y \in Backs(x, v) \/ (<<x, v>> = <<a, w>> /\ y = b)
          /\ y \in Backs(z, u) \/ (<<z, u>> = <<a, w>> /\ y = b)
      BY <2>2, <2>6
    <3>5. CASE y \in Backs(x, v) /\ y \in Backs(z, u)
      BY <3>1, <3>5
    <3>6. CASE y \notin Backs(x, v)
      <4>1. <<x, v>> = <<a, w>> /\ y = b /\ y \in Backs(z, u) /\ x = a /\ v = w
        BY <2>6, <3>4, <3>6
      <4>2. b \notin Backs(a, w)
        BY <3>6, <4>1
      <4>3. QED
        BY <2>3, <3>2, <3>3, <4>1, <4>2
    <3>7. CASE y \notin Backs(z, u)
      <4>1. <<z, u>> = <<a, w>> /\ y = b /\ y \in Backs(x, v) /\ z = a /\ u = w
        BY <2>6, <3>4, <3>7
      <4>2. b \notin Backs(a, w)
        BY <3>7, <4>1
      <4>3. QED
        BY <2>3, <3>2, <3>3, <4>1, <4>2
    <3>8. QED
      BY <3>5, <3>6, <3>7
  <2>7. slabs' = slabs
    BY <1>9
  <2>8. QED
    BY <2>5, <2>6, <2>7 DEF Separate
<1>15. QED
  BY <1>2, <1>11, <1>13, <1>14, OthersCounted DEF Good

\* The slice that a worker stores in its place is that of its buffer.
LEMMA GoodFlush ==
    ASSUME Good, NEW c \in Call, NEW w \in DOMAIN worker[c], Flush(c, w)
    PROVE  Separate' /\ (\A d \in Call : Counted(d))'
<1> DEFINE a == arrays[c][1]
           k == [worker[c][w] EXCEPT !.pc = "ready"]
<1>1. /\ Piped(c) /\ worker[c][w].pc = "flush" /\ a \in 1..Len(slabs) /\ w \in DOMAIN slabs[a]
      /\ MoveWorker(c, w, "ready")
      /\ UNCHANGED <<job, caller, stopped, history, buffer, ready, pools>>
      /\ Len(slabs') = Len(slabs)
      /\ \A b \in 1..Len(slabs) : /\ DOMAIN slabs'[b] = DOMAIN slabs[b]
                                  /\ b # a => slabs'[b] = slabs[b]
      /\ slabs'[a][w] = worker[c][w].buf
      /\ \A v \in DOMAIN slabs[a] \ {w} : slabs'[a][v] = slabs[a][v]
  BY FlushFacts DEF Good
<1>2. /\ PipeInv /\ TypeOK /\ PipeInv' /\ TypeOK' /\ Mine(c)
  BY StepFlush DEF Good, PipeInv
<1>3. Holder(c)
  BY <1>1, WorkerHolds
<1>4. "ready" \in Collects
  BY DEF Collects
<1>5. /\ k \in WorkerState /\ worker[c][w] \in WorkerState
      /\ worker' = [worker EXCEPT ![c] = [worker[c] EXCEPT ![w] = k]]
  BY <1>1, <1>2, <1>4, MoveIsSet
<1>6. k.pc = "ready" /\ k.buf = worker[c][w].buf
  BY <1>4, <1>5, WorkerTyped
<1> HIDE DEF k
<1>7. /\ DOMAIN worker'[c] = DOMAIN worker[c] /\ worker'[c][w] = k
      /\ \A v \in DOMAIN worker[c] \ {w} : worker'[c][v] = worker[c][v]
      /\ \A d \in Call \ {c} : worker'[d] = worker[d]
  BY <1>2, <1>5, SetWorker
<1>8. UNCHANGED <<job, pc, at, view, arrays, seen, ended, buffer, ready>>
  BY <1>1 DEF caller, history
<1>9. \A d \in Call \ {c} : Holder(d) => Kept(d)
  BY <1>1, <1>3, <1>8, OthersKept
<1>10. (\A v \in DOMAIN worker[c] : Collecting(c, v))'
  <2>1. \A v \in DOMAIN worker[c] : Collecting(c, v) /\ v \in DOMAIN slabs[a]
    BY <1>3, PlaceFacts
  <2>2. ASSUME NEW v \in DOMAIN worker[c], v # w PROVE Collecting(c, v)'
    <3>1. worker'[c][v] = worker[c][v] /\ Collecting(c, v) /\ slabs'[a][v] = slabs[a][v]
      BY <1>1, <1>7, <2>1, <2>2
    <3>2. QED
      BY <1>8, <3>1, CollectingKept
  <2>3. Collecting(c, w)'
    <3>1. ~ready'[arrays'[c][2]][w]
      BY <1>1, <1>8, <2>1 DEF Collecting
    <3>2. Holds(worker[c][w].buf, Found(c, w))
      BY <1>1, <2>1 DEF Collecting
    <3>3. Found(c, w)' = Found(c, w)
      BY <1>8, JobFixed
    <3>4. worker'[c][w].buf = worker[c][w].buf /\ worker'[c][w].pc = "ready"
      BY <1>6, <1>7
    <3>5. Holds(worker[c][w].buf, Found(c, w))'
      BY <1>8, <3>2, <3>3, <3>4 DEF Holds
    <3>6. slabs'[arrays'[c][1]][w] = worker'[c][w].buf
      BY <1>1, <1>8, <3>4
    <3>7. QED
      BY <3>1, <3>4, <3>5, <3>6 DEF Collecting
  <2>4. QED
    BY <1>7, <2>2, <2>3
<1>11. Counted(c)'
  BY <1>1, <1>2, <1>3, <1>7, <1>8, <1>10, WorkerCounted
<1>12. Separate'
  <2>1. Call' = Call /\ \A d \in Call : (Holder(d)' <=> Holder(d)) /\ arrays'[d] = arrays[d]
    BY <1>8 DEF Call, Holder, Piped
  <2>2. worker[c][w].buf.back \in Backs(a, w)
    BY <1>1, <1>3, PlaceFacts
  <2>3. ASSUME NEW x \in 1..Len(slabs'), NEW v \in DOMAIN slabs'[x], NEW y \in Backs(x, v)'
        PROVE  x \in 1..Len(slabs) /\ v \in DOMAIN slabs[x] /\ y \in Backs(x, v)
    <3>1. x \in 1..Len(slabs) /\ v \in DOMAIN slabs[x]
      BY <1>1
    <3>2. \/ y = slabs'[x][v].back
          \/ \E d \in Call' : /\ Holder(d)' /\ arrays'[d][1] = x /\ v \in DOMAIN worker'[d]
                              /\ worker'[d][v].pc = "flush" /\ y = worker'[d][v].buf.back
      BY Zenon DEF Backs
    <3>3. CASE y = slabs'[x][v].back
      <4>1. CASE x = a /\ v = w
        BY <1>1, <2>2, <3>1, <3>3, <4>1
      <4>2. CASE ~(x = a /\ v = w)
        <5>1. slabs'[x][v] = slabs[x][v]
          BY <1>1, <3>1, <4>2
        <5>2. QED
          BY <3>1, <3>3, <5>1, BacksMember
      <4>3. QED
        BY <4>1, <4>2
    <3>4. ASSUME NEW d \in Call, Holder(d)', arrays'[d][1] = x, v \in DOMAIN worker'[d],
                 worker'[d][v].pc = "flush", y = worker'[d][v].buf.back
          PROVE  y \in Backs(x, v)
      <4>1. ~(d = c /\ v = w)
        BY <1>6, <1>7, <3>4
      <4>2. v \in DOMAIN worker[d] /\ worker'[d][v] = worker[d][v]
        BY <1>7, <3>4, <4>1
      <4>3. QED
        BY <2>1, <3>4, <4>2, BacksMember
    <3>5. QED
      BY <2>1, <3>1, <3>2, <3>3, <3>4
  <2>4. Len(buffer) <= Len(buffer')
    <3>1. Len(buffer) \in Nat
      BY <1>2 DEF TypeOK
    <3>2. QED
      BY <1>8, <3>1
  <2>5. QED
    BY <1>2, <2>3, <2>4, SeparateKept DEF Good
<1>13. QED
  BY <1>2, <1>9, <1>11, <1>12, OthersCounted DEF Good

\* The flag goes up when the slice is stored.
LEMMA GoodSetReady ==
    ASSUME Good, NEW c \in Call, NEW w \in DOMAIN worker[c], SetReady(c, w)
    PROVE  Separate' /\ (\A d \in Call : Counted(d))'
<1> DEFINE a == arrays[c][2]
           k == [worker[c][w] EXCEPT !.pc = "done"]
<1>1. /\ Piped(c) /\ worker[c][w].pc = "ready" /\ a \in 1..Len(ready) /\ w \in DOMAIN ready[a]
      /\ MoveWorker(c, w, "done")
      /\ UNCHANGED <<job, caller, stopped, history, buffer, slabs, pools>>
      /\ \A b \in 1..Len(ready) : b # a => ready'[b] = ready[b]
      /\ ready'[a][w] = TRUE
      /\ \A v \in DOMAIN ready[a] \ {w} : ready'[a][v] = ready[a][v]
  <2> HIDE DEF k
  <2>1. PipeInv
    BY DEF Good
  <2>2. QED
    BY ZenonT(60), <2>1, SetReadyFacts
<1>2. /\ PipeInv /\ TypeOK /\ PipeInv' /\ Mine(c)
  BY StepSetReady DEF Good, PipeInv
<1>3. Holder(c)
  BY <1>1, WorkerHolds
<1>4. "done" \in Collects
  BY DEF Collects
<1>5. /\ k \in WorkerState /\ worker[c][w] \in WorkerState
      /\ worker' = [worker EXCEPT ![c] = [worker[c] EXCEPT ![w] = k]]
  BY <1>1, <1>2, <1>4, MoveIsSet
<1>6. k.pc = "done" /\ k.buf = worker[c][w].buf
  BY <1>4, <1>5, WorkerTyped
<1> HIDE DEF k
<1>7. /\ DOMAIN worker'[c] = DOMAIN worker[c] /\ worker'[c][w] = k
      /\ \A v \in DOMAIN worker[c] \ {w} : worker'[c][v] = worker[c][v]
      /\ \A d \in Call \ {c} : worker'[d] = worker[d]
  BY <1>2, <1>5, SetWorker
<1>8. UNCHANGED <<job, pc, at, view, arrays, seen, ended, slabs, buffer>>
  BY <1>1 DEF caller, history
<1>9. \A d \in Call \ {c} : Holder(d) => Kept(d)
  <2> SUFFICES ASSUME NEW d \in Call \ {c}, Holder(d) PROVE Kept(d)
    OBVIOUS
  <2>1. arrays[d][2] # a /\ arrays[d][2] \in 1..Len(ready)
    BY <1>3 DEF Good, PipeInv, Owned, Control, PipedControl, Holder
  <2>2. QED
    BY <1>1, <1>8, <2>1 DEF Kept
<1>10. (\A v \in DOMAIN worker[c] : Collecting(c, v))'
  <2>1. \A v \in DOMAIN worker[c] : Collecting(c, v)
    BY <1>3, PlaceFacts
  <2>2. \A v \in DOMAIN worker[c] : v \in DOMAIN ready[a]
    <3>1. Workers(c) <= Len(ready[a]) /\ DOMAIN worker[c] = 1..Workers(c) /\ Workers(c) \in Nat
      BY <1>1, <1>2, PipedFacts DEF PipeInv, Control, PipedControl
    <3>2. ready[a] \in Seq(BOOLEAN)
      BY <1>1, <1>2 DEF TypeOK
    <3>3. QED
      BY <3>1, <3>2
  <2>3. ASSUME NEW v \in DOMAIN worker[c], v # w PROVE Collecting(c, v)'
    <3>1. worker'[c][v] = worker[c][v] /\ Collecting(c, v) /\ ready'[a][v] = ready[a][v]
      BY <1>1, <1>7, <2>1, <2>2, <2>3
    <3>2. QED
      BY <1>8, <3>1, CollectingKept
  <2>4. Collecting(c, w)'
    <3>1. ready'[arrays'[c][2]][w] = TRUE
      BY <1>1, <1>8
    <3>2. Holds(worker[c][w].buf, Found(c, w)) /\ slabs[arrays[c][1]][w] = worker[c][w].buf
      BY <1>1, <2>1 DEF Collecting
    <3>3. Found(c, w)' = Found(c, w)
      BY <1>8, JobFixed
    <3>4. worker'[c][w].buf = worker[c][w].buf /\ worker'[c][w].pc = "done"
      BY <1>6, <1>7
    <3>5. Holds(worker[c][w].buf, Found(c, w))'
      BY <1>8, <3>2, <3>3, <3>4 DEF Holds
    <3>6. slabs'[arrays'[c][1]][w] = worker'[c][w].buf
      BY <1>8, <3>2, <3>4
    <3>7. QED
      BY <3>1, <3>4, <3>5, <3>6 DEF Collecting
  <2>5. QED
    BY <1>7, <2>3, <2>4
<1>11. Counted(c)'
  BY <1>1, <1>2, <1>3, <1>7, <1>8, <1>10, WorkerCounted
<1>12. Separate'
  <2>1. \A v \in DOMAIN worker'[c] :
          worker'[c][v].pc = "flush" => v \in DOMAIN worker[c] /\ worker'[c][v] = worker[c][v]
    BY <1>6, <1>7
  <2>2. QED
    BY <1>2, <1>8, <2>1, SeparateStays DEF Good
<1>13. QED
  BY <1>2, <1>9, <1>11, <1>12, OthersCounted DEF Good

-------------------------------------------------------------------------------
(***************************************************************************)
(* The workers of RangePar visit the entries of their chunks in order.     *)
(***************************************************************************)
\* A worker whose entries nobody visits.
LEMMA ProgressKept ==
    ASSUME job' = job, NEW c \in Call, NEW v, Progress(c, v), worker'[c][v] = worker[c][v],
           \A e \in Chunked(c, v) : seen'[c][e] = seen[c][e], ended'[c] = "no" => ended[c] = "no"
    PROVE  Progress(c, v)'
<1>1. Map(c)' = Map(c) /\ Chunk(c, v)' = Chunk(c, v) /\ Chunked(c, v)' = Chunked(c, v)
  BY JobFixed
<1>2. QED
  BY <1>1 DEF Progress

\* A call of RangePar, in the next state.
LEMMA DirectCounted ==
    ASSUME PipeInv', NEW c \in Call, job' = job, Direct(c)',
           (\A w \in DOMAIN worker[c] : Progress(c, w))'
    PROVE  Counted(c)'
<1>1. c \in Call' /\ ~Piped(c)'
  BY JobFixed DEF Direct, Piped
<1>2. pc'[c] \in {"join", "returned"}
  <2>1. DirectControl(c)'
    BY <1>1 DEF PipeInv, Control
  <2>2. QED
    BY <2>1, Zenon DEF DirectControl
<1>3. pc'[c] # "new" /\ pc'[c] # "sequential"
  BY <1>2
<1>4. QED
  BY <1>1, <1>3 DEF Counted, Holder

\* A step of one of its workers.
LEMMA DirectStep ==
    ASSUME Good, PipeInv', NEW c \in Call, Mine(c), Direct(c), NEW w \in DOMAIN worker[c],
           NEW k \in WorkerState, k.pc # "flush",
           worker' = [worker EXCEPT ![c] = [worker[c] EXCEPT ![w] = k]],
           UNCHANGED <<caller, shared>>,
           \A v \in DOMAIN worker[c] \ {w} : \A e \in Chunked(c, v) : seen'[c][e] = seen[c][e],
           ended'[c] = "no" => ended[c] = "no", Progress(c, w)'
    PROVE  Separate' /\ (\A d \in Call : Counted(d))'
<1>1. UNCHANGED <<pc, at, view, arrays, slabs, buffer, ready>> /\ TypeOK /\ Counted(c) /\ job' = job
  BY DEF caller, shared, Good, PipeInv, Mine
<1>2. /\ DOMAIN worker'[c] = DOMAIN worker[c] /\ worker'[c] # <<>> /\ worker'[c][w] = k
      /\ \A v \in DOMAIN worker[c] \ {w} : worker'[c][v] = worker[c][v]
  BY <1>1, SetWorker
<1>3. Direct(c)'
  BY <1>1, <1>2 DEF Direct
<1>4. \A v \in DOMAIN worker[c] \ {w} : Progress(c, v)'
  <2>1. \A v \in DOMAIN worker[c] : Progress(c, v)
    BY <1>1 DEF Counted
  <2>2. QED
    BY <1>1, <1>2, <2>1, ProgressKept
<1>5. (\A v \in DOMAIN worker[c] : Progress(c, v))'
  BY <1>2, <1>4
<1>6. Counted(c)'
  BY <1>1, <1>3, <1>5, DirectCounted
<1>7. \A v \in DOMAIN worker'[c] :
        worker'[c][v].pc = "flush" => v \in DOMAIN worker[c] /\ worker'[c][v] = worker[c][v]
  BY <1>2
<1>8. QED
  BY <1>1, <1>6, <1>7, PrivateStep

\* RangePar's workers begin at the first entries of their chunks.
LEMMA GoodBeginDirect ==
    ASSUME Good, NEW c \in Call, BeginDirect(c)
    PROVE  Separate' /\ (\A d \in Call : Counted(d))'
<1>1. /\ PipeInv /\ TypeOK /\ job' = job /\ pc[c] = "new" /\ Counted(c) /\ job \in Jobs
      /\ worker' = [worker EXCEPT ![c] = NewWorkers(c, "check")]
      /\ UNCHANGED <<at, view, arrays, stopped, seen, ended, slabs, buffer, ready>>
  BY DEF BeginDirect, Goto, history, shared, Good, PipeInv, TypeOK
<1>2. PipeInv' /\ Mine(c)
  BY <1>1, StepBeginDirect
<1> DEFINE k == NewWorkers(c, "check")
<1>3. /\ k # <<>> /\ DOMAIN k = 1..Workers(c)
      /\ \A w \in 1..Workers(c) :
           /\ k[w].pc = "check" /\ k[w].shard = Chunk(c, w)[1] /\ k[w].last = Chunk(c, w)[2]
           /\ k[w].entry = 1
  BY <1>1, NewWorkersFacts
<1>4. worker'[c] = k
  BY <1>1 DEF TypeOK
<1> HIDE DEF k
<1>5. /\ Map(c)' = Map(c) /\ \A w : Chunk(c, w)' = Chunk(c, w) /\ Chunked(c, w)' = Chunked(c, w)
  BY <1>1, JobFixed
<1>6. ~Piped(c)
  BY <1>1 DEF PipeInv, Control, Unstarted
<1>7. Direct(c)'
  BY <1>1, <1>3, <1>4, <1>6 DEF Direct, Piped
<1>8. \A e \in Entries(c) : seen'[c][e] = 0
  BY <1>1 DEF Counted
<1>9. ASSUME NEW w \in 1..Workers(c) PROVE Progress(c, w)'
  <2>1. /\ Chunk(c, w)[1] \in Nat /\ Chunk(c, w)[2] \in Nat /\ Chunk(c, w)[1] <= Chunk(c, w)[2]
    BY <1>1, ChunkFacts DEF Pairs
  <2>2. \A e \in Chunked(c, w) : /\ seen'[c][e] = 0 /\ e[1] \in Nat /\ e[2] \in Nat /\ 1 <= e[2]
                                 /\ Chunk(c, w)[1] <= e[1]
    <3>1. \A e \in Entries(c) : e \in Nat \X Nat /\ e[2] \in 1..Map(c)[e[1]]
      BY <1>1, EntryFacts DEF Pairs
    <3>2. \A e \in Entries(c) : e[1] \in Nat /\ e[2] \in Nat /\ 1 <= e[2]
      BY <3>1
    <3>3. QED
      BY <1>8, <3>2 DEF Chunked
  <2>3. \A e \in Chunked(c, w) : ~(e[1] < Chunk(c, w)[1] \/ (e[1] = Chunk(c, w)[1] /\ e[2] < 1))
    BY <2>1, <2>2
  <2>4. Chunk(c, w)[1] \in Chunk(c, w)[1]..(Chunk(c, w)[2] + 1) /\ 1 \in Nat \ {0}
    BY <2>1
  <2>5. worker'[c][w].pc = "check"
    BY <1>3, <1>4
  <2>6. worker'[c][w].shard = Chunk(c, w)[1] /\ worker'[c][w].last = Chunk(c, w)[2]
        /\ worker'[c][w].entry = 1
    BY <1>3, <1>4
  <2>7. QED
    BY <1>5, <2>2, <2>3, <2>4, <2>5, <2>6 DEF Progress
<1>10. Counted(c)'
  BY <1>1, <1>2, <1>3, <1>4, <1>7, <1>9, DirectCounted
<1>11. \A w \in DOMAIN worker'[c] :
         worker'[c][w].pc = "flush" => w \in DOMAIN worker[c] /\ worker'[c][w] = worker[c][w]
  BY <1>3, <1>4
<1>12. QED
  BY <1>1, <1>2, <1>10, <1>11, PrivateStep

\* A worker that ends leaves what it did.
LEMMA GoodDone ==
    ASSUME Good, NEW c \in Call, NEW w \in DOMAIN worker[c], Done(c, w)
    PROVE  Separate' /\ (\A d \in Call : Counted(d))'
<1> DEFINE k == [worker[c][w] EXCEPT !.pc = "gone"]
<1>1. /\ PipeInv /\ TypeOK /\ worker[c][w].pc = "done" /\ MoveWorker(c, w, "gone")
      /\ UNCHANGED <<job, caller, stopped, history, shared, pools>>
  BY DEF Done, WorkerAt, Good, PipeInv
<1>2. PipeInv' /\ Mine(c)
  BY <1>1, StepDone
<1>3. "gone" \in Collects
  BY DEF Collects
<1>4. /\ k \in WorkerState /\ worker[c][w] \in WorkerState
      /\ worker' = [worker EXCEPT ![c] = [worker[c] EXCEPT ![w] = k]]
  BY <1>1, <1>3, MoveIsSet
<1>5. /\ k.pc = "gone" /\ k.buf = worker[c][w].buf /\ k.last = worker[c][w].last
  BY <1>3, <1>4, WorkerTyped
<1> HIDE DEF k
<1>6. /\ DOMAIN worker'[c] = DOMAIN worker[c] /\ worker'[c][w] = k
      /\ \A v \in DOMAIN worker[c] \ {w} : worker'[c][v] = worker[c][v]
  BY <1>1, <1>4, SetWorker
<1>7. UNCHANGED <<job, pc, at, view, arrays, seen, ended, slabs, buffer, ready>>
  BY <1>1 DEF caller, history, shared
<1>8. CASE Piped(c)
  <2>1. Holder(c)
    BY <1>1, <1>8, WorkerHolds
  <2>2. \A v \in DOMAIN worker[c] : Collecting(c, v)
    BY <2>1, PlaceFacts
  <2>3. ASSUME NEW v \in DOMAIN worker[c], v # w PROVE Collecting(c, v)'
    <3>1. worker'[c][v] = worker[c][v] /\ Collecting(c, v)
      BY <1>6, <2>2, <2>3
    <3>2. QED
      BY <1>7, <3>1, CollectingKept
  <2>4. Collecting(c, w)'
    <3>1. ready[arrays[c][2]][w] /\ slabs[arrays[c][1]][w] = worker[c][w].buf
          /\ Holds(worker[c][w].buf, Found(c, w))
      BY <1>1, <2>2 DEF Collecting
    <3>2. Found(c, w)' = Found(c, w)
      BY <1>7, JobFixed
    <3>3. worker'[c][w].buf = worker[c][w].buf /\ worker'[c][w].pc = "gone"
      BY <1>5, <1>6
    <3>4. Holds(worker[c][w].buf, Found(c, w))'
      BY <1>7, <3>1, <3>2, <3>3 DEF Holds
    <3>5. ready'[arrays'[c][2]][w] /\ slabs'[arrays'[c][1]][w] = worker'[c][w].buf
      BY <1>7, <3>1, <3>3
    <3>6. QED
      BY <3>3, <3>4, <3>5 DEF Collecting
  <2>5. (\A v \in DOMAIN worker[c] : Collecting(c, v))'
    BY <1>6, <2>3, <2>4
  <2>6. Counted(c)'
    BY <1>1, <1>2, <1>5, <1>6, <1>7, <2>1, <2>5, WorkerCounted
  <2>7. \A v \in DOMAIN worker'[c] :
          worker'[c][v].pc = "flush" => v \in DOMAIN worker[c] /\ worker'[c][v] = worker[c][v]
    BY <1>5, <1>6
  <2>8. QED
    BY <1>2, <1>7, <2>6, <2>7, PrivateStep
<1>9. CASE Direct(c)
  <2>1. Progress(c, w)
    BY <1>9 DEF Good, Counted
  <2>2. Chunk(c, w)' = Chunk(c, w) /\ Chunked(c, w)' = Chunked(c, w)
    BY <1>7, JobFixed
  <2>3. worker'[c][w].pc = "gone" /\ worker'[c][w].last = worker[c][w].last
    BY <1>5, <1>6
  <2>4. Progress(c, w)'
    BY <1>1, <1>7, <2>1, <2>2, <2>3 DEF Progress
  <2>5. k.pc # "flush"
    BY <1>5
  <2>6. QED
    BY <1>1, <1>2, <1>4, <1>7, <1>9, <2>4, <2>5, DirectStep
<1>10. QED
  BY <1>1, <1>8, <1>9, WorkerModes

\* The entries of a chunk up to a place have been visited.
Walked(c, w, s, i, count) ==
    \A e \in Chunked(c, w) : count[e] = IF e[1] < s \/ (e[1] = s /\ e[2] < i) THEN 1 ELSE 0

\* A worker that walks, in this state.
LEMMA WalkFacts ==
    ASSUME Good, NEW c \in Call, NEW w \in DOMAIN worker[c], worker[c][w].pc \in {"check", "direct"}
    PROVE  LET k == worker[c][w]
           IN /\ Direct(c) /\ k \in WorkerState /\ job \in Jobs /\ w \in 1..Workers(c)
              /\ DOMAIN worker[c] = 1..Workers(c) /\ (stopped[c] <=> ended[c] # "no")
              /\ k.last = Chunk(c, w)[2] /\ Chunk(c, w)[1] \in Nat \ {0} /\ k.last \in Nat
              /\ k.last <= Len(Map(c)) /\ Len(Map(c)) \in Nat
              /\ k.shard \in Nat /\ Chunk(c, w)[1] <= k.shard /\ k.shard <= k.last + 1
              /\ k.entry \in Nat \ {0}
              /\ k.shard <= k.last => Map(c)[k.shard] \in Nat
              /\ k.entry = 1 \/ (k.shard <= k.last /\ k.entry <= Map(c)[k.shard])
              /\ k.pc = "direct" => k.shard <= k.last /\ k.entry <= Map(c)[k.shard]
              /\ Walked(c, w, k.shard, k.entry, seen[c])
<1> DEFINE k == worker[c][w]
<1>1. PipeInv /\ TypeOK /\ job \in Jobs /\ Counted(c)
  BY DEF Good, PipeInv, TypeOK
<1>2. Direct(c) /\ k \in WorkerState /\ w \in 1..Workers(c) /\ DOMAIN worker[c] = 1..Workers(c)
  BY <1>1, WorkerModes
<1>3. stopped[c] <=> ended[c] # "no"
  BY <1>1, <1>2 DEF PipeInv, Control, DirectControl
<1>4. Progress(c, w)
  BY <1>1, <1>2 DEF Counted
<1>5. /\ k.last = Chunk(c, w)[2] /\ k.shard \in Chunk(c, w)[1]..(k.last + 1) /\ k.entry \in Nat \ {0}
      /\ k.entry = 1 \/ (k.shard <= k.last /\ k.entry <= Map(c)[k.shard])
      /\ k.pc = "direct" => k.shard <= k.last /\ k.entry <= Map(c)[k.shard]
      /\ Walked(c, w, k.shard, k.entry, seen[c])
  BY <1>4 DEF Progress, Walked
<1> HIDE DEF k
<1>6. /\ Chunk(c, w)[1] \in Nat /\ Chunk(c, w)[2] \in Nat /\ 1 <= Chunk(c, w)[1]
      /\ Chunk(c, w)[2] <= Len(Map(c))
  BY <1>1, <1>2, ChunkFacts DEF Pairs
<1>7. Len(Map(c)) \in Nat /\ \A s \in 1..Len(Map(c)) : Map(c)[s] \in Nat
  BY <1>1, JobFacts
<1>8. /\ Chunk(c, w)[1] \in Nat \ {0} /\ k.last \in Nat /\ k.last <= Len(Map(c)) /\ k.shard \in Nat
      /\ Chunk(c, w)[1] <= k.shard /\ k.shard <= k.last + 1
  BY <1>5, <1>6
<1>9. k.shard <= k.last => Map(c)[k.shard] \in Nat
  BY <1>7, <1>8
<1>10. QED
  BY <1>1, <1>2, <1>3, <1>5, <1>7, <1>8, <1>9 DEF k

\* The entries of a chunk.
LEMMA ChunkedFacts ==
    ASSUME job \in Jobs, NEW c \in Call, NEW w \in 1..Workers(c)
    PROVE  \A e \in Chunked(c, w) :
             /\ e[1] \in Nat /\ e[2] \in Nat /\ 1 <= e[2] /\ e[2] <= Map(c)[e[1]]
             /\ e = <<e[1], e[2]>> /\ e[1] <= Chunk(c, w)[2] /\ e \in Entries(c)
<1>1. \A e \in Entries(c) : e \in Nat \X Nat /\ e[1] \in 1..Len(Map(c)) /\ e[2] \in 1..Map(c)[e[1]]
  BY EntryFacts DEF Pairs
<1>2. \A s \in 1..Len(Map(c)) : Map(c)[s] \in Nat
  BY JobFacts
<1>3. QED
  BY <1>1, <1>2 DEF Chunked

\* Between two entries, a worker looks at the flag and passes empty shards.
LEMMA GoodCheckStop ==
    ASSUME Good, NEW c \in Call, NEW w \in DOMAIN worker[c], CheckStop(c, w)
    PROVE  Separate' /\ (\A d \in Call : Counted(d))'
<1> DEFINE k == worker[c][w]
           m == Checked(c, k)
<1>1. /\ PipeInv /\ TypeOK /\ k.pc = "check"
      /\ UNCHANGED <<job, caller, stopped, history, shared, pools>>
  BY DEF CheckStop, WorkerAt, Good, PipeInv
<1>2. worker' = [worker EXCEPT ![c][w] = m]
  BY DEF CheckStop, Checked
<1>3. PipeInv' /\ Mine(c)
  BY <1>1, StepCheckStop
<1>4. /\ Direct(c) /\ k \in WorkerState /\ job \in Jobs /\ w \in 1..Workers(c)
      /\ (stopped[c] <=> ended[c] # "no")
      /\ k.last = Chunk(c, w)[2] /\ k.last \in Nat
      /\ k.shard \in Nat /\ Chunk(c, w)[1] <= k.shard /\ k.shard <= k.last + 1
      /\ k.entry \in Nat \ {0} /\ Chunk(c, w)[1] \in Nat
      /\ k.shard <= k.last => Map(c)[k.shard] \in Nat
      /\ k.entry = 1 \/ (k.shard <= k.last /\ k.entry <= Map(c)[k.shard])
      /\ Walked(c, w, k.shard, k.entry, seen[c])
  BY <1>1, WalkFacts
<1>5. /\ m \in WorkerState /\ m.last = k.last /\ m.entry = k.entry
      /\ \/ (k.shard > k.last \/ stopped[c]) /\ m.pc = "done" /\ m.shard = k.shard
         \/ /\ ~(k.shard > k.last) /\ ~stopped[c] /\ Map(c)[k.shard] = 0
            /\ m.pc = "check" /\ m.shard = k.shard + 1
         \/ /\ ~(k.shard > k.last) /\ ~stopped[c] /\ Map(c)[k.shard] # 0
            /\ m.pc = "direct" /\ m.shard = k.shard
  BY <1>1, <1>4, CheckedFacts
<1> HIDE DEF m
<1>6. worker' = [worker EXCEPT ![c] = [worker[c] EXCEPT ![w] = m]]
  BY <1>2
<1>7. worker'[c][w] = m
  BY <1>1, <1>5, <1>6, SetWorker
<1>8. UNCHANGED <<job, seen, ended>>
  BY <1>1 DEF history
<1>9. /\ Map(c)' = Map(c) /\ Chunk(c, w)' = Chunk(c, w) /\ Chunked(c, w)' = Chunked(c, w)
  BY <1>8, JobFixed
<1>10. \A e \in Chunked(c, w) :
         /\ e[1] \in Nat /\ e[2] \in Nat /\ 1 <= e[2] /\ e[2] <= Map(c)[e[1]] /\ e[1] <= k.last
         /\ seen[c][e] = IF e[1] < k.shard \/ (e[1] = k.shard /\ e[2] < k.entry) THEN 1 ELSE 0
  BY <1>4, ChunkedFacts DEF Walked
<1> HIDE DEF k
<1>11. Progress(c, w)'
  <2>1. CASE (k.shard > k.last \/ stopped[c]) /\ m.pc = "done" /\ m.shard = k.shard
    <3>1. \A e \in Chunked(c, w) : seen[c][e] <= 1 /\ (ended[c] = "no" => seen[c][e] = 1)
      <4>1. ended[c] = "no" => k.shard > k.last
        BY <1>4, <2>1
      <4>2. \A e \in Chunked(c, w) : seen[c][e] \in {0, 1}
        BY <1>10
      <4>3. k.shard > k.last => \A e \in Chunked(c, w) : e[1] < k.shard
        BY <1>4, <1>10
      <4>4. QED
        BY <1>10, <4>1, <4>2, <4>3
    <3>2. QED
      BY <1>4, <1>5, <1>7, <1>8, <1>9, <2>1, <3>1 DEF Progress
  <2>2. CASE /\ ~(k.shard > k.last) /\ ~stopped[c] /\ Map(c)[k.shard] = 0
             /\ m.pc = "check" /\ m.shard = k.shard + 1
    <3>1. k.entry = 1
      BY <1>4, <2>2
    <3>2. \A e \in Chunked(c, w) : e[1] # k.shard
      BY <1>10, <2>2
    <3>3. \A e \in Chunked(c, w) :
            seen[c][e] = IF e[1] < k.shard + 1 \/ (e[1] = k.shard + 1 /\ e[2] < 1) THEN 1 ELSE 0
      <4> SUFFICES ASSUME NEW e \in Chunked(c, w)
                   PROVE  e[1] < k.shard + 1 \/ (e[1] = k.shard + 1 /\ e[2] < 1)
                          <=> e[1] < k.shard \/ (e[1] = k.shard /\ e[2] < k.entry)
        BY <1>10
      <4>1. e[1] \in Nat /\ e[2] \in Nat /\ 1 <= e[2] /\ e[1] # k.shard /\ k.shard \in Nat
        BY <1>4, <1>10, <3>2
      <4>2. QED
        BY <4>1
    <3>4. m.shard \in Chunk(c, w)[1]..(k.last + 1)
      BY <1>4, <2>2
    <3>5. QED
      BY <1>4, <1>5, <1>7, <1>8, <1>9, <2>2, <3>1, <3>3, <3>4 DEF Progress
  <2>3. CASE /\ ~(k.shard > k.last) /\ ~stopped[c] /\ Map(c)[k.shard] # 0
             /\ m.pc = "direct" /\ m.shard = k.shard
    <3>1. k.shard <= k.last
      BY <1>4, <2>3
    <3>2. k.entry <= Map(c)[k.shard]
      BY <1>4, <2>3, <3>1
    <3>3. m.shard \in Chunk(c, w)[1]..(k.last + 1)
      BY <1>4, <2>3
    <3>4. QED
      BY <1>4, <1>5, <1>7, <1>8, <1>9, <1>10, <2>3, <3>1, <3>2, <3>3 DEF Progress
  <2>4. QED
    BY <1>5, <2>1, <2>2, <2>3
<1>12. m.pc # "flush"
  BY <1>5
<1>13. QED
  BY <1>1, <1>3, <1>4, <1>5, <1>6, <1>8, <1>11, <1>12, DirectStep

\* A worker has visited one more entry of its chunk.
LEMMA GoodVisitDirect ==
    ASSUME Good, NEW c \in Call, NEW w \in DOMAIN worker[c], VisitDirect(c, w)
    PROVE  Separate' /\ (\A d \in Call : Counted(d))'
<1> DEFINE k == worker[c][w]
<1>1. /\ PipeInv /\ TypeOK /\ k.pc = "direct" /\ See(c, <<k.shard, k.entry>>)
      /\ UNCHANGED <<job, caller, shared, pools>>
  BY VisitDirectFacts DEF Good, PipeInv
<1>2. PICK m \in WorkerState :
         /\ worker' = [worker EXCEPT ![c] = [worker[c] EXCEPT ![w] = m]]
         /\ m.last = k.last
         /\ GoesOn(c, k, m) \/ AsksToStop(c, m)
  BY <1>1, VisitDirectFacts
<1>3. PipeInv' /\ Mine(c)
  BY <1>1, StepVisitDirect
<1>4. /\ Direct(c) /\ k \in WorkerState /\ job \in Jobs /\ w \in 1..Workers(c)
      /\ DOMAIN worker[c] = 1..Workers(c)
      /\ k.last = Chunk(c, w)[2] /\ k.last \in Nat /\ k.last <= Len(Map(c)) /\ Len(Map(c)) \in Nat
      /\ k.shard \in Nat /\ Chunk(c, w)[1] <= k.shard /\ k.shard <= k.last
      /\ k.entry \in Nat \ {0} /\ Chunk(c, w)[1] \in Nat \ {0}
      /\ Map(c)[k.shard] \in Nat /\ k.entry <= Map(c)[k.shard]
      /\ Walked(c, w, k.shard, k.entry, seen[c])
  BY <1>1, WalkFacts
<1>5. worker'[c][w] = m
  BY <1>1, <1>2, SetWorker
<1> HIDE DEF k
<1>6. <<k.shard, k.entry>> \in Chunked(c, w)
  <2>1. k.shard \in 1..Len(Map(c)) /\ k.entry \in 1..Map(c)[k.shard]
    BY <1>4
  <2>2. <<k.shard, k.entry>> \in Entries(c)
    BY <1>4, <2>1, EntryFacts
  <2>3. QED
    BY <1>4, <2>2 DEF Chunked
<1>7. /\ Map(c)' = Map(c) /\ Chunk(c, w)' = Chunk(c, w) /\ Chunked(c, w)' = Chunked(c, w)
  BY <1>1, JobFixed
<1>8. \A f \in Entries(c) :
        seen'[c][f] = IF f = <<k.shard, k.entry>> THEN seen[c][f] + 1 ELSE seen[c][f]
  BY <1>1, SeeFacts
<1>9. \A v \in DOMAIN worker[c] \ {w} : \A e \in Chunked(c, v) : seen'[c][e] = seen[c][e]
  <2>1. \A v \in DOMAIN worker[c] \ {w} : \A e \in Chunked(c, v) :
          e \in Entries(c) /\ e # <<k.shard, k.entry>>
    BY <1>4, <1>6, ChunksApart DEF Chunked
  <2>2. QED
    BY <1>8, <2>1
<1>10. ASSUME NEW e \in Chunked(c, w)
       PROVE  /\ e[1] \in Nat /\ e[2] \in Nat /\ 1 <= e[2] /\ e[2] <= Map(c)[e[1]]
              /\ seen'[c][e] = IF e[1] < k.shard \/ (e[1] = k.shard /\ e[2] < k.entry + 1)
                               THEN 1 ELSE 0
  <2>1. /\ e[1] \in Nat /\ e[2] \in Nat /\ 1 <= e[2] /\ e[2] <= Map(c)[e[1]]
        /\ e = <<e[1], e[2]>> /\ e \in Entries(c)
    BY <1>4, ChunkedFacts
  <2>2. seen[c][e] = IF e[1] < k.shard \/ (e[1] = k.shard /\ e[2] < k.entry) THEN 1 ELSE 0
    BY <1>4 DEF Walked
  <2>3. e = <<k.shard, k.entry>> <=> e[1] = k.shard /\ e[2] = k.entry
    BY <2>1
  <2>4. CASE e = <<k.shard, k.entry>>
    <3>1. seen'[c][e] = seen[c][e] + 1 /\ e[1] = k.shard /\ e[2] = k.entry
      BY <1>8, <2>1, <2>3, <2>4
    <3>2. seen[c][e] = 0
      BY <1>4, <2>2, <3>1
    <3>3. QED
      BY <1>4, <2>1, <3>1, <3>2
  <2>5. CASE e # <<k.shard, k.entry>>
    <3>1. seen'[c][e] = seen[c][e] /\ ~(e[1] = k.shard /\ e[2] = k.entry)
      BY <1>8, <2>1, <2>3, <2>5
    <3>2. QED
      BY <1>4, <2>1, <2>2, <3>1
  <2>6. QED
    BY <2>4, <2>5
<1>11. Progress(c, w)'
  <2>1. CASE GoesOn(c, k, m) /\ k.entry < Map(c)[k.shard]
    <3>1. m.entry = k.entry + 1 /\ m.shard = k.shard /\ m.pc \in {"direct", "check"}
      BY <1>4, <2>1 DEF GoesOn
    <3>2. /\ m.entry \in Nat \ {0} /\ m.entry <= Map(c)[m.shard] /\ m.shard <= k.last
          /\ m.shard \in Chunk(c, w)[1]..(k.last + 1)
      BY <1>4, <2>1, <3>1
    <3>3. QED
      BY <1>2, <1>4, <1>5, <1>7, <1>10, <3>1, <3>2, SMTT(30) DEF Progress
  <2>2. CASE GoesOn(c, k, m) /\ ~(k.entry < Map(c)[k.shard])
    <3>1. m.entry = 1 /\ m.shard = k.shard + 1 /\ m.pc = "check"
      BY <1>4, <2>2 DEF GoesOn
    <3>2. k.entry = Map(c)[k.shard] /\ m.shard \in Chunk(c, w)[1]..(k.last + 1)
      BY <1>4, <2>2, <3>1, SMTT(30)
    <3>3. \A e \in Chunked(c, w) :
            seen'[c][e] = IF e[1] < m.shard \/ (e[1] = m.shard /\ e[2] < m.entry) THEN 1 ELSE 0
      <4> SUFFICES ASSUME NEW e \in Chunked(c, w)
                   PROVE  e[1] < k.shard + 1 \/ (e[1] = k.shard + 1 /\ e[2] < 1)
                          <=> e[1] < k.shard \/ (e[1] = k.shard /\ e[2] < k.entry + 1)
        BY <1>10, <3>1
      <4>1. e[1] = k.shard => e[2] <= k.entry
        BY <1>10, <3>2
      <4>2. QED
        BY <1>4, <1>10, <4>1, SMTT(30)
    <3>4. QED
      BY <1>2, <1>4, <1>5, <1>7, <3>1, <3>2, <3>3, SMTT(30) DEF Progress
  <2>3. CASE AsksToStop(c, m)
    <3>1. m.pc = "done" /\ ended'[c] = "stopped"
      BY <1>1, <2>3 DEF AsksToStop, TypeOK
    <3>2. \A e \in Chunked(c, w) : seen'[c][e] <= 1
      <4>1. \A e \in Chunked(c, w) : seen'[c][e] \in {0, 1}
        BY <1>10
      <4>2. QED
        BY <4>1
    <3>3. QED
      BY <1>2, <1>4, <1>5, <1>7, <3>1, <3>2 DEF Progress
  <2>4. QED
    BY <1>2, <2>1, <2>2, <2>3
<1>12. ended'[c] = "no" => ended[c] = "no"
  BY <1>1, <1>2 DEF GoesOn, AsksToStop, TypeOK
<1>13. m.pc # "flush"
  BY <1>2 DEF GoesOn, AsksToStop
<1>14. QED
  BY <1>1, <1>2, <1>3, <1>4, <1>9, <1>11, <1>12, <1>13, DirectStep

-------------------------------------------------------------------------------
(***************************************************************************)
(* Every entry is visited once.                                            *)
(***************************************************************************)
\* A visitor that panicked is not forgotten.
LEMMA PanicStays ==
    ASSUME PipeInv, Next, NoPanic' PROVE NoPanic
<1>1. TypeOK /\ ended \in [Call -> {"no", "stopped", "panicked"}]
  BY DEF PipeInv, TypeOK
<1>2. SUFFICES ASSUME NEW d \in Call, ended[d] = "panicked" PROVE ended'[d] = "panicked"
  <2>1. CASE UNCHANGED vars
    BY <2>1 DEF vars, history, NoPanic, Call
  <2>2. CASE ~UNCHANGED vars
    <3>1. Call' = Call
      BY <2>2, PipeMoves, JobFixed DEF Mine
    <3>2. QED
      BY <1>2, <3>1 DEF NoPanic
  <2>3. QED
    BY <2>1, <2>2
<1>3. \A c \in Call : \A x : ended' = [ended EXCEPT ![c] = x] /\ ended[c] # "panicked" => ended'[d] = "panicked"
  BY <1>1, <1>2
<1>4. \A c \in Call : pc[c] \in {"sequential", "visit"} => ended[c] # "panicked"
  BY Modes DEF PipeInv, Control, Unstarted
<1>5. ended' = ended => ended'[d] = "panicked"
  BY <1>2
<1>6. \A c \in Call : VisitInline(c) => ended'[d] = "panicked"
  BY <1>3, <1>4, <1>5 DEF VisitInline, Goes, Stops, Panics
<1>7. \A c \in Call : VisitSlab(c) => ended'[d] = "panicked"
  BY <1>3, <1>4, <1>5 DEF VisitSlab, Goes, Stops, Panics
<1>8. \A c \in Call : \A w \in DOMAIN worker[c] : VisitDirect(c, w) => ended'[d] = "panicked"
  <2>1. ASSUME NEW c \in Call, NEW w \in DOMAIN worker[c], VisitDirect(c, w)
        PROVE  ended'[d] = "panicked"
    <3>1. ended[c] # "panicked" /\ (ended' = ended \/ ended' = [ended EXCEPT ![c] = "stopped"])
      BY <2>1, VisitDirectFacts DEF PipeInv, Control, DirectControl, GoesOn, AsksToStop
    <3>2. QED
      BY <1>3, <1>5, <3>1
  <2>2. QED
    BY <2>1
<1>9. ASSUME NEW c \in Call, Begin(c) PROVE ended' = ended
  BY <1>9 DEF Begin, BeginSequential, BeginPipeline, BeginDirect, history
<1>10. ASSUME NEW c \in Call, CallerStep(c) PROVE ended' = ended \/ VisitInline(c) \/ VisitSlab(c)
  BY <1>10 DEF CallerStep, NextShard, AwaitReady, NextSlab, Join, history
<1>11. ASSUME NEW c \in Call, NEW w \in DOMAIN worker[c], WorkerStep(c, w)
       PROVE  ended' = ended \/ VisitDirect(c, w)
  BY <1>11 DEF WorkerStep, CollectShards, Flush, SetReady, CheckStop, Done, history
<1>12. QED
  BY <1>5, <1>6, <1>7, <1>8, <1>9, <1>10, <1>11 DEF Next, Finished, vars, history

\* Every step keeps it.
LEMMA EntryStep ==
    ASSUME PipeInv, EntryInv, [Next]_vars PROVE EntryInv'
<1>1. CASE UNCHANGED vars
  <2>1. UNCHANGED <<job, pc, at, view, arrays, worker, stopped, seen, ended, slabs, buffer, ready>>
    BY <1>1 DEF vars, caller, history, shared
  <2>2. Call' = Call /\ (NoPanic' => NoPanic)
    BY <2>1, JobFixed DEF NoPanic
  <2>3. \A d : Kept(d)
    BY <2>1, AllKept
  <2>4. (\A d \in Call : Counted(d)) => (\A d \in Call : Counted(d))'
    BY <2>1, <2>2, <2>3, CountedKept
  <2>5. Separate => Separate'
    <3>1. \A a, w : Backs(a, w)' = Backs(a, w)
      BY <2>1, <2>2 DEF Backs, Holder, Piped
    <3>2. QED
      BY <2>1, <3>1 DEF Separate
  <2>6. QED
    BY <2>2, <2>4, <2>5 DEF EntryInv
<1>2. CASE Next
  <2>1. SUFFICES ASSUME NoPanic' PROVE Separate' /\ (\A d \in Call : Counted(d))'
    BY DEF EntryInv
  <2>2. Good
    BY <1>2, <2>1, PanicStays DEF Good, EntryInv
  <2>3. ASSUME NEW c \in Call, Begin(c) PROVE Separate' /\ (\A d \in Call : Counted(d))'
    BY <2>1, <2>2, <2>3, GoodInline, GoodBeginPipeline, GoodBeginDirect DEF Begin
  <2>4. ASSUME NEW c \in Call, CallerStep(c) PROVE Separate' /\ (\A d \in Call : Counted(d))'
    BY <2>1, <2>2, <2>4, GoodInline, GoodAwaitReady, GoodVisitSlab, GoodNextSlab, GoodJoin
       DEF CallerStep
  <2>5. ASSUME NEW c \in Call, NEW w \in DOMAIN worker[c], WorkerStep(c, w)
        PROVE  Separate' /\ (\A d \in Call : Counted(d))'
    BY <2>2, <2>5, GoodCollectShards, GoodFlush, GoodSetReady, GoodCheckStop, GoodVisitDirect, GoodDone
       DEF WorkerStep
  <2>6. CASE Finished
    BY <1>1, <2>1, <2>6 DEF Finished, EntryInv
  <2>7. QED
    BY <1>2, <2>3, <2>4, <2>5, <2>6 DEF Next
<1>3. QED
  BY <1>1, <1>2

\* No call has begun, and no entry has been visited.
LEMMA EntryInit == Init => EntryInv
<1> SUFFICES ASSUME Init PROVE Separate /\ \A c \in Call : Counted(c)
  BY DEF EntryInv
<1>1. Len(slabs) = 0
  BY DEF Init
<1>2. Separate
  BY <1>1 DEF Separate
<1>3. ASSUME NEW c \in Call PROVE Counted(c)
  <2>1. pc[c] = "new" /\ arrays[c] = <<0, 0>> /\ worker[c] = <<>>
    BY DEF Init
  <2>2. \A e \in Entries(c) : seen[c][e] = 0
    BY DEF Init
  <2>3. ~Piped(c) /\ ~Direct(c) /\ ~Holder(c)
    BY <2>1 DEF Piped, Direct, Holder
  <2>4. pc[c] # "sequential" /\ pc[c] \notin {"join", "returned"}
    BY <2>1
  <2>5. QED
    BY <2>2, <2>3, <2>4 DEF Counted
<1>4. QED
  BY <1>2, <1>3

\* What a call that has begun in any of the ways has visited.
LEMMA CountedOnce ==
    ASSUME PipeInv, NEW c \in Call, Counted(c), NEW e \in Entries(c)
    PROVE  seen[c][e] <= 1 /\ (pc[c] = "returned" /\ ended[c] = "no" => seen[c][e] = 1)
<1>1. TypeOK /\ job \in Jobs /\ pc[c] \in Labels /\ at[c] \in Pairs
  BY DEF PipeInv, TypeOK
<1>2. CASE pc[c] = "new"
  <2>1. seen[c][e] = 0
    BY <1>2 DEF Counted
  <2>2. QED
    BY <1>2, <2>1
<1>3. CASE pc[c] = "sequential"
  <2>1. seen[c][e] \in {0, 1}
    BY <1>3 DEF Counted, Before
  <2>2. QED
    BY <1>3, <2>1
<1>4. CASE pc[c] \in {"wait", "visit"}
  <2>1. Tally(c, at[c], seen[c])
    BY <1>4, Modes DEF Counted, Visiting
  <2>2. at[c] = <<at[c][1], at[c][2]>> /\ at[c][1] \in Nat /\ at[c][2] \in Nat
    BY <1>1 DEF Pairs
  <2>3. seen[c][e] \in {0, 1}
    BY <1>1, <2>1, <2>2, TallyBounds
  <2>4. QED
    BY <1>4, <2>3
<1>5. CASE pc[c] \in {"join", "returned"} /\ ~Direct(c)
  BY <1>5 DEF Counted, Once
<1>6. CASE pc[c] \in {"join", "returned"} /\ Direct(c)
  <2>1. /\ Len(worker[c]) = Workers(c) /\ \A w \in DOMAIN worker[c] : worker[c][w].pc \in Visits
        /\ pc[c] = "returned" => \A w \in DOMAIN worker[c] : worker[c][w].pc = "gone"
    BY <1>6 DEF PipeInv, Control, DirectControl
  <2>2. DOMAIN worker[c] = 1..Workers(c)
    BY <1>1, <2>1 DEF TypeOK
  <2>3. PICK v \in 1..Workers(c) : e \in Chunked(c, v)
    BY <1>1, ChunksApart
  <2>4. Progress(c, v) /\ worker[c][v].pc \in Visits
    BY <1>6, <2>1, <2>2 DEF Counted
  <2>5. CASE worker[c][v].pc \in {"check", "direct"}
    <3>1. seen[c][e] \in {0, 1}
      BY <2>3, <2>4, <2>5 DEF Progress
    <3>2. pc[c] # "returned"
      BY <2>1, <2>2, <2>5
    <3>3. QED
      BY <3>1, <3>2
  <2>6. CASE worker[c][v].pc \in {"done", "gone"}
    BY <2>3, <2>4, <2>6 DEF Progress
  <2>7. QED
    BY <2>4, <2>5, <2>6 DEF Visits
<1>7. QED
  BY <1>1, <1>2, <1>3, <1>4, <1>5, <1>6 DEF Labels

\* Range, Snapshot and RangePar call the visitor exactly once with every entry,
\* and a traversal that was stopped at most once, for any number of calls that
\* share the pools, any maps and any division of the shards, as long as no
\* visitor panics (Map.Range, Map.RangePar, rangefast.go).
THEOREM EachEntryVisitedOnce == Spec => []EachEntryOnce
<1>1. Spec => []EntryInv
  <2>1. PipeInv /\ EntryInv /\ [Next]_vars => EntryInv'
    BY EntryStep
  <2>2. QED
    BY <2>1, EntryInit, PipeInvHolds, PTL DEF Spec
<1>2. PipeInv /\ EntryInv => EachEntryOnce
  <2> SUFFICES ASSUME PipeInv, EntryInv, NoPanic, NEW c \in Call, NEW e \in DOMAIN seen[c]
               PROVE  seen[c][e] <= 1 /\ (pc[c] = "returned" /\ ended[c] = "no" => seen[c][e] = 1)
    BY DEF EachEntryOnce, NoPanic
  <2>1. e \in Entries(c) /\ Counted(c)
    BY DEF PipeInv, TypeOK, EntryInv
  <2>2. QED
    BY <2>1, CountedOnce
<1>3. QED
  BY <1>1, <1>2, PipeInvHolds, PTL
===============================================================================
