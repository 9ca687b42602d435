--------------------------- MODULE TypedShardProofs ---------------------------
(***************************************************************************)
(* For any calls, keys, hashes and tables: the tables of a shard are sound *)
(* after every step, a limited number of hits is never exceeded, an entry  *)
(* past its time is never returned, the key of a Store without limits      *)
(* stays present, a Range visits a key that nobody writes once, and        *)
(* without limits all methods on a key, Clear and CleanupNow are atomic.   *)
(*                                                                         *)
(* None of these is inductive.  Each part of the argument is an invariant  *)
(* that is preserved given the ones before it:                             *)
(*   - ShapeInv: every table, the old ones that readers still hold as well *)
(*     as the current one, has an empty slot and each of its entries where *)
(*     a probe for its key stops; whoever is past a probe under the mutex  *)
(*     holds what the probe of the current table finds;                    *)
(*   - LimitInv: a value and the metadata in one entry belong together     *)
(*     except between the two stores of the call that holds the mutex, a   *)
(*     call knows of metadata only what it has read, and hits left plus    *)
(*     Loads that one paid for are at most the hits given;                 *)
(*   - StaysInv: the entry of a finished Store without limits is the one   *)
(*     the current table holds, if the other calls may not change it;      *)
(*   - VisitInv: the entry of a key that nobody writes is in every table,  *)
(*     and a Range has visited it once if it is past its slot in the table *)
(*     it walks, and not at all before.                                    *)
(*   - LinInv: without limits there is an order of the calls that have     *)
(*     taken effect, with the contents between them, in which each answers *)
(*     what it should and which ends with what is stored now; and what a   *)
(*     reader has in hand was the value of its key at a time of that order *)
(*     behind the calls that had ended when it began.                      *)
(***************************************************************************)
EXTENDS TypedShard, InductionFacts

Cell == Obj \cup {Nil, Tomb}
Table(n) == [0..(n - 1) -> Cell]
Tables == UNION {Table(n) : n \in Nat \ {0}}

\* What a probe for a key with entries in S passes before it stops at distance d.
FirstAt(T, k, S, d) ==
    /\ d \in DOMAIN T
    /\ T[ProbeSlot(T, k, d)] \in S
    /\ \A c \in 0..(d - 1) : T[ProbeSlot(T, k, c)] \notin S

\* The key of each entry; where the loops of the writers stop.
KeyIn == [e \in Obj |-> KeyOf(e)]
Stops(key, k) == {Nil} \cup {e \in Obj : key[e] = k}

\* Every entry is where a probe for its key stops.
Chained(key, T, i) ==
    /\ key[T[i]] \in Key
    /\ \E d \in DOMAIN T : /\ FirstAt(T, key[T[i]], Stops(key, key[T[i]]), d)
                           /\ ProbeSlot(T, key[T[i]], d) = i
Sound(key, T) ==
    /\ T \in Tables
    /\ \E i \in DOMAIN T : T[i] = Nil
    /\ \A i \in DOMAIN T : T[i] \in Obj => Chained(key, T, i)

\* The names do not overlap.
LEMMA Names ==
    /\ Nil \notin Obj /\ Tomb \notin Obj /\ Nil # Tomb
    /\ \A c \in Cell : IsEntry(c) <=> c \in Obj
  BY TypedNamesAssumption DEF Obj, Cell, IsEntry

\* The smallest table has room for four.
LEMMA MinSlotsNumber == MinSlots \in Nat /\ MinSlots >= 4
  BY MinSlotsAssumption, PowersArePositive
-------------------------------------------------------------------------------
\* A table with slots 0 to n - 1 has n of them.
LEMMA SizeIs ==
    ASSUME NEW n \in Nat \ {0}, NEW T \in Table(n)
    PROVE  Size(T) = n /\ T \in Tables
<1>1. DOMAIN T = 0..(n - 1)
  BY DEF Table
<1>2. Cardinality(0..(n - 1)) = n
  BY FS_Interval
<1>3. QED
  BY <1>1, <1>2 DEF Size, Tables

\* What a table is, in terms of its size.
LEMMA TableSize ==
    ASSUME NEW T \in Tables
    PROVE  /\ Size(T) \in Nat \ {0} /\ T \in Table(Size(T))
           /\ DOMAIN T = 0..(Size(T) - 1) /\ IsFiniteSet(DOMAIN T)
<1>1. PICK n \in Nat \ {0} : T \in Table(n)
  BY DEF Tables
<1>2. Size(T) = n
  BY <1>1, SizeIs
<1>3. DOMAIN T = 0..(n - 1)
  BY <1>1 DEF Table
<1>4. IsFiniteSet(0..(n - 1))
  BY FS_Interval
<1>5. QED
  BY <1>1, <1>2, <1>3, <1>4

\* The probes for a key reach every slot, each at one distance.
LEMMA Probes ==
    ASSUME NEW T \in Tables, NEW k \in Key
    PROVE  /\ \A d \in DOMAIN T : ProbeSlot(T, k, d) \in DOMAIN T
           /\ \A c, d \in DOMAIN T : ProbeSlot(T, k, c) = ProbeSlot(T, k, d) => c = d
           /\ \A i \in DOMAIN T : \E d \in DOMAIN T : ProbeSlot(T, k, d) = i
<1>1. Size(T) \in Nat \ {0} /\ DOMAIN T = 0..(Size(T) - 1)
  BY TableSize
<1>2. Hash[k] \in Nat
  BY HashAssumption
<1>3. PICK n, h : n = Size(T) /\ h = Hash[k]
  OBVIOUS
<1> DEFINE SlotAt(d) == (h + d) % n
<1>4. \A d : ProbeSlot(T, k, d) = SlotAt(d)
  BY <1>3 DEF ProbeSlot
<1>5. n \in Nat \ {0} /\ h \in Nat /\ DOMAIN T = 0..(n - 1)
  BY <1>1, <1>2, <1>3
<1>6. /\ \A i \in 0..(n - 1) : \E d \in 0..(n - 1) : SlotAt(d) = i
      /\ \A c, d \in 0..(n - 1) : SlotAt(c) = SlotAt(d) => c = d
      /\ \A d \in 0..(n - 1) : SlotAt(d) \in 0..(n - 1)
  <2>1. Reached(h, n)
    BY <1>5, RemaindersReached
  <2>2. QED
    BY <2>1, Zenon DEF Reached
<1> HIDE DEF SlotAt
<1>7. \A d \in DOMAIN T : ProbeSlot(T, k, d) \in DOMAIN T
  BY <1>4, <1>5, <1>6
<1>8. \A c, d \in DOMAIN T : ProbeSlot(T, k, c) = ProbeSlot(T, k, d) => c = d
  BY <1>4, <1>5, <1>6
<1>9. \A i \in DOMAIN T : \E d \in DOMAIN T : ProbeSlot(T, k, d) = i
  BY <1>4, <1>5, <1>6
<1>10. QED
  BY <1>7, <1>8, <1>9

\* A probe stops at one slot, at most.
LEMMA FirstIs ==
    ASSUME NEW T \in Tables, NEW k \in Key, NEW S, NEW d, FirstAt(T, k, S, d)
    PROVE  FirstSlot(T, k, S) = ProbeSlot(T, k, d)
<1> DEFINE First(x) == /\ T[ProbeSlot(T, k, x)] \in S
                       /\ \A c \in 0..(x - 1) : T[ProbeSlot(T, k, c)] \notin S
<1>1. DOMAIN T \subseteq Nat
  BY TableSize
<1>2. d \in DOMAIN T /\ First(d)
  BY DEF FirstAt
<1>3. ASSUME NEW x \in DOMAIN T, First(x) PROVE x = d
  <2>1. x \in Nat /\ d \in Nat
    BY <1>1, <1>2
  <2>2. ~(x < d)
    BY <2>1, <1>2, <1>3
  <2>3. ~(d < x)
    BY <2>1, <1>2, <1>3
  <2>4. QED
    BY <2>1, <2>2, <2>3
<1> HIDE DEF First
<1>4. (CHOOSE x \in DOMAIN T : First(x)) = d
  BY <1>2, <1>3
<1>5. QED
  BY <1>4 DEF FirstSlot, First

\* It stops, if there is a slot at which it may.
LEMMA FirstExists ==
    ASSUME NEW T \in Tables, NEW k \in Key, NEW S, NEW i \in DOMAIN T, T[i] \in S
    PROVE  \E d \in DOMAIN T : FirstAt(T, k, S, d)
<1>1. DOMAIN T \subseteq Nat /\ DOMAIN T = 0..(Size(T) - 1) /\ Size(T) \in Nat
  BY TableSize
<1> DEFINE D == {d \in DOMAIN T : T[ProbeSlot(T, k, d)] \in S}
<1>2. D # {}
  BY Probes
<1>3. D \subseteq Nat
  BY <1>1
<1>4. PICK d \in D : \A x \in D : d <= x
  <2> HIDE DEF D
  <2>1. QED
    BY <1>2, <1>3, LeastNatural
<1>5. d \in DOMAIN T /\ d \in Nat /\ T[ProbeSlot(T, k, d)] \in S
  BY <1>1
<1>6. ASSUME NEW c \in 0..(d - 1) PROVE T[ProbeSlot(T, k, c)] \notin S
  <2>1. c \in DOMAIN T /\ ~(d <= c)
    BY <1>1, <1>5
  <2>2. QED
    BY <2>1, <1>4
<1>7. QED
  BY <1>5, <1>6 DEF FirstAt

\* In a sound table the loops of the writers stop: at the one slot of the key,
\* or, without one, at an empty slot.
LEMMA Stop ==
    ASSUME NEW key, NEW T, Sound(key, T), NEW k \in Key,
           NEW i, i = FirstSlot(T, k, Stops(key, k))
    PROVE  /\ i \in DOMAIN T
           /\ T[i] = Nil \/ (T[i] \in Obj /\ key[T[i]] = k)
           /\ \A j \in DOMAIN T : T[j] \in Obj /\ key[T[j]] = k => j = i
           /\ \E d \in DOMAIN T : FirstAt(T, k, Stops(key, k), d) /\ ProbeSlot(T, k, d) = i
<1>1. T \in Tables
  BY DEF Sound
<1>2. PICK d \in DOMAIN T : FirstAt(T, k, Stops(key, k), d)
  <2>1. PICK j \in DOMAIN T : T[j] = Nil
    BY DEF Sound
  <2>2. T[j] \in Stops(key, k)
    BY <2>1 DEF Stops
  <2>3. QED
    BY <1>1, <2>2, FirstExists
<1>3. i = ProbeSlot(T, k, d)
  BY <1>1, <1>2, FirstIs
<1>4. i \in DOMAIN T
  BY <1>1, <1>3, Probes
<1>5. T[i] \in Stops(key, k)
  BY <1>2, <1>3 DEF FirstAt
<1>6. ASSUME NEW j \in DOMAIN T, T[j] \in Obj, key[T[j]] = k PROVE j = i
  <2>1. PICK x \in DOMAIN T : FirstAt(T, k, Stops(key, k), x) /\ ProbeSlot(T, k, x) = j
    BY <1>6 DEF Sound, Chained
  <2>2. QED
    BY <1>1, <2>1, FirstIs
<1>7. QED
  BY <1>2, <1>3, <1>4, <1>5, <1>6 DEF Stops

\* One slot changed.
Put(T, i, c) == [T EXCEPT ![i] = c]

\* Nothing else changes.
LEMMA Edited ==
    ASSUME NEW T \in Tables, NEW i \in DOMAIN T, NEW c \in Cell, NEW U, U = Put(T, i, c)
    PROVE  /\ U \in Tables /\ DOMAIN U = DOMAIN T /\ Size(U) = Size(T)
           /\ U[i] = c /\ \A j \in DOMAIN T : j # i => U[j] = T[j]
           /\ \A k, d : ProbeSlot(U, k, d) = ProbeSlot(T, k, d)
<1>1. Size(T) \in Nat \ {0} /\ T \in Table(Size(T))
  BY TableSize
<1>2. U \in Table(Size(T)) /\ DOMAIN U = DOMAIN T
  BY <1>1 DEF Table, Put
<1>3. U \in Tables /\ Size(U) = Size(T)
  BY <1>1, <1>2, SizeIs
<1>4. QED
  BY <1>2, <1>3 DEF ProbeSlot, Put

\* An edit keeps a table sound if no other probe stops at the slot.
LEMMA SoundEdit ==
    ASSUME NEW key, NEW T, Sound(key, T), NEW i \in DOMAIN T, NEW c \in Cell,
           NEW U, U = Put(T, i, c),
           \A j \in DOMAIN T : j # i /\ T[j] \in Obj => c \notin Stops(key, key[T[j]]),
           \E j \in DOMAIN T : U[j] = Nil,
           c \in Obj => Chained(key, U, i)
    PROVE  Sound(key, U)
<1>1. T \in Tables
  BY DEF Sound
<1>2. /\ U \in Tables /\ DOMAIN U = DOMAIN T /\ Size(U) = Size(T)
      /\ U[i] = c /\ \A j \in DOMAIN T : j # i => U[j] = T[j]
      /\ \A k, d : ProbeSlot(U, k, d) = ProbeSlot(T, k, d)
  BY <1>1, Edited
<1>3. ASSUME NEW j \in DOMAIN T, U[j] \in Obj PROVE Chained(key, U, j)
  <2>1. CASE j = i
    BY <2>1, <1>2, <1>3
  <2>2. CASE j # i
    <3> DEFINE k == key[T[j]]
    <3>1. U[j] = T[j] /\ T[j] \in Obj /\ c \notin Stops(key, k)
      BY <2>2, <1>2, <1>3
    <3>2. k \in Key
      BY <3>1 DEF Sound, Chained
    <3>3. PICK d \in DOMAIN T : FirstAt(T, k, Stops(key, k), d) /\ ProbeSlot(T, k, d) = j
      BY <3>1 DEF Sound, Chained
    <3>4. DOMAIN T = 0..(Size(T) - 1) /\ Size(T) \in Nat
      BY <1>1, TableSize
    <3> HIDE DEF k
    <3>5. U[ProbeSlot(U, k, d)] \in Stops(key, k)
      BY <3>3, <3>1, <1>2 DEF FirstAt
    <3>6. ASSUME NEW x \in 0..(d - 1) PROVE U[ProbeSlot(U, k, x)] \notin Stops(key, k)
      <4>1. x \in DOMAIN T
        BY <3>4, <3>3
      <4>2. ProbeSlot(T, k, x) \in DOMAIN T /\ T[ProbeSlot(T, k, x)] \notin Stops(key, k)
        BY <4>1, <1>1, <3>2, <3>3, Probes DEF FirstAt
      <4>3. QED
        BY <4>2, <1>2, <3>1
    <3>7. FirstAt(U, k, Stops(key, k), d)
      BY <3>3, <3>5, <3>6, <1>2 DEF FirstAt
    <3>8. U[j] = T[j] /\ ProbeSlot(U, k, d) = j
      BY <3>1, <3>3, <1>2
    <3>9. QED
      BY <3>2, <3>3, <3>7, <3>8, <1>2 DEF Chained, k
  <2>3. QED
    BY <2>1, <2>2
<1>4. QED
  BY <1>2, <1>3 DEF Sound

\* An entry of a key that has none goes where a slot is free, behind no empty one.
LEMMA SoundPut ==
    ASSUME NEW key, NEW T, Sound(key, T), NEW e \in Obj, key[e] \in Key,
           NEW d \in DOMAIN T, NEW i, i = ProbeSlot(T, key[e], d),
           \A x \in 0..(d - 1) : T[ProbeSlot(T, key[e], x)] # Nil,
           \A j \in DOMAIN T : T[j] \in Obj => key[T[j]] # key[e],
           \E j \in DOMAIN T : j # i /\ T[j] = Nil
    PROVE  Sound(key, Put(T, i, e))
<1> DEFINE k == key[e]
           U == Put(T, i, e)
<1>1. T \in Tables
  BY DEF Sound
<1>2. i \in DOMAIN T /\ e \in Cell
  BY <1>1, Probes DEF Cell
<1>3. /\ DOMAIN U = DOMAIN T /\ U[i] = e /\ \A j \in DOMAIN T : j # i => U[j] = T[j]
      /\ \A q, x : ProbeSlot(U, q, x) = ProbeSlot(T, q, x)
  BY <1>1, <1>2, Edited
<1>4. \A j \in DOMAIN T : j # i /\ T[j] \in Obj => e \notin Stops(key, key[T[j]])
  BY Names DEF Stops
<1>5. \E j \in DOMAIN T : U[j] = Nil
  BY <1>3
<1>6. Chained(key, U, i)
  <2>1. ASSUME NEW x \in 0..(d - 1) PROVE U[ProbeSlot(U, k, x)] \notin Stops(key, k)
    <3>1. DOMAIN T = 0..(Size(T) - 1) /\ Size(T) \in Nat
      BY <1>1, TableSize
    <3>2. x \in DOMAIN T /\ x # d
      BY <3>1
    <3>3. ProbeSlot(T, k, x) \in DOMAIN T /\ ProbeSlot(T, k, x) # i
      BY <3>2, <1>1, Probes
    <3>4. QED
      BY <3>3, <1>3 DEF Stops
  <2>2. e \in Stops(key, k)
    BY DEF Stops
  <2>3. FirstAt(U, k, Stops(key, k), d)
    <3> HIDE DEF U, k
    <3>1. QED
      BY <1>3, <2>1, <2>2 DEF FirstAt, k
  <2> HIDE DEF U
  <2>4. QED
    BY <1>3, <2>3 DEF Chained
<1> HIDE DEF U
<1>7. QED
  <2>1. U = Put(T, i, e)
    BY DEF U
  <2>2. Sound(key, U)
    BY <1>2, <1>4, <1>5, <1>6, <2>1, SoundEdit
  <2>3. QED
    BY <2>1, <2>2

\* A tombstone in the place of an entry keeps the chains.
LEMMA SoundTomb ==
    ASSUME NEW key, NEW T, Sound(key, T), NEW i \in DOMAIN T, T[i] \in Obj
    PROVE  Sound(key, Put(T, i, Tomb))
<1> DEFINE U == Put(T, i, Tomb)
<1>1. T \in Tables /\ Tomb \in Cell
  BY DEF Sound, Cell
<1>2. /\ DOMAIN U = DOMAIN T /\ \A j \in DOMAIN T : j # i => U[j] = T[j]
  BY <1>1, Edited
<1>3. \A k : Tomb \notin Stops(key, k)
  BY Names DEF Stops
<1>4. \E j \in DOMAIN T : U[j] = Nil
  BY <1>2, Names DEF Sound
<1> HIDE DEF U
<1>5. U = Put(T, i, Tomb)
  BY DEF U
<1>6. Sound(key, U)
  BY <1>1, <1>3, <1>4, <1>5, Names, SoundEdit
<1>7. QED
  BY <1>5, <1>6

\* A new table.
LEMMA SoundEmpty ==
    ASSUME NEW key, NEW n \in Nat \ {0}
    PROVE  /\ Sound(key, Empty(n)) /\ Size(Empty(n)) = n /\ DOMAIN Empty(n) = 0..(n - 1)
           /\ \A i \in 0..(n - 1) : Empty(n)[i] = Nil
<1>1. Empty(n) \in Table(n) /\ 0 \in 0..(n - 1)
  BY DEF Empty, Table, Cell
<1>2. Size(Empty(n)) = n /\ Empty(n) \in Tables
  BY <1>1, SizeIs
<1>3. DOMAIN Empty(n) = 0..(n - 1) /\ \A i \in 0..(n - 1) : Empty(n)[i] = Nil
  BY DEF Empty
<1>4. QED
  BY <1>1, <1>2, <1>3, Names DEF Sound
-------------------------------------------------------------------------------
\* The slots that Live and Tombstones count.
LiveSlots(T) == {i \in DOMAIN T : IsEntry(T[i])}
TombSlots(T) == {i \in DOMAIN T : T[i] = Tomb}

\* They are finite and apart.
LEMMA Counts ==
    ASSUME NEW T \in Tables
    PROVE  /\ IsFiniteSet(LiveSlots(T)) /\ Live(T) = Cardinality(LiveSlots(T)) /\ Live(T) \in Nat
           /\ IsFiniteSet(TombSlots(T)) /\ Tombstones(T) = Cardinality(TombSlots(T))
           /\ Tombstones(T) \in Nat
<1>1. IsFiniteSet(DOMAIN T) /\ LiveSlots(T) \subseteq DOMAIN T /\ TombSlots(T) \subseteq DOMAIN T
  BY TableSize DEF LiveSlots, TombSlots
<1>2. IsFiniteSet(LiveSlots(T)) /\ IsFiniteSet(TombSlots(T))
  BY <1>1, FS_Subset
<1>3. QED
  BY <1>2, FS_CardinalityType DEF Live, Tombstones, LiveSlots, TombSlots

\* With fewer entries and tombstones than slots, less one, two slots are empty.
LEMMA TwoEmpty ==
    ASSUME NEW T \in Tables, Live(T) + Tombstones(T) + 1 < Size(T), NEW i
    PROVE  \E j \in DOMAIN T : j # i /\ T[j] = Nil
<1>1. SUFFICES ASSUME \A j \in DOMAIN T : j # i => T[j] # Nil PROVE FALSE
  OBVIOUS
<1> DEFINE A == LiveSlots(T)
           B == TombSlots(T)
           C == A \cup B
<1>2. IsFiniteSet(A) /\ IsFiniteSet(B) /\ Cardinality(A) \in Nat /\ Cardinality(B) \in Nat
  BY Counts
<1>3. /\ IsFiniteSet(C) /\ Cardinality(C) \in Nat
      /\ Cardinality(C) <= Cardinality(A) + Cardinality(B)
  <2> HIDE DEF A, B
  <2>1. IsFiniteSet(C) /\ IsFiniteSet(A \cap B)
    BY <1>2, FS_Union, FS_Intersection
  <2>2. Cardinality(C) = Cardinality(A) + Cardinality(B) - Cardinality(A \cap B)
    BY <1>2, FS_Union
  <2>3. Cardinality(A \cap B) \in Nat /\ Cardinality(C) \in Nat
    BY <2>1, FS_CardinalityType
  <2>4. QED
    BY <1>2, <2>1, <2>2, <2>3
<1>4. DOMAIN T \subseteq C \cup {i}
  BY <1>1 DEF LiveSlots, TombSlots, IsEntry
<1>5. IsFiniteSet(C \cup {i}) /\ Cardinality(C \cup {i}) <= Cardinality(C) + 1
  <2> HIDE DEF C
  <2>1. IsFiniteSet(C \cup {i})
    BY <1>3, FS_AddElement
  <2>2. Cardinality(C \cup {i}) = (IF i \in C THEN Cardinality(C) ELSE Cardinality(C) + 1)
    BY <1>3, FS_AddElement
  <2>3. QED
    BY <1>3, <2>1, <2>2
<1>6. Cardinality(DOMAIN T) <= Cardinality(C \cup {i})
  BY <1>4, <1>5, FS_Subset
<1>7. Cardinality(C \cup {i}) \in Nat /\ Cardinality(DOMAIN T) \in Nat
  BY <1>5, TableSize, FS_CardinalityType DEF Size
<1>8. Live(T) = Cardinality(A) /\ Tombstones(T) = Cardinality(B) /\ Size(T) = Cardinality(DOMAIN T)
  BY Counts DEF Size
<1> HIDE DEF A, B, C
<1>9. QED
  BY <1>2, <1>3, <1>5, <1>6, <1>7, <1>8

\* How an insertion and a removal change the counts.
LEMMA CountPut ==
    ASSUME NEW T \in Tables, NEW i \in DOMAIN T, T[i] \notin Obj, NEW e \in Obj
    PROVE  /\ Live(Put(T, i, e)) = Live(T) + 1
           /\ Tombstones(Put(T, i, e)) = Tombstones(T) - (IF T[i] = Tomb THEN 1 ELSE 0)
           /\ EntriesOf(Put(T, i, e)) = EntriesOf(T) \cup {e}
<1> DEFINE U == Put(T, i, e)
<1>1. /\ U \in Tables /\ DOMAIN U = DOMAIN T /\ U[i] = e
      /\ \A j \in DOMAIN T : j # i => U[j] = T[j]
  BY Edited DEF Cell
<1>2. e \notin {Nil, Tomb} /\ T[i] \in {Nil, Tomb}
  BY Names, TableSize DEF Table, Cell
<1> HIDE DEF U
<1>3. LiveSlots(U) = LiveSlots(T) \cup {i} /\ i \notin LiveSlots(T)
  BY <1>1, <1>2 DEF LiveSlots, IsEntry
<1>4. TombSlots(U) = TombSlots(T) \ {i} /\ (i \in TombSlots(T) <=> T[i] = Tomb)
  BY <1>1, <1>2 DEF TombSlots
<1>5. Live(U) = Live(T) + 1
  BY <1>1, <1>3, Counts, FS_AddElement
<1>6. Tombstones(U) = Tombstones(T) - (IF T[i] = Tomb THEN 1 ELSE 0)
  <2>1. CASE T[i] = Tomb
    BY <2>1, <1>1, <1>4, Counts, FS_RemoveElement
  <2>2. CASE T[i] # Tomb
    <3>1. TombSlots(U) = TombSlots(T)
      BY <2>2, <1>4
    <3>2. QED
      BY <2>2, <3>1, <1>1, Counts
  <2>3. QED
    BY <2>1, <2>2
<1>7. EntriesOf(U) = EntriesOf(T) \cup {e}
  BY <1>1, <1>2 DEF EntriesOf
<1>8. QED
  BY <1>5, <1>6, <1>7 DEF U

\* An entry that becomes a tombstone.
LEMMA CountTomb ==
    ASSUME NEW T \in Tables, NEW i \in DOMAIN T, T[i] \in Obj
    PROVE  /\ Live(Put(T, i, Tomb)) = Live(T) - 1
           /\ Tombstones(Put(T, i, Tomb)) = Tombstones(T) + 1
<1> DEFINE U == Put(T, i, Tomb)
<1>1. /\ U \in Tables /\ DOMAIN U = DOMAIN T /\ U[i] = Tomb
      /\ \A j \in DOMAIN T : j # i => U[j] = T[j]
  BY Edited DEF Cell
<1>2. T[i] \notin {Nil, Tomb}
  BY Names
<1> HIDE DEF U
<1>3. LiveSlots(U) = LiveSlots(T) \ {i} /\ i \in LiveSlots(T)
  BY <1>1, <1>2 DEF LiveSlots, IsEntry
<1>4. TombSlots(U) = TombSlots(T) \cup {i} /\ i \notin TombSlots(T)
  BY <1>1, <1>2 DEF TombSlots
<1>5. Live(U) = Live(T) - 1
  BY <1>1, <1>3, Counts, FS_RemoveElement
<1>6. Tombstones(U) = Tombstones(T) + 1
  BY <1>1, <1>4, Counts, FS_AddElement
<1>7. QED
  BY <1>5, <1>6 DEF U
-------------------------------------------------------------------------------
\* The loop of Rehash.
PlaceIn(N, e) == Put(N, FirstSlot(N, KeyOf(e), {Nil}), e)
Copying(T, n, kept, f) ==
    f = [i \in 0..Size(T) |->
            IF i = 0 THEN Empty(n)
            ELSE IF T[i - 1] \in kept THEN PlaceIn(f[i - 1], T[i - 1]) ELSE f[i - 1]]
Copies(T, n, kept) == CHOOSE f : Copying(T, n, kept, f)

\* Rehash is what the loop ends with.
LEMMA RehashIs ==
    ASSUME NEW T, NEW n, NEW kept
    PROVE  Rehash(T, n, kept) = Copies(T, n, kept)[Size(T)]
  BY Zenon DEF Rehash, Copies, Copying, PlaceIn, Put

\* The loop can be run.
LEMMA CopiesExist ==
    ASSUME NEW T \in Tables, NEW n \in Nat \ {0}, NEW kept, kept \subseteq Cell
    PROVE  LET f == Copies(T, n, kept) IN
           /\ f[0] = Empty(n)
           /\ \A i \in 1..Size(T) :
                 f[i] = IF T[i - 1] \in kept THEN PlaceIn(f[i - 1], T[i - 1]) ELSE f[i - 1]
<1> DEFINE Fill(i, N) == IF T[i - 1] \in kept THEN PlaceIn(N, T[i - 1]) ELSE N
           step == [x \in Nat \X Table(n) |-> Fill(x[1], x[2])]
<1>1. Size(T) \in Nat /\ Empty(n) \in Table(n)
  BY TableSize DEF Empty, Table, Cell
<1>2. ASSUME NEW i \in Nat, NEW N \in Table(n) PROVE Fill(i, N) \in Table(n)
  BY <1>2 DEF PlaceIn, Put, Table
<1> HIDE DEF Fill
<1>3. step \in [Nat \X Table(n) -> Table(n)]
  BY <1>2
<1>4. PICK g : Recursion(g, Table(n), Empty(n), step, Size(T))
  <2> HIDE DEF step
  <2>1. QED
    BY <1>1, <1>3, FiniteRecursion
<1>5. /\ g \in [0..Size(T) -> Table(n)] /\ g[0] = Empty(n)
      /\ \A i \in 1..Size(T) : g[i] = step[<<i, g[i - 1]>>]
  BY <1>4 DEF Recursion
<1>6. ASSUME NEW i \in 1..Size(T) PROVE g[i] = Fill(i, g[i - 1])
  <2>1. i \in Nat /\ i - 1 \in 0..Size(T)
    BY <1>1
  <2>2. g[i - 1] \in Table(n) /\ g[i] = step[<<i, g[i - 1]>>]
    BY <1>5, <2>1
  <2>3. QED
    BY <2>1, <2>2
<1>7. Copying(T, n, kept, g)
  <2>1. ASSUME NEW i \in 0..Size(T) PROVE g[i] = IF i = 0 THEN Empty(n) ELSE Fill(i, g[i - 1])
    <3>1. i = 0 \/ i \in 1..Size(T)
      BY <1>1
    <3>2. QED
      BY <3>1, <1>5, <1>6
  <2>2. g = [i \in 0..Size(T) |-> IF i = 0 THEN Empty(n) ELSE Fill(i, g[i - 1])]
    BY <2>1, <1>5
  <2>3. QED
    BY <2>2 DEF Copying, Fill
<1>8. Copying(T, n, kept, Copies(T, n, kept))
  BY <1>7 DEF Copies
<1> HIDE DEF step
<1>9. QED
  <2> DEFINE f == Copies(T, n, kept)
  <2>1. f = [i \in 0..Size(T) |-> IF i = 0 THEN Empty(n) ELSE Fill(i, f[i - 1])]
    BY <1>8 DEF Copying, Fill
  <2> HIDE DEF f
  <2>2. f[0] = Empty(n)
    BY <2>1, <1>1
  <2>3. ASSUME NEW i \in 1..Size(T) PROVE f[i] = Fill(i, f[i - 1])
    <3>1. i \in 0..Size(T) /\ i # 0
      BY <1>1
    <3>2. QED
      BY <3>1, <2>1
  <2>4. QED
    BY <2>2, <2>3 DEF Fill, f

\* The copied table is sound, has no tombstones, and holds what was to be kept.
LEMMA RehashSound ==
    ASSUME NEW T, Sound(KeyIn, T), NEW n \in Nat \ {0}, Live(T) < n,
           NEW kept, kept \subseteq EntriesOf(T)
    PROVE  LET N == Rehash(T, n, kept) IN
           /\ Sound(KeyIn, N) /\ Size(N) = n /\ Tombstones(N) = 0 /\ Live(N) <= Live(T)
           /\ EntriesOf(N) = kept
<1> DEFINE f == Copies(T, n, kept)
           From(k) == {j \in DOMAIN T : j < k /\ T[j] \in kept}
           Good(k, N) == /\ N \in Table(n) /\ Sound(KeyIn, N)
                         /\ TombSlots(N) = {}
                         /\ EntriesOf(N) = {T[j] : j \in From(k)}
                         /\ Live(N) = Cardinality(From(k))
           S == {k \in Nat : k <= Size(T) => Good(k, f[k])}
<1>1. /\ T \in Tables /\ Size(T) \in Nat \ {0} /\ DOMAIN T = 0..(Size(T) - 1)
      /\ T \in Table(Size(T)) /\ IsFiniteSet(LiveSlots(T)) /\ Live(T) = Cardinality(LiveSlots(T))
      /\ Live(T) \in Nat /\ IsFiniteSet(DOMAIN T)
  BY TableSize, Counts DEF Sound
<1>2. ASSUME NEW e \in kept PROVE e \in Obj /\ \E j \in DOMAIN T : e = T[j]
  <2>1. PICK j \in DOMAIN T : e = T[j] /\ e \notin {Nil, Tomb}
    BY DEF EntriesOf
  <2>2. QED
    BY <2>1, <1>1 DEF Table, Cell
<1>3. /\ f[0] = Empty(n)
      /\ \A i \in 1..Size(T) :
            f[i] = IF T[i - 1] \in kept THEN PlaceIn(f[i - 1], T[i - 1]) ELSE f[i - 1]
  <2>1. kept \subseteq Cell
    BY <1>2 DEF Cell
  <2>2. QED
    BY <2>1, <1>1, CopiesExist
<1> HIDE DEF f
<1>4. ASSUME NEW k PROVE /\ From(k) \subseteq LiveSlots(T) /\ IsFiniteSet(From(k))
                         /\ Cardinality(From(k)) \in Nat /\ Cardinality(From(k)) <= Live(T)
  <2>1. From(k) \subseteq LiveSlots(T)
    BY <1>2, Names DEF LiveSlots, IsEntry
  <2>2. QED
    BY <2>1, <1>1, FS_Subset, FS_CardinalityType
<1>5. 0 \in S
  <2>1. /\ Empty(n) \in Table(n) /\ Sound(KeyIn, Empty(n)) /\ DOMAIN Empty(n) = 0..(n - 1)
        /\ \A i \in 0..(n - 1) : Empty(n)[i] = Nil
    BY SoundEmpty DEF Empty, Table, Cell
  <2>2. From(0) = {}
    BY <1>1
  <2>3. TombSlots(Empty(n)) = {} /\ EntriesOf(Empty(n)) = {} /\ LiveSlots(Empty(n)) = {}
    BY <2>1, Names DEF TombSlots, EntriesOf, LiveSlots, IsEntry
  <2>4. Live(Empty(n)) = 0
    BY <2>1, <2>3, Counts, FS_EmptySet DEF Sound
  <2>5. Good(0, Empty(n))
    BY <2>1, <2>2, <2>3, <2>4, FS_EmptySet
  <2>6. QED
    BY <2>5, <1>3
<1>6. ASSUME NEW k \in Nat, k \in S PROVE k + 1 \in S
  <2>1. SUFFICES ASSUME k + 1 <= Size(T) PROVE Good(k + 1, f[k + 1])
    OBVIOUS
  <2> DEFINE e == T[k]
             N == f[k]
  <2>2. k \in DOMAIN T /\ Good(k, N)
    BY <2>1, <1>1, <1>6
  <2>3. f[k + 1] = IF e \in kept THEN PlaceIn(N, e) ELSE N
    <3>1. k + 1 \in 1..Size(T) /\ (k + 1) - 1 = k
      BY <2>1, <1>1
    <3>2. QED
      BY <3>1, <1>3
  <2> HIDE DEF N
  <2>4. CASE e \notin kept
    <3>1. From(k + 1) = From(k)
      BY <2>4, <1>1
    <3> HIDE DEF From
    <3>2. QED
      BY <3>1, <2>2, <2>3, <2>4
  <2>5. CASE e \in kept
    <3>1. From(k + 1) = From(k) \cup {k} /\ k \notin From(k)
      BY <2>2, <2>5, <1>1
    <3>2. Cardinality(From(k + 1)) = Cardinality(From(k)) + 1
      BY <3>1, <1>4, FS_AddElement
    <3>3. N \in Tables /\ Size(N) = n
      BY <2>2, SizeIs
    <3>4. Tombstones(N) = 0
      BY <2>2, <3>3, Counts, FS_EmptySet
    <3>5. Live(N) + Tombstones(N) + 1 < Size(N)
      <4>1. /\ Cardinality(From(k)) \in Nat /\ Cardinality(From(k + 1)) <= Live(T)
            /\ Live(N) = Cardinality(From(k))
        BY <1>4, <2>2
      <4> HIDE DEF From
      <4>2. QED
        BY <4>1, <3>2, <3>3, <3>4, <1>1
    <3>6. e \in Obj /\ KeyIn[e] = KeyOf(e) /\ KeyIn[e] \in Key
      BY <2>2, <2>5, <1>2 DEF KeyIn, Sound, Chained
    <3>7. ASSUME NEW j \in DOMAIN N, N[j] \in Obj PROVE KeyIn[N[j]] # KeyIn[e]
      <4>1. N[j] \in EntriesOf(N)
        BY <3>7, Names DEF EntriesOf
      <4>2. PICK x \in From(k) : N[j] = T[x]
        BY <4>1, <2>2
      <4>3. x \in DOMAIN T /\ x # k /\ T[x] \in Obj
        BY <4>2, <3>7, <1>1
      <4>4. QED
        BY <4>2, <4>3, <2>2, <3>6, Stop
    <3>8. PICK j \in DOMAIN N : N[j] = Nil
      BY <3>3, <3>5, TwoEmpty
    <3>9. PICK d \in DOMAIN N : FirstAt(N, KeyIn[e], {Nil}, d)
      BY <3>3, <3>6, <3>8, FirstExists
    <3> DEFINE i == ProbeSlot(N, KeyIn[e], d)
    <3>10. FirstSlot(N, KeyOf(e), {Nil}) = i
      BY <3>3, <3>6, <3>9, FirstIs
    <3>11. i \in DOMAIN N /\ N[i] = Nil
      BY <3>3, <3>6, <3>9, Probes DEF FirstAt
    <3>12. f[k + 1] = Put(N, i, e)
      BY <2>3, <2>5, <3>10 DEF PlaceIn
    <3>13. Sound(KeyIn, Put(N, i, e))
      <4>1. \A x \in 0..(d - 1) : N[ProbeSlot(N, KeyIn[e], x)] # Nil
        BY <3>9 DEF FirstAt
      <4>2. \E x \in DOMAIN N : x # i /\ N[x] = Nil
        BY <3>3, <3>5, TwoEmpty
      <4>3. Sound(KeyIn, N)
        BY <2>2
      <4> HIDE DEF From, Good
      <4>4. QED
        BY <4>1, <4>2, <4>3, <3>6, <3>7, <3>9, SoundPut
    <3> HIDE DEF i, e
    <3>14. Put(N, i, e) \in Table(n)
      BY <2>2, <3>6 DEF Put, Table, Cell
    <3>15. N[i] \notin Obj /\ N[i] # Tomb
      BY <3>11, Names
    <3>16. Live(Put(N, i, e)) = Live(N) + 1 /\ EntriesOf(Put(N, i, e)) = EntriesOf(N) \cup {e}
      BY <3>3, <3>6, <3>11, <3>15, CountPut
    <3>17. TombSlots(Put(N, i, e)) = {}
      <4>1. DOMAIN Put(N, i, e) = DOMAIN N /\ Put(N, i, e)[i] = e
            /\ \A x \in DOMAIN N : x # i => Put(N, i, e)[x] = N[x]
        BY <3>3, <3>6, <3>11, Edited DEF Cell
      <4>2. QED
        BY <4>1, <2>2, <3>6, Names DEF TombSlots
    <3>18. {T[x] : x \in From(k + 1)} = {T[x] : x \in From(k)} \cup {e}
      BY <3>1 DEF e
    <3> HIDE DEF From
    <3>19. QED
      BY <2>2, <3>2, <3>12, <3>13, <3>14, <3>16, <3>17, <3>18
  <2>6. QED
    BY <2>4, <2>5
<1>7. Good(Size(T), f[Size(T)])
  <2>1. Size(T) \in S
    <3> HIDE DEF S
    <3>1. QED
      BY <1>1, <1>5, <1>6, SetInduction
  <2>2. QED
    BY <2>1, <1>1
<1>8. {T[j] : j \in From(Size(T))} = kept
  BY <1>1, <1>2
<1>9. QED
  <2> DEFINE N == Rehash(T, n, kept)
  <2>1. N = f[Size(T)]
    BY RehashIs DEF f
  <2> HIDE DEF N, From
  <2>2. Sound(KeyIn, N) /\ N \in Table(n) /\ EntriesOf(N) = kept /\ TombSlots(N) = {}
    BY <1>7, <1>8, <2>1
  <2>3. Live(N) <= Live(T)
    BY <1>7, <2>1, <1>4
  <2>4. Size(N) = n /\ Tombstones(N) = 0
    BY <2>2, SizeIs, Counts, FS_EmptySet
  <2>5. QED
    BY <2>2, <2>3, <2>4 DEF N
-------------------------------------------------------------------------------
Fields == {"pc", "tab", "d", "ent", "md", "word", "has", "res", "seen", "start", "before"}

\* The kinds of methods.
Finders == Readers \cup {"LoadOrStore"}
Viewers == Finders \cup Ranges
Removing == {"Delete", "CompareAndDelete", "ComputeDelete"}
Sweepers == {"Clear", "CleanupNow"}

\* The labels at which a call looks at an entry, works on the one that it found
\* under the mutex, and owns the mutex.
Viewing == {"meta", "limit", "consume", "val"}
Working == {"storeVal", "storeMeta", "remove"}
Held == Working \cup {"grow", "locked", "rebuild", "panic"}

\* What the operations are.
OpsTyped == op \in [Obj -> Operations] /\ \A k \in Key : op[k].key = k

\* The types of the variables.
StateTypes ==
    /\ OpsTyped
    /\ tabs \in Seq(Tables) /\ tabs # <<>>
    /\ cnt = [live |-> Live(Current), tomb |-> Tombstones(Current)]
    /\ val \in [Obj -> Obj \cup {Nil}] /\ meta \in [Obj -> Obj \cup {Nil}]
    /\ hits \in [Obj -> Int] /\ exp \in [Obj -> Nat] /\ hasMeta \in BOOLEAN
    /\ mu \in Call \cup {Nil} /\ now \in Nat
    /\ th = [t \in Call |-> th[t]]
LocalTypes(t) ==
    /\ DOMAIN th[t] = Fields
    /\ th[t].tab \in Nat /\ th[t].d \in Nat
    /\ th[t].md \in Obj \cup {Nil} /\ th[t].word \in Obj \cup {Nil}
    /\ th[t].start \in Nat /\ th[t].start <= now

\* Which methods come to a label.
KindOK(t) ==
    LET k == Kind(t)
        pc == th[t].pc IN
    /\ pc \in {"find", "walk"} => k \in Finders
    /\ pc \in {"range", "visit"} => k \in Ranges
    /\ pc \in Viewing => k \in Viewers
    /\ pc = "consume" => k = "Load"
    /\ pc = "lock" => k \notin Readers \cup Ranges
    /\ pc = "grow" => k \in Inserters
    /\ pc = "locked" => k \notin Readers \cup Ranges \cup Sweepers
    /\ pc \in {"storeVal", "storeMeta"} => k \in Storing
    /\ pc = "remove" => k \in Removing
    /\ pc = "rebuild" => k \in Sweepers
    /\ pc = "panic" => k = "ComputePanic"

\* The entry of a key, and the one that call t works on.
EntryAt(key, T, k) == T[FirstSlot(T, k, Stops(key, k))]
Found(t) == EntryAt(KeyIn, Current, op[t].key)

\* What a call holds: a slot of a table, an entry with a value, and the mutex
\* with the entry of its key, or with a table that has room for one.
HoldsOK(t) ==
    LET l == th[t] IN
    /\ l.pc \in {"walk", "visit"} => l.tab \in DOMAIN tabs /\ l.d \in DOMAIN tabs[l.tab]
    /\ l.pc \in Viewing => l.ent \in Obj /\ val[l.ent] # Nil
    /\ l.pc \in Viewing /\ Kind(t) \notin Ranges => KeyOf(l.ent) = op[t].key
    /\ l.pc \in Viewing /\ Kind(t) \in Ranges =>
          l.tab \in DOMAIN tabs /\ l.d - 1 \in DOMAIN tabs[l.tab]
    /\ l.pc \in {"limit", "consume"} => l.md # Nil
    /\ l.pc \in Held <=> mu = t
    /\ l.pc \in Working => l.ent \in Obj /\ l.ent = Found(t)
    /\ l.pc = "locked" /\ Kind(t) \in Inserters =>
          Live(Current) + Tombstones(Current) + 1 < Size(Current)

\* The tables are sound; what is in them has a value, and an entry that a call
\* created has one only when the call is done.
TablesOK ==
    /\ \A g \in DOMAIN tabs : Sound(KeyIn, tabs[g])
    /\ \A g \in DOMAIN tabs : \A i \in DOMAIN tabs[g] :
          tabs[g][i] \in Obj => val[tabs[g][i]] # Nil
    /\ \A e \in Call : val[e] # Nil => At(e, "done")

ShapeInv ==
    /\ StateTypes
    /\ \A t \in Call : LocalTypes(t) /\ KindOK(t) /\ HoldsOK(t)
    /\ TablesOK
-------------------------------------------------------------------------------
\* The metadata that belongs to a value.
MetaOf(w) == IF Limited(w) THEN w ELSE Nil

\* A value is in an entry only when its call stores it, with its metadata after
\* the value; metadata is in an entry when its call is done.
PairsOK ==
    /\ \A e \in Obj : val[e] \in Call => th[val[e]].pc \in {"storeMeta", "done"}
    /\ \A e \in Obj : val[e] # Nil =>
          \/ meta[e] = MetaOf(val[e])
          \/ val[e] \in Call /\ At(val[e], "storeMeta") /\ th[val[e]].ent = e
    /\ \A e \in Obj : meta[e] # Nil =>
          Limited(meta[e]) /\ (meta[e] \in Call => At(meta[e], "done"))
    /\ \A w \in Obj : Limited(w) /\ (w \in Call => ~At(w, "call")) => hasMeta
    /\ \A w \in Obj : op[w].ttl = 0 => exp[w] = 0

\* What a call knows of a value that was there before it began.
Fresh(t, w) == w # Nil /\ exp[w] > 0 => th[t].start < exp[w]
KnowsOK(t) ==
    LET l == th[t] IN
    /\ \A u \in l.before : u \in Call /\ At(u, "done")
    /\ l.pc \in {"limit", "consume", "val"} /\ Kind(t) \notin Ranges /\ Since(t, val[l.ent]) =>
          l.md = MetaOf(val[l.ent])
    /\ l.md \in Call => At(l.md, "done")
    /\ l.word \in Call => th[l.word].pc \in {"storeMeta", "done"}
    /\ l.pc = "consume" => op[l.md].hits > 0
    /\ l.pc \in {"consume", "val"} /\ Kind(t) \notin Ranges => Fresh(t, l.md)
    /\ l.pc = "storeMeta" => val[l.ent] = t
    /\ Since(t, l.word) => Fresh(t, l.word)
    /\ l.pc \notin Working \cup {"done"} => l.word = Nil
    /\ Kind(t) \in Ranges => l.word = Nil

\* The Loads that a hit of w pays for.
Paid(t, w) ==
    /\ Kind(t) = "Load"
    /\ \/ At(t, "done") /\ th[t].word = w /\ Since(t, w)
       \/ At(t, "val") /\ th[t].md = w
Payers(w) == {t \in Call : Paid(t, w)}
BudgetOK ==
    \A w \in Obj : op[w].hits > 0 =>
        /\ IsFiniteSet(Payers(w))
        /\ Cardinality(Payers(w)) + (IF hits[w] > 0 THEN hits[w] ELSE 0) <= op[w].hits

LimitInv == PairsOK /\ (\A t \in Call : KnowsOK(t)) /\ BudgetOK
-------------------------------------------------------------------------------
\* A Store without limits that only calls which keep its value may follow.
Tame == Viewers \cup {"CleanupNow", "ComputeCancel", "ComputePanic"}
Lasting(t) ==
    Kind(t) = "Store" /\ ~Limited(t) /\ \A u \in Call \ {t} : Kind(u) \in Tame
StaysAt(t) ==
    LET e == Found(t) IN
    /\ e # Nil /\ val[e] = t /\ meta[e] = Nil
    /\ \A u \in Call : th[u].pc \in Working => op[u].key # op[t].key
StaysInv == \A t \in Call : Lasting(t) /\ At(t, "done") => StaysAt(t)

\* A key that no call writes keeps its entry, without limits.
Untouched(k) ==
    /\ op[k].val # Nil /\ ~Limited(k)
    /\ \A u \in Call : Kind(u) # "Clear" /\ (op[u].key = k => Kind(u) \in Readers)
SlotOf(T, k) == CHOOSE i \in DOMAIN T : T[i] = k
FixedOK(k) ==
    /\ val[k] = k /\ meta[k] = Nil
    /\ \A g \in DOMAIN tabs : \E i \in DOMAIN tabs[g] : tabs[g][i] = k

\* What a Range has visited of it, and where it is.
Pairs == (Key \cup {Nil}) \X (Value \cup {Nil})
Visits(t, k) == {i \in DOMAIN th[t].seen : th[t].seen[i] = <<k, op[k].val>>}
Never(t, k) == Visits(t, k) = {}
Once(t, k) == \E i : Visits(t, k) = {i}
Place(t, k) == SlotOf(tabs[th[t].tab], k)
Seen(t, k, d) == IF Place(t, k) < d THEN Once(t, k) ELSE Never(t, k)
VisitsOK(t, k) ==
    LET l == th[t] IN
    /\ l.seen \in Seq(Pairs)
    /\ l.pc \in {"call", "range"} => l.seen = <<>>
    /\ l.pc = "visit" => Seen(t, k, l.d)
    /\ l.pc \in Viewing => Seen(t, k, l.d - 1) /\ (KeyOf(l.ent) = k <=> Place(t, k) = l.d - 1)
    /\ l.pc \in Viewing /\ KeyOf(l.ent) = k => l.ent = k /\ l.pc \in {"meta", "val"}
    /\ l.pc = "done" => Once(t, k)
VisitInv ==
    \A k \in Key : Untouched(k) =>
        FixedOK(k) /\ \A t \in Call : Kind(t) \in Ranges => VisitsOK(t, k)

-------------------------------------------------------------------------------
\* The keys of entries do not change.
LEMMA KeysSame ==
    ASSUME op' = op
    PROVE  KeyIn' = KeyIn /\ \A e : KeyOf(e)' = KeyOf(e)
  BY DEF KeyIn, KeyOf

\* The key of an entry is the key of its operation.
LEMMA KeyFacts ==
    ASSUME OpsTyped
    PROVE  /\ \A e \in Obj : KeyIn[e] = KeyOf(e) /\ KeyOf(e) = op[e].key
           /\ \A t \in Call : op[t].key # Nil => op[t].key \in Key
           /\ \A t \in Call : Kind(t) \in OnKey <=> op[t].key # Nil
           /\ \A t \in Call : op[t].key # Nil <=> op[t].key \in Key
<1>1. \A e \in Obj : KeyIn[e] = KeyOf(e)
  BY DEF KeyIn
<1>2. \A e \in Obj : KeyOf(e) = op[e].key
  BY DEF KeyOf, OpsTyped
<1>3. \A t \in Call : op[t] \in Operations
  BY DEF OpsTyped, Obj
<1>4. \A o \in Operations : o.key \in Key \cup {Nil} /\ (o.key # Nil <=> o.kind \in OnKey)
  BY DEF Operations
<1>5. Nil \notin Key
  BY TypedNamesAssumption
<1>6. QED
  BY <1>1, <1>2, <1>3, <1>4, <1>5 DEF Kind

\* The loops under the mutex end where the probe for the key stops.
LEMMA StopIs ==
    ASSUME NEW T, NEW k
    PROVE  StopSlot(T, k) = FirstSlot(T, k, Stops(KeyIn, k))
<1>1. {e \in Obj : KeyOf(e) = k} = {e \in Obj : KeyIn[e] = k}
  BY DEF KeyIn
<1>2. QED
  BY <1>1 DEF StopSlot, Stops

\* That is the entry that LockedEntry loads.
LEMMA FoundIs == ASSUME NEW t \in Call PROVE LockedEntry(t) = Found(t)
  BY StopIs DEF LockedEntry, Found, EntryAt

\* The current table is a sound one.
LEMMA CurrentOK ==
    ASSUME ShapeInv
    PROVE  /\ Len(tabs) \in Nat /\ Len(tabs) >= 1 /\ Len(tabs) \in DOMAIN tabs
           /\ DOMAIN tabs = 1..Len(tabs)
           /\ \A g \in DOMAIN tabs : Sound(KeyIn, tabs[g]) /\ tabs[g] \in Tables
           /\ Current \in Tables /\ Sound(KeyIn, Current)
           /\ cnt.live = Live(Current) /\ cnt.tomb = Tombstones(Current)
           /\ Live(Current) \in Nat /\ Tombstones(Current) \in Nat /\ Size(Current) \in Nat \ {0}
<1>1. tabs \in Seq(Tables) /\ tabs # <<>>
  BY DEF ShapeInv, StateTypes
<1>2. Len(tabs) \in Nat /\ Len(tabs) >= 1 /\ DOMAIN tabs = 1..Len(tabs)
  BY <1>1
<1>3. \A g \in DOMAIN tabs : Sound(KeyIn, tabs[g]) /\ tabs[g] \in Tables
  BY DEF ShapeInv, TablesOK, Sound
<1>4. Current \in Tables /\ Sound(KeyIn, Current)
  BY <1>2, <1>3 DEF Current
<1>5. cnt.live = Live(Current) /\ cnt.tomb = Tombstones(Current)
  BY DEF ShapeInv, StateTypes
<1>6. QED
  BY <1>2, <1>3, <1>4, <1>5, Counts, TableSize

\* A call on a key finds its entry in the one slot that holds it, or none.
LEMMA FoundFacts ==
    ASSUME ShapeInv, NEW t \in Call, op[t].key \in Key
    PROVE  LET i == StopSlot(Current, op[t].key) IN
           /\ i \in DOMAIN Current /\ Current[i] = Found(t)
           /\ \/ Found(t) = Nil
              \/ Found(t) \in Obj /\ KeyOf(Found(t)) = op[t].key /\ val[Found(t)] # Nil
           /\ \A j \in DOMAIN Current :
                 Current[j] \in Obj /\ KeyIn[Current[j]] = op[t].key => j = i
<1> DEFINE i == FirstSlot(Current, op[t].key, Stops(KeyIn, op[t].key))
<1>1. Sound(KeyIn, Current) /\ Len(tabs) \in DOMAIN tabs
  BY CurrentOK
<1>2. /\ i \in DOMAIN Current
      /\ Current[i] = Nil \/ (Current[i] \in Obj /\ KeyIn[Current[i]] = op[t].key)
      /\ \A j \in DOMAIN Current : Current[j] \in Obj /\ KeyIn[Current[j]] = op[t].key => j = i
  BY <1>1, Stop
<1>3. i \in DOMAIN Current
  BY <1>1, Stop
<1>4. Current[i] = Found(t) /\ i = StopSlot(Current, op[t].key)
  BY StopIs DEF Found, EntryAt
<1>5. ASSUME Found(t) \in Obj PROVE KeyOf(Found(t)) = KeyIn[Found(t)] /\ val[Found(t)] # Nil
  <2>1. val[Current[i]] # Nil
    BY <1>1, <1>3, <1>4, <1>5 DEF ShapeInv, TablesOK, Current
  <2>2. QED
    BY <2>1, <1>4, <1>5 DEF KeyIn
<1> HIDE DEF i
<1>6. QED
  BY <1>2, <1>3, <1>4, <1>5
-------------------------------------------------------------------------------
\* What Set makes of the locals of t: at a label before the end, and at the end.
Moved(t) ==
    /\ th' = [u \in Call |-> th'[u]]
    /\ \A u \in Call \ {t} : th'[u] = th[u]
    /\ DOMAIN th'[t] = Fields
Lands(t, p, g, x, e, m) ==
    /\ Moved(t) /\ th'[t].pc = p
    /\ th'[t].tab = g /\ th'[t].d = x /\ th'[t].ent = e /\ th'[t].md = m
    /\ th'[t].start = th[t].start /\ th'[t].before = th[t].before /\ th'[t].has = th[t].has
Same(t) == th'[t].word = th[t].word /\ th'[t].res = th[t].res /\ th'[t].seen = th[t].seen
Goes(t, p) == Lands(t, p, th[t].tab, th[t].d, th[t].ent, th[t].md) /\ Same(t)
Ends(t) ==
    /\ Moved(t) /\ th'[t].pc = "done"
    /\ th'[t].tab = 0 /\ th'[t].d = 0 /\ th'[t].ent = Nil /\ th'[t].md = Nil
    /\ th'[t].start = th[t].start /\ th'[t].before = th[t].before
HasLocals(t) == th = [u \in Call |-> th[u]] /\ DOMAIN th[t] = Fields

\* Goto and Return, in these terms.
LEMMA GotoGoes ==
    ASSUME NEW t \in Call, HasLocals(t), NEW p, p # "done", Goto(t, p)
    PROVE  Goes(t, p)
  BY DEF HasLocals, Goto, Set, With, Tidy, Goes, Lands, Same, Moved, Fields

\* A call that answers.
LEMMA ReturnEnds ==
    ASSUME NEW t \in Call, HasLocals(t), NEW r, Return(t, r)
    PROVE  Ends(t) /\ th'[t].res = r /\ th'[t].word = th[t].word /\ th'[t].seen = th[t].seen
  BY DEF HasLocals, Return, Set, With, Tidy, Ends, Moved, Fields

\* A call that ends with the answer it has.
LEMMA GotoEnds ==
    ASSUME NEW t \in Call, HasLocals(t), Goto(t, "done")
    PROVE  Ends(t) /\ Same(t)
  BY DEF HasLocals, Goto, Set, With, Tidy, Ends, Same, Moved, Fields

-------------------------------------------------------------------------------
\* What the invariant says of one call.
LEMMA CallFacts ==
    ASSUME ShapeInv, NEW t \in Call
    PROVE  /\ HasLocals(t) /\ LocalTypes(t) /\ KindOK(t) /\ HoldsOK(t)
           /\ now \in Nat /\ op[t] \in Operations /\ OpsTyped /\ t \in Obj
  BY DEF ShapeInv, StateTypes, OpsTyped, HasLocals, LocalTypes, Obj

\* What a step of t does to the state that the other calls rely on: only the
\* owner of the mutex edits or replaces the table.
TablesStay == \A g \in DOMAIN tabs : g \in DOMAIN tabs' /\ DOMAIN tabs'[g] = DOMAIN tabs[g]
Beside(t) ==
    /\ Moved(t) /\ op' = op /\ now' = now /\ th[t].pc # "done"
    /\ mu' = mu \/ (mu = Nil /\ mu' = t) \/ (mu = t /\ mu' = Nil)
    /\ TablesStay /\ (tabs' = tabs \/ mu = t)
    /\ \A e \in Obj : val[e] # Nil => val'[e] # Nil

\* With the tables, what a call finds stays.
LEMMA FoundSame ==
    ASSUME op' = op, tabs' = tabs, NEW t
    PROVE  Found(t)' = Found(t) /\ Current' = Current
  BY KeysSame DEF Found, Current

\* The other calls keep their part of the invariant.
LEMMA OthersKeep ==
    ASSUME ShapeInv, NEW t \in Call, Beside(t), NEW u \in Call, u # t
    PROVE  LocalTypes(u)' /\ KindOK(u)' /\ HoldsOK(u)'
<1>1. /\ LocalTypes(u) /\ KindOK(u) /\ HoldsOK(u)
      /\ th'[u] = th[u] /\ op' = op /\ now' = now
  BY CallFacts DEF Beside, Moved
<1>2. LocalTypes(u)' /\ KindOK(u)'
  BY <1>1 DEF LocalTypes, KindOK, Kind
<1>3. mu' = u <=> mu = u
  BY TypedNamesAssumption DEF Beside
<1>4. th[u].pc \in Held => tabs' = tabs
  BY <1>1 DEF Beside, HoldsOK
<1>5. th[u].pc \in Held => Found(u)' = Found(u) /\ Current' = Current
  BY <1>1, <1>4, FoundSame
<1>6. \A e : KeyOf(e)' = KeyOf(e)
  BY <1>1, KeysSame
<1>7. TablesStay /\ \A e \in Obj : val[e] # Nil => val'[e] # Nil
  BY DEF Beside
<1>8. /\ th[u].pc \in {"walk", "visit"} =>
            th[u].tab \in DOMAIN tabs' /\ th[u].d \in DOMAIN tabs'[th[u].tab]
      /\ th[u].pc \in Viewing /\ Kind(u) \in Ranges =>
            th[u].tab \in DOMAIN tabs' /\ th[u].d - 1 \in DOMAIN tabs'[th[u].tab]
  BY <1>1, <1>7 DEF HoldsOK, TablesStay
<1>9. /\ th[u].pc \in Viewing => th[u].ent \in Obj /\ val'[th[u].ent] # Nil
      /\ th[u].pc \in Viewing /\ Kind(u) \notin Ranges => KeyOf(th[u].ent) = op[u].key
      /\ th[u].pc \in {"limit", "consume"} => th[u].md # Nil
      /\ th[u].pc \in Held <=> mu = u
  BY <1>1, <1>7 DEF HoldsOK
<1>10. /\ th[u].pc \in Working => th[u].ent \in Obj /\ th[u].ent = Found(u)'
       /\ th[u].pc = "locked" /\ Kind(u) \in Inserters =>
            Live(Current') + Tombstones(Current') + 1 < Size(Current')
  BY <1>1, <1>5 DEF HoldsOK, Held
<1>11. HoldsOK(u)'
  BY <1>1, <1>3, <1>6, <1>8, <1>9, <1>10 DEF HoldsOK, Kind
<1>12. QED
  BY <1>2, <1>11

\* A step keeps the invariant if the call that takes it, the variables and the
\* tables do.
LEMMA ShapeStep ==
    ASSUME ShapeInv, NEW t \in Call, Beside(t),
           (LocalTypes(t) /\ KindOK(t) /\ HoldsOK(t))', StateTypes', TablesOK'
    PROVE  ShapeInv'
  BY OthersKeep DEF ShapeInv

\* A step that changes neither tables nor entries.
LEMMA QuietStep ==
    ASSUME ShapeInv, NEW t \in Call, Beside(t), UNCHANGED <<table, entry>>,
           hits' \in [Obj -> Int], exp' \in [Obj -> Nat], hasMeta' \in BOOLEAN,
           (LocalTypes(t) /\ KindOK(t) /\ HoldsOK(t))'
    PROVE  ShapeInv'
<1>1. /\ tabs' = tabs /\ cnt' = cnt /\ val' = val /\ meta' = meta /\ op' = op
      /\ now' = now /\ Moved(t) /\ th[t].pc # "done"
      /\ mu' \in Call \cup {Nil}
  BY DEF table, entry, Beside, ShapeInv, StateTypes
<1>2. StateTypes'
  BY <1>1 DEF ShapeInv, StateTypes, OpsTyped, Moved, Current
<1>3. TablesOK'
  <2>1. KeyIn' = KeyIn
    BY <1>1, KeysSame
  <2>2. \A e \in Call : At(e, "done") => At(e, "done")'
    BY <1>1 DEF At, Moved
  <2>3. QED
    BY <1>1, <2>1, <2>2 DEF ShapeInv, TablesOK
<1>4. QED
  BY <1>2, <1>3, ShapeStep

-------------------------------------------------------------------------------
\* The effects of the steps that only look at the map.  A call begins.
LEMMA InvokeEffect ==
    ASSUME ShapeInv, NEW t \in Call, Invoke(t)
    PROVE  /\ Moved(t) /\ Same(t)
           /\ th'[t].pc = (IF Kind(t) \in Finders THEN "find"
                           ELSE IF Kind(t) \in Ranges THEN "range" ELSE "lock")
           /\ th'[t].tab = th[t].tab /\ th'[t].d = th[t].d /\ th'[t].ent = th[t].ent
           /\ th'[t].md = th[t].md /\ th'[t].start = now
           /\ th'[t].before = {u \in Call : At(u, "done")}
           /\ th'[t].has = (hasMeta \/ Kind(t) = "Snapshot")
           /\ UNCHANGED <<table, entry, hits, mu, now, op>>
           /\ exp' = [exp EXCEPT ![t] = IF op[t].ttl > 0 THEN now + op[t].ttl ELSE 0]
           /\ hasMeta' = (hasMeta \/ Limited(t))
<1>1. HasLocals(t)
  BY CallFacts
<1>2. QED
  BY <1>1 DEF Invoke, At, HasLocals, Set, With, Tidy, Moved, Same, Fields, Finders

\* An answer "absent", which LoadOrStore goes to ask for under the mutex.
Missed(t) ==
    \/ Kind(t) = "LoadOrStore" /\ Goes(t, "lock")
    \/ /\ Kind(t) # "LoadOrStore" /\ Ends(t) /\ th'[t].res = Absent
       /\ th'[t].word = th[t].word /\ th'[t].seen = th[t].seen

\* That is what Miss does.
LEMMA MissEffect ==
    ASSUME NEW t \in Call, HasLocals(t), Miss(t) PROVE Missed(t)
  BY GotoGoes, ReturnEnds DEF Miss, Missed

\* One slot of a probe: the entry of the key, the end, or the next slot.
ProbedAt(t, g, d) ==
    LET T == tabs[g]
        i == ProbeSlot(T, op[t].key, d) IN
    /\ g = (IF At(t, "find") THEN Len(tabs) ELSE th[t].tab)
    /\ d = (IF At(t, "find") THEN 0 ELSE th[t].d)
    /\ g \in DOMAIN tabs /\ d \in DOMAIN T /\ T \in Tables /\ i \in DOMAIN T
    /\ \/ /\ T[i] \in Obj /\ KeyOf(T[i]) = op[t].key
          /\ Lands(t, "meta", th[t].tab, th[t].d, T[i], th[t].md) /\ Same(t)
       \/ /\ ~(T[i] \in Obj /\ KeyOf(T[i]) = op[t].key)
          /\ T[i] = Nil \/ d + 1 = Size(T)
          /\ Missed(t)
       \/ /\ ~(T[i] \in Obj /\ KeyOf(T[i]) = op[t].key)
          /\ T[i] # Nil /\ d + 1 \in DOMAIN T
          /\ Lands(t, "walk", g, d + 1, th[t].ent, th[t].md) /\ Same(t)

\* That is what Find does.
LEMMA FindEffect ==
    ASSUME ShapeInv, NEW t \in Call, Find(t)
    PROVE  /\ UNCHANGED <<table, entry, limits, mu, now, op>> /\ th[t].pc \in {"find", "walk"}
           /\ op[t].key \in Key /\ Kind(t) \in Finders
           /\ \E g, d : ProbedAt(t, g, d)
<1> DEFINE g == IF At(t, "find") THEN Len(tabs) ELSE th[t].tab
           d == IF At(t, "find") THEN 0 ELSE th[t].d
           T == tabs[g]
           i == ProbeSlot(T, op[t].key, d)
<1>1. HasLocals(t) /\ KindOK(t) /\ HoldsOK(t) /\ OpsTyped /\ th[t].pc \in {"find", "walk"}
  BY CallFacts DEF Find
<1>2. Kind(t) \in Finders /\ op[t].key \in Key
  <2>1. Kind(t) \in Finders
    BY <1>1 DEF KindOK
  <2>2. Kind(t) \in OnKey
    BY <2>1 DEF Finders, OnKey, Storing
  <2>3. QED
    BY <1>1, <2>1, <2>2, KeyFacts
<1>3. g \in DOMAIN tabs /\ T \in Tables
  BY <1>1, CurrentOK DEF HoldsOK, At
<1>4. Size(T) \in Nat \ {0} /\ DOMAIN T = 0..(Size(T) - 1) /\ T \in Table(Size(T))
  BY <1>3, TableSize
<1>5. d \in DOMAIN T
  BY <1>1, <1>4 DEF HoldsOK, At
<1>6. i \in DOMAIN T
  BY <1>2, <1>3, <1>5, Probes
<1>7. T[i] \in Cell
  BY <1>4, <1>6 DEF Table
<1>8. IsKey(T, op[t].key, i) <=> T[i] \in Obj /\ KeyOf(T[i]) = op[t].key
  BY <1>7, Names DEF IsKey
<1>9. /\ UNCHANGED <<table, entry, limits, mu, now, op>>
      /\ IF IsKey(T, op[t].key, i) THEN Set(t, [pc |-> "meta", ent |-> T[i]])
         ELSE IF T[i] = Nil \/ d + 1 = Size(T) THEN Miss(t)
         ELSE Set(t, [pc |-> "walk", tab |-> g, d |-> d + 1])
  BY DEF Find
<1> HIDE DEF g, d, T, i
<1>10. ASSUME NEW e, Set(t, [pc |-> "meta", ent |-> e])
       PROVE  Lands(t, "meta", th[t].tab, th[t].d, e, th[t].md) /\ Same(t)
  BY <1>1, <1>10 DEF HasLocals, Set, With, Tidy, Lands, Same, Moved, Fields
<1>11. ASSUME Set(t, [pc |-> "walk", tab |-> g, d |-> d + 1])
       PROVE  Lands(t, "walk", g, d + 1, th[t].ent, th[t].md) /\ Same(t)
  BY <1>1, <1>11 DEF HasLocals, Set, With, Tidy, Lands, Same, Moved, Fields
<1>12. CASE IsKey(T, op[t].key, i)
  <2>1. Lands(t, "meta", th[t].tab, th[t].d, T[i], th[t].md) /\ Same(t)
    BY <1>9, <1>10, <1>12
  <2>2. ProbedAt(t, g, d)
    BY <1>3, <1>5, <1>6, <1>8, <1>12, <2>1 DEF ProbedAt, g, d, T, i
  <2>3. QED
    BY <1>1, <1>2, <1>9, <2>2
<1>13. CASE ~IsKey(T, op[t].key, i) /\ (T[i] = Nil \/ d + 1 = Size(T))
  <2>1. Missed(t)
    BY <1>1, <1>9, <1>13, MissEffect
  <2>2. ProbedAt(t, g, d)
    BY <1>3, <1>5, <1>6, <1>8, <1>13, <2>1 DEF ProbedAt, g, d, T, i
  <2>3. QED
    BY <1>1, <1>2, <1>9, <2>2
<1>14. CASE ~IsKey(T, op[t].key, i) /\ ~(T[i] = Nil \/ d + 1 = Size(T))
  <2>1. Lands(t, "walk", g, d + 1, th[t].ent, th[t].md) /\ Same(t)
    BY <1>9, <1>11, <1>14
  <2>2. d + 1 \in DOMAIN T
    BY <1>4, <1>5, <1>14
  <2>3. ProbedAt(t, g, d)
    BY <1>3, <1>5, <1>6, <1>8, <1>14, <2>1, <2>2 DEF ProbedAt, g, d, T, i
  <2>4. QED
    BY <1>1, <1>2, <1>9, <2>3
<1>15. QED
  BY <1>12, <1>13, <1>14

\* One slot of a Range: an entry to look at, the next slot, or the end.
Scanned(t, g, d) ==
    LET T == tabs[g] IN
    /\ g = (IF At(t, "range") THEN Len(tabs) ELSE th[t].tab)
    /\ d = (IF At(t, "range") THEN 0 ELSE th[t].d)
    /\ g \in DOMAIN tabs /\ d \in DOMAIN T /\ T \in Tables
    /\ \/ T[d] \in Obj /\ Lands(t, "meta", g, d + 1, T[d], th[t].md) /\ Same(t)
       \/ T[d] \notin Obj /\ d + 1 = Size(T) /\ Ends(t) /\ Same(t)
       \/ /\ T[d] \notin Obj /\ d + 1 \in DOMAIN T
          /\ Lands(t, "visit", g, d + 1, T[d], th[t].md) /\ Same(t)

\* That is what RangeSlot does.
LEMMA RangeSlotEffect ==
    ASSUME ShapeInv, NEW t \in Call, RangeSlot(t)
    PROVE  /\ UNCHANGED <<table, entry, limits, mu, now, op>> /\ th[t].pc \in {"range", "visit"}
           /\ Kind(t) \in Ranges
           /\ \E g, d : Scanned(t, g, d)
<1> DEFINE g == IF At(t, "range") THEN Len(tabs) ELSE th[t].tab
           d == IF At(t, "range") THEN 0 ELSE th[t].d
           T == tabs[g]
           e == T[d]
           p == IF IsEntry(e) THEN "meta" ELSE IF d + 1 = Size(T) THEN "done" ELSE "visit"
<1>1. HasLocals(t) /\ KindOK(t) /\ HoldsOK(t) /\ th[t].pc \in {"range", "visit"}
  BY CallFacts DEF RangeSlot
<1>2. Kind(t) \in Ranges
  BY <1>1 DEF KindOK
<1>3. g \in DOMAIN tabs /\ T \in Tables
  BY <1>1, CurrentOK DEF HoldsOK, At
<1>4. Size(T) \in Nat \ {0} /\ DOMAIN T = 0..(Size(T) - 1) /\ T \in Table(Size(T))
  BY <1>3, TableSize
<1>5. d \in DOMAIN T
  BY <1>1, <1>4 DEF HoldsOK, At
<1>6. IsEntry(e) <=> e \in Obj
  BY <1>4, <1>5, Names DEF Table
<1>7. /\ UNCHANGED <<table, entry, limits, mu, now, op>>
      /\ Set(t, [tab |-> g, d |-> d + 1, ent |-> e, pc |-> p])
  BY DEF RangeSlot
<1> HIDE DEF g, d, T, e, p
<1>8. ASSUME p # "done" PROVE Lands(t, p, g, d + 1, e, th[t].md) /\ Same(t)
  BY <1>1, <1>7, <1>8 DEF HasLocals, Set, With, Tidy, Lands, Same, Moved, Fields
<1>9. ASSUME p = "done" PROVE Ends(t) /\ Same(t)
  BY <1>1, <1>7, <1>9 DEF HasLocals, Set, With, Tidy, Ends, Same, Moved, Fields
<1>10. \/ e \in Obj /\ p = "meta"
       \/ e \notin Obj /\ d + 1 = Size(T) /\ p = "done"
       \/ e \notin Obj /\ d + 1 # Size(T) /\ p = "visit"
  BY <1>6 DEF p
<1>11. d + 1 # Size(T) => d + 1 \in DOMAIN T
  BY <1>4, <1>5
<1>12. Scanned(t, g, d)
  <2>1. \/ e \in Obj /\ Lands(t, "meta", g, d + 1, e, th[t].md) /\ Same(t)
        \/ e \notin Obj /\ d + 1 = Size(T) /\ Ends(t) /\ Same(t)
        \/ /\ e \notin Obj /\ d + 1 \in DOMAIN T
           /\ Lands(t, "visit", g, d + 1, e, th[t].md) /\ Same(t)
    BY <1>8, <1>9, <1>10, <1>11
  <2>2. /\ g = (IF At(t, "range") THEN Len(tabs) ELSE th[t].tab)
        /\ d = (IF At(t, "range") THEN 0 ELSE th[t].d)
    BY DEF g, d
  <2>3. QED
    BY <1>3, <1>5, <2>1, <2>2 DEF Scanned, T, e
<1>13. QED
  BY <1>1, <1>2, <1>7, <1>12

\* The load of the metadata.
Looks(t) == (Kind(t) = "Load" => hasMeta) /\ (Kind(t) \in Ranges => th[t].has)
MetaSeen(t) == IF Looks(t) THEN meta[th[t].ent] ELSE Nil

\* What LoadMeta does.
LEMMA LoadMetaEffect ==
    ASSUME ShapeInv, NEW t \in Call, LoadMeta(t)
    PROVE  /\ UNCHANGED <<table, entry, limits, mu, now, op>> /\ th[t].pc = "meta"
           /\ Kind(t) \in Viewers
           /\ Lands(t, IF MetaSeen(t) = Nil THEN "val" ELSE "limit",
                    th[t].tab, th[t].d, th[t].ent, MetaSeen(t))
           /\ Same(t)
<1>1. HasLocals(t) /\ KindOK(t) /\ th[t].pc = "meta"
  BY CallFacts DEF LoadMeta, At
<1>2. Kind(t) \in Viewers
  BY <1>1 DEF KindOK, Viewing
<1> DEFINE p == IF MetaSeen(t) = Nil THEN "val" ELSE "limit"
           m == MetaSeen(t)
<1>3. (CASE Kind(t) = "Load" -> hasMeta [] Kind(t) \in Ranges -> th[t].has [] OTHER -> TRUE)
      <=> Looks(t)
  BY DEF Looks, Ranges
<1>4. /\ UNCHANGED <<table, entry, limits, mu, now, op>>
      /\ Set(t, [pc |-> p, md |-> m])
  BY <1>3 DEF LoadMeta, MetaSeen
<1>5. p # "done"
  OBVIOUS
<1> HIDE DEF p, m
<1>6. Lands(t, p, th[t].tab, th[t].d, th[t].ent, m) /\ Same(t)
  BY <1>1, <1>4, <1>5 DEF HasLocals, Set, With, Tidy, Lands, Same, Moved, Fields
<1>7. QED
  BY <1>1, <1>2, <1>4, <1>6 DEF p, m

\* After an entry Range goes on with the next slot, if there is one.
Continues(t) ==
    LET T == tabs[th[t].tab] IN
    /\ th[t].tab \in DOMAIN tabs /\ T \in Tables
    /\ \/ th[t].d = Size(T) /\ Ends(t)
       \/ /\ th[t].d \in DOMAIN T
          /\ Lands(t, "visit", th[t].tab, th[t].d, th[t].ent, th[t].md)

\* NextSlot is one of the two.
LEMMA NextSlotIs ==
    ASSUME ShapeInv, NEW t \in Call, th[t].pc \in Viewing, Kind(t) \in Ranges
    PROVE  LET T == tabs[th[t].tab] IN
           /\ th[t].tab \in DOMAIN tabs /\ T \in Tables
           /\ \/ th[t].d = Size(T) /\ NextSlot(t) = "done"
              \/ th[t].d \in DOMAIN T /\ NextSlot(t) = "visit"
<1> DEFINE T == tabs[th[t].tab]
<1>1. HoldsOK(t) /\ LocalTypes(t)
  BY CallFacts
<1>2. th[t].tab \in DOMAIN tabs /\ th[t].d - 1 \in DOMAIN T /\ th[t].d \in Nat
  BY <1>1 DEF HoldsOK, LocalTypes
<1>3. T \in Tables
  BY <1>2, CurrentOK
<1>4. Size(T) \in Nat \ {0} /\ DOMAIN T = 0..(Size(T) - 1)
  BY <1>3, TableSize
<1>5. th[t].d = Size(T) \/ (th[t].d \in DOMAIN T /\ th[t].d # Size(T))
  BY <1>2, <1>4
<1> HIDE DEF T
<1>6. NextSlot(t) = IF th[t].d = Size(T) THEN "done" ELSE "visit"
  BY DEF NextSlot, T
<1>7. QED
  BY <1>2, <1>3, <1>5, <1>6 DEF T

\* What CheckLimit does.
LEMMA CheckLimitEffect ==
    ASSUME ShapeInv, NEW t \in Call, CheckLimit(t)
    PROVE  /\ UNCHANGED <<table, entry, limits, mu, now, op>> /\ th[t].pc = "limit"
           /\ Kind(t) \in Viewers
           /\ \/ /\ Kind(t) = "Load" /\ Expired(th[t].md, now) /\ Ends(t)
                 /\ th'[t].res = Absent /\ th'[t].word = th[t].word /\ th'[t].seen = th[t].seen
              \/ /\ Kind(t) = "Load" /\ ~Expired(th[t].md, now)
                 /\ Goes(t, IF op[th[t].md].hits > 0 THEN "consume" ELSE "val")
              \/ /\ Kind(t) \in Ranges /\ DeadForView(th[t].md, th[t].start)
                 /\ Continues(t) /\ Same(t)
              \/ /\ Kind(t) \in Ranges /\ ~DeadForView(th[t].md, th[t].start) /\ Goes(t, "val")
              \/ /\ Kind(t) \notin Ranges \cup {"Load"} /\ DeadForView(th[t].md, now)
                 /\ Missed(t)
              \/ /\ Kind(t) \notin Ranges \cup {"Load"} /\ ~DeadForView(th[t].md, now)
                 /\ Goes(t, "val")
<1>1. HasLocals(t) /\ KindOK(t) /\ th[t].pc = "limit"
  BY CallFacts DEF CheckLimit, At
<1>2. Kind(t) \in Viewers /\ UNCHANGED <<table, entry, limits, mu, now, op>>
  BY <1>1 DEF KindOK, Viewing, CheckLimit
<1>3. CASE Kind(t) = "Load" /\ Expired(th[t].md, now) /\ Return(t, Absent)
  BY <1>1, <1>2, <1>3, ReturnEnds
<1>4. CASE /\ Kind(t) = "Load" /\ ~Expired(th[t].md, now)
           /\ Goto(t, IF op[th[t].md].hits > 0 THEN "consume" ELSE "val")
  BY <1>1, <1>2, <1>4, GotoGoes
<1>5. CASE /\ Kind(t) \in Ranges /\ DeadForView(th[t].md, th[t].start) /\ Goto(t, NextSlot(t))
  <2>1. th[t].pc \in Viewing
    BY <1>1 DEF Viewing
  <2>2. Continues(t) /\ Same(t)
    BY <1>1, <1>5, <2>1, NextSlotIs, GotoGoes, GotoEnds DEF Continues, Goes
  <2>3. QED
    BY <1>1, <1>2, <1>5, <2>2
<1>6. CASE Kind(t) \in Ranges /\ ~DeadForView(th[t].md, th[t].start) /\ Goto(t, "val")
  BY <1>1, <1>2, <1>6, GotoGoes
<1>7. CASE Kind(t) \notin Ranges \cup {"Load"} /\ DeadForView(th[t].md, now) /\ Miss(t)
  BY <1>1, <1>2, <1>7, MissEffect
<1>8. CASE Kind(t) \notin Ranges \cup {"Load"} /\ ~DeadForView(th[t].md, now) /\ Goto(t, "val")
  BY <1>1, <1>2, <1>8, GotoGoes
<1>9. QED
  BY <1>3, <1>4, <1>5, <1>6, <1>7, <1>8 DEF CheckLimit

\* What ConsumeHit does.
LEMMA ConsumeHitEffect ==
    ASSUME ShapeInv, NEW t \in Call, ConsumeHit(t)
    PROVE  /\ UNCHANGED <<table, entry, exp, hasMeta, mu, now, op>> /\ th[t].pc = "consume"
           /\ Kind(t) = "Load" /\ th[t].md \in Obj
           /\ hits' = [hits EXCEPT ![th[t].md] = @ - 1] /\ hits' \in [Obj -> Int]
           /\ \/ hits[th[t].md] - 1 >= 0 /\ Goes(t, "val")
              \/ /\ hits[th[t].md] - 1 < 0 /\ Ends(t) /\ th'[t].res = Absent
                 /\ th'[t].word = th[t].word /\ th'[t].seen = th[t].seen
<1>1. HasLocals(t) /\ KindOK(t) /\ LocalTypes(t) /\ HoldsOK(t) /\ th[t].pc = "consume"
  BY CallFacts DEF ConsumeHit, At
<1>2. Kind(t) = "Load" /\ th[t].md \in Obj
  BY <1>1 DEF KindOK, LocalTypes, HoldsOK
<1>3. hits \in [Obj -> Int]
  BY DEF ShapeInv, StateTypes
<1>4. /\ hits' = [hits EXCEPT ![th[t].md] = @ - 1]
      /\ UNCHANGED <<table, entry, exp, hasMeta, mu, now, op>>
  BY DEF ConsumeHit
<1>5. hits' \in [Obj -> Int] /\ hits[th[t].md] \in Int
  BY <1>2, <1>3, <1>4
<1>6. IF hits[th[t].md] - 1 < 0 THEN Return(t, Absent) ELSE Goto(t, "val")
  BY DEF ConsumeHit
<1>7. CASE hits[th[t].md] - 1 < 0
  BY <1>1, <1>2, <1>4, <1>5, <1>6, <1>7, ReturnEnds
<1>8. CASE ~(hits[th[t].md] - 1 < 0)
  <2>1. hits[th[t].md] - 1 >= 0
    BY <1>5, <1>8
  <2>2. QED
    BY <1>1, <1>2, <1>4, <1>5, <1>6, <1>8, <2>1, GotoGoes
<1>9. QED
  BY <1>7, <1>8

\* What LoadVal does.
LEMMA LoadValEffect ==
    ASSUME ShapeInv, NEW t \in Call, LoadVal(t)
    PROVE  /\ UNCHANGED <<table, entry, limits, mu, now, op>> /\ th[t].pc = "val"
           /\ Kind(t) \in Viewers /\ val[th[t].ent] \in Obj
           /\ \/ /\ Kind(t) \in Ranges /\ Continues(t)
                 /\ th'[t].seen = Append(th[t].seen, <<KeyOf(th[t].ent), op[val[th[t].ent]].val>>)
                 /\ th'[t].word = th[t].word /\ th'[t].res = th[t].res
              \/ /\ Kind(t) \notin Ranges /\ Ends(t)
                 /\ th'[t].word = val[th[t].ent] /\ th'[t].seen = th[t].seen
                 /\ th'[t].res = Answer(IF Kind(t) = "Has" THEN Nil
                                        ELSE op[val[th[t].ent]].val, TRUE)
<1> DEFINE w == val[th[t].ent]
           x == <<KeyOf(th[t].ent), op[w].val>>
           r == Answer(IF Kind(t) = "Has" THEN Nil ELSE op[w].val, TRUE)
           s == Append(th[t].seen, x)
           p == NextSlot(t)
<1>1. HasLocals(t) /\ KindOK(t) /\ HoldsOK(t) /\ th[t].pc = "val" /\ th[t].pc \in Viewing
  BY CallFacts DEF LoadVal, At, Viewing
<1>2. Kind(t) \in Viewers
  BY <1>1 DEF KindOK
<1>3. w \in Obj
  BY <1>1 DEF HoldsOK, ShapeInv, StateTypes
<1>4. /\ UNCHANGED <<table, entry, limits, mu, now, op>>
      /\ IF Kind(t) \in Ranges THEN Set(t, [pc |-> p, seen |-> s])
         ELSE Set(t, [pc |-> "done", word |-> w, res |-> r])
  BY DEF LoadVal
<1>5. CASE Kind(t) \in Ranges
  <2>1. th[t].tab \in DOMAIN tabs /\ tabs[th[t].tab] \in Tables
        /\ \/ th[t].d = Size(tabs[th[t].tab]) /\ p = "done"
           \/ th[t].d \in DOMAIN tabs[th[t].tab] /\ p = "visit"
    BY <1>1, <1>5, NextSlotIs
  <2> HIDE DEF p, s
  <2>2. ASSUME p = "done" PROVE Ends(t) /\ th'[t].seen = s /\ th'[t].word = th[t].word
                                /\ th'[t].res = th[t].res
    <3>1. Set(t, [pc |-> "done", seen |-> s])
      BY <1>4, <1>5, <2>2
    <3>2. HasLocals(t)
      BY <1>1
    <3>3. QED
      BY ONLY <3>1, <3>2 DEF HasLocals, Set, With, Tidy, Ends, Moved, Fields
  <2>3. ASSUME p = "visit"
        PROVE  /\ Lands(t, "visit", th[t].tab, th[t].d, th[t].ent, th[t].md)
               /\ th'[t].seen = s /\ th'[t].word = th[t].word /\ th'[t].res = th[t].res
    BY <1>1, <1>4, <1>5, <2>3 DEF HasLocals, Set, With, Tidy, Lands, Moved, Fields
  <2>4. Continues(t)
    BY <2>1, <2>2, <2>3 DEF Continues
  <2>5. th'[t].seen = s /\ th'[t].word = th[t].word /\ th'[t].res = th[t].res
    BY <2>1, <2>2, <2>3
  <2>6. QED
    BY <1>1, <1>2, <1>3, <1>4, <1>5, <2>4, <2>5 DEF s
<1>6. CASE Kind(t) \notin Ranges
  <2> HIDE DEF w, r
  <2>1. Ends(t) /\ th'[t].word = w /\ th'[t].seen = th[t].seen /\ th'[t].res = r
    <3>1. Set(t, [pc |-> "done", word |-> w, res |-> r])
      BY <1>4, <1>6
    <3>2. HasLocals(t)
      BY <1>1
    <3>3. QED
      BY ONLY <3>1, <3>2 DEF HasLocals, Set, With, Tidy, Ends, Moved, Fields
  <2>2. QED
    BY <1>1, <1>2, <1>3, <1>4, <1>6, <2>1 DEF w, r
<1>7. QED
  BY <1>5, <1>6

-------------------------------------------------------------------------------
\* A new table, and an edit of the current one.
NewTable(N) ==
    /\ tabs' = Append(tabs, N)
    /\ Sound(KeyIn, N) /\ cnt' = [live |-> Live(N), tomb |-> Tombstones(N)]
EditTable(U) ==
    /\ tabs' = [tabs EXCEPT ![Len(tabs)] = U]
    /\ Sound(KeyIn, U) /\ cnt' = [live |-> Live(U), tomb |-> Tombstones(U)]
    /\ DOMAIN U = DOMAIN Current

\* They leave the tables before the current one alone.
LEMMA AppendFacts ==
    ASSUME ShapeInv, NEW N, NewTable(N)
    PROVE  /\ tabs' \in Seq(Tables) /\ tabs' # <<>> /\ Len(tabs') = Len(tabs) + 1
           /\ DOMAIN tabs' = DOMAIN tabs \cup {Len(tabs')} /\ Current' = N /\ tabs'[Len(tabs')] = N
           /\ (\A g \in DOMAIN tabs : tabs'[g] = tabs[g]) /\ TablesStay
<1>1. tabs \in Seq(Tables) /\ N \in Tables /\ Len(tabs) \in Nat /\ DOMAIN tabs = 1..Len(tabs)
  BY CurrentOK DEF NewTable, Sound, ShapeInv, StateTypes
<1>2. tabs' = Append(tabs, N)
  BY DEF NewTable
<1>3. /\ tabs' \in Seq(Tables) /\ Len(tabs') = Len(tabs) + 1 /\ tabs'[Len(tabs')] = N
      /\ \A g \in 1..Len(tabs) : tabs'[g] = tabs[g]
  BY <1>1, <1>2
<1>4. DOMAIN tabs' = 1..Len(tabs')
  BY <1>3
<1>5. DOMAIN tabs' = DOMAIN tabs \cup {Len(tabs')} /\ tabs' # <<>>
  BY <1>1, <1>3, <1>4
<1>6. Current' = N
  BY <1>3 DEF Current
<1>7. QED
  BY <1>1, <1>3, <1>5, <1>6 DEF TablesStay

\* r is s with U as the member at g.
PutAt(s, g, U, r) ==
    /\ r \in Seq(Tables) /\ Len(r) = Len(s) /\ r # <<>> /\ DOMAIN r = DOMAIN s
    /\ r[g] = U /\ \A h \in 1..Len(s) : h # g => r[h] = s[h]

\* Replacing one member of a sequence.
LEMMA SeqEdit ==
    ASSUME NEW s \in Seq(Tables), NEW g \in 1..Len(s), NEW U \in Tables
    PROVE  PutAt(s, g, U, Put(s, g, U))
<1> DEFINE r == Put(s, g, U)
<1>1. r = [s EXCEPT ![g] = U] /\ Len(s) \in Nat /\ DOMAIN s = 1..Len(s)
  BY DEF Put
<1>2. r \in Seq(Tables) /\ Len(r) = Len(s) /\ DOMAIN r = DOMAIN s
  BY <1>1
<1>3. r[g] = U /\ \A h \in 1..Len(s) : h # g => r[h] = s[h]
  BY <1>1
<1> HIDE DEF r
<1>4. r # <<>>
  BY <1>1, <1>2
<1>5. PutAt(s, g, U, r)
  BY <1>2, <1>3, <1>4 DEF PutAt
<1>6. QED
  BY <1>5 DEF r

\* The current table stays in its place.
LEMMA EditFacts ==
    ASSUME ShapeInv, NEW U, EditTable(U)
    PROVE  /\ tabs' \in Seq(Tables) /\ tabs' # <<>> /\ Len(tabs') = Len(tabs)
           /\ DOMAIN tabs' = DOMAIN tabs /\ Current' = U /\ tabs'[Len(tabs)] = U
           /\ (\A g \in DOMAIN tabs : g # Len(tabs) => tabs'[g] = tabs[g]) /\ TablesStay
<1>0. tabs \in Seq(Tables) /\ tabs # <<>> /\ U \in Tables
  BY DEF EditTable, Sound, ShapeInv, StateTypes
<1>1. tabs \in Seq(Tables) /\ U \in Tables /\ Len(tabs) \in Nat /\ DOMAIN tabs = 1..Len(tabs)
      /\ Len(tabs) \in 1..Len(tabs)
  BY <1>0
<1>2. tabs' = [tabs EXCEPT ![Len(tabs)] = U]
  BY DEF EditTable
<1>3. /\ tabs' \in Seq(Tables) /\ Len(tabs') = Len(tabs) /\ tabs'[Len(tabs)] = U
      /\ \A g \in 1..Len(tabs) : g # Len(tabs) => tabs'[g] = tabs[g]
      /\ DOMAIN tabs' = DOMAIN tabs /\ tabs' # <<>>
  <2> DEFINE s == Put(tabs, Len(tabs), U)
  <2>1. /\ s \in Seq(Tables) /\ Len(s) = Len(tabs) /\ s[Len(tabs)] = U
        /\ \A g \in 1..Len(tabs) : g # Len(tabs) => s[g] = tabs[g]
        /\ DOMAIN s = DOMAIN tabs /\ s # <<>>
    <3>1. PutAt(tabs, Len(tabs), U, s)
      BY <1>1, SeqEdit
    <3>2. QED
      BY <3>1, Zenon DEF PutAt
  <2> HIDE DEF s
  <2>2. tabs' = s
    BY <1>2 DEF s, Put
  <2>3. QED
    BY <2>1, <2>2, Zenon
<1>5. Current' = U
  BY <1>3 DEF Current
<1>6. tabs[Len(tabs)] = Current /\ DOMAIN U = DOMAIN Current
  BY DEF Current, EditTable
<1>7. QED
  BY <1>1, <1>3, <1>5, <1>6 DEF TablesStay

\* The target of a rebuild has room for the entries and one more.
LEMMA TargetRoom ==
    ASSUME NEW slots \in Nat, NEW live \in Nat
    PROVE  LET n == TargetTypedSlots(slots, live) IN
           n \in Nat \ {0} /\ live < n /\ live + 1 < n
<1> DEFINE v == MaxInt(MinSlots, live * 2)
           q == NextPowerOfTwo(v)
<1>1. v \in Nat /\ v >= 4 /\ v >= live * 2 /\ v \in Int
  BY MinSlotsNumber DEF MaxInt
<1> HIDE DEF v
<1>2. q \in Nat /\ q >= v
  BY <1>1, NextPowerFacts
<1> HIDE DEF q
<1>3. TargetTypedSlots(slots, live) = IF q > slots THEN MaxInt(slots * 4, q) ELSE q
  BY DEF TargetTypedSlots, v, q
<1>4. MaxInt(slots * 4, q) \in Nat /\ MaxInt(slots * 4, q) >= q
  BY <1>2 DEF MaxInt
<1> DEFINE n == TargetTypedSlots(slots, live)
<1>5. n \in Nat /\ n >= q
  BY <1>2, <1>3, <1>4
<1> HIDE DEF n
<1>6. n >= 4 /\ n >= live * 2
  BY <1>1, <1>2, <1>5
<1>7. live + 1 < n
  BY <1>5, <1>6
<1>8. QED
  BY <1>5, <1>6, <1>7 DEF n

\* A rebuild installs a sound table with what was to be kept.
Rebuilt(N, kept) ==
    /\ NewTable(N) /\ EntriesOf(N) = kept
    /\ Live(N) + Tombstones(N) + 1 < Size(N)

\* That is what Install does with the result of Rehash.
LEMMA InstallRehash ==
    ASSUME ShapeInv, NEW kept, kept \subseteq EntriesOf(Current),
           Install(Rehash(Current, TargetTypedSlots(Size(Current), cnt.live), kept))
    PROVE  \E N : Rebuilt(N, kept)
<1> DEFINE n == TargetTypedSlots(Size(Current), cnt.live)
           N == Rehash(Current, n, kept)
<1>1. /\ Sound(KeyIn, Current) /\ Size(Current) \in Nat
      /\ cnt.live = Live(Current) /\ Live(Current) \in Nat
  BY CurrentOK
<1>2. n \in Nat \ {0} /\ Live(Current) < n /\ Live(Current) + 1 < n
  BY <1>1, TargetRoom
<1> HIDE DEF n
<1>3. /\ Sound(KeyIn, N) /\ Size(N) = n /\ Tombstones(N) = 0 /\ Live(N) <= Live(Current)
      /\ EntriesOf(N) = kept
  BY <1>1, <1>2, RehashSound
<1>4. Install(N)
  BY DEF n
<1> HIDE DEF N
<1>5. Live(N) \in Nat
  BY <1>3, Counts DEF Sound
<1>6. Live(N) + Tombstones(N) + 1 < Size(N)
  BY <1>1, <1>2, <1>3, <1>5
<1>7. NewTable(N)
  BY <1>3, <1>4 DEF Install, NewTable
<1>8. QED
  BY <1>3, <1>6, <1>7 DEF Rebuilt
-------------------------------------------------------------------------------
\* The effects of the steps under the mutex.  A writer locks it.
LEMMA LockEffect ==
    ASSUME ShapeInv, NEW t \in Call, Lock(t)
    PROVE  /\ UNCHANGED <<table, entry, limits, now, op>> /\ th[t].pc = "lock"
           /\ mu = Nil /\ mu' = t /\ Kind(t) \notin Readers \cup Ranges
           /\ \/ Kind(t) \in Sweepers /\ Goes(t, "rebuild")
              \/ Kind(t) \in Inserters /\ Goes(t, "grow")
              \/ /\ Kind(t) \notin Sweepers /\ Goes(t, "locked")
                 /\ Kind(t) \in Inserters =>
                       Live(Current) + Tombstones(Current) + 1 < Size(Current)
<1> DEFINE p == CASE Kind(t) \in {"Clear", "CleanupNow"} -> "rebuild"
                  [] Kind(t) \in Inserters /\ Full(Current) -> "grow"
                  [] OTHER -> "locked"
<1>1. HasLocals(t) /\ KindOK(t) /\ th[t].pc = "lock"
  BY CallFacts DEF Lock, At
<1>2. mu = Nil /\ mu' = t /\ Goto(t, p) /\ UNCHANGED <<table, entry, limits, now, op>>
  BY DEF Lock
<1>3. \/ Kind(t) \in Sweepers /\ p = "rebuild"
      \/ Kind(t) \in Inserters /\ p = "grow"
      \/ /\ Kind(t) \notin Sweepers /\ p = "locked"
         /\ Kind(t) \in Inserters => ~Full(Current)
  BY DEF Inserters, Sweepers
<1>4. p # "done"
  OBVIOUS
<1> HIDE DEF p
<1>5. Goes(t, p)
  BY <1>1, <1>2, <1>4, GotoGoes
<1>6. ~Full(Current) => Live(Current) + Tombstones(Current) + 1 < Size(Current)
  BY CurrentOK DEF Full
<1>7. QED
  BY <1>1, <1>2, <1>3, <1>5, <1>6 DEF KindOK

\* Grow installs a table with all entries.
LEMMA GrowEffect ==
    ASSUME ShapeInv, NEW t \in Call, Grow(t)
    PROVE  /\ UNCHANGED <<entry, limits, mu, now, op>> /\ th[t].pc = "grow"
           /\ Kind(t) \in Inserters /\ Goes(t, "locked")
           /\ \E N : Rebuilt(N, EntriesOf(Current))
<1>1. HasLocals(t) /\ KindOK(t) /\ th[t].pc = "grow"
  BY CallFacts DEF Grow, At
<1>2. /\ Install(Rehash(Current, TargetTypedSlots(Size(Current), cnt.live), EntriesOf(Current)))
      /\ Goto(t, "locked") /\ UNCHANGED <<entry, limits, mu, now, op>>
  BY DEF Grow
<1>3. QED
  BY <1>1, <1>2, GotoGoes, InstallRehash DEF KindOK

\* InsertEntry puts the call's entry into a free slot of the current table.
LEMMA InsertEffect ==
    ASSUME ShapeInv, NEW t \in Call, InsertEntry(t)
    PROVE  /\ UNCHANGED <<limits, now, op>> /\ th[t].pc = "locked" /\ mu' = Nil
           /\ Kind(t) \in {"Store", "LoadOrStore", "Swap", "ComputeUpdate"}
           /\ op[t].key \in Key /\ Found(t) = Nil
           /\ val' = [val EXCEPT ![t] = t] /\ meta' = [meta EXCEPT ![t] = MetaOf(t)]
           /\ Ends(t) /\ th'[t].res = Inserted(t) /\ th'[t].word = th[t].word
           /\ th'[t].seen = th[t].seen
           /\ \E i \in DOMAIN Current :
                 Current[i] \in {Nil, Tomb} /\ EditTable(Put(Current, i, t))
<1> DEFINE k == op[t].key
           i == InsertSlot(Current, k)
           U == Put(Current, i, t)
<1>1. HasLocals(t) /\ KindOK(t) /\ HoldsOK(t) /\ OpsTyped /\ th[t].pc = "locked" /\ t \in Obj
  BY CallFacts DEF InsertEntry, At
<1>2. /\ Kind(t) \in {"Store", "LoadOrStore", "Swap", "ComputeUpdate"}
      /\ LockedEntry(t) = Nil /\ val' = [val EXCEPT ![t] = t]
      /\ meta' = [meta EXCEPT ![t] = IF Limited(t) THEN t ELSE Nil]
      /\ tabs' = [tabs EXCEPT ![Len(tabs)][i] = t]
      /\ cnt' = [live |-> cnt.live + 1, tomb |-> cnt.tomb - (IF Current[i] = Tomb THEN 1 ELSE 0)]
      /\ mu' = Nil /\ Return(t, Inserted(t)) /\ UNCHANGED <<limits, now, op>>
  BY DEF InsertEntry, Unlock
<1>3. Kind(t) \in OnKey /\ Kind(t) \in Inserters
  BY <1>2 DEF OnKey, Storing, Inserters
<1>4. k \in Key /\ KeyIn[t] = k
  BY <1>1, <1>3, KeyFacts
<1>5. /\ Current \in Tables /\ Sound(KeyIn, Current) /\ Len(tabs) \in DOMAIN tabs
      /\ cnt.live = Live(Current) /\ cnt.tomb = Tombstones(Current)
  BY CurrentOK
<1>6. Live(Current) + Tombstones(Current) + 1 < Size(Current)
  BY <1>1, <1>3 DEF HoldsOK
<1>7. Found(t) = Nil
  BY <1>2, FoundIs
<1>8. ASSUME NEW j \in DOMAIN Current, Current[j] \in Obj PROVE KeyIn[Current[j]] # k
  BY <1>4, <1>7, <1>8, FoundFacts, Names
<1>9. PICK d \in DOMAIN Current : FirstAt(Current, k, {Nil, Tomb}, d)
  <2>1. PICK j \in DOMAIN Current : Current[j] = Nil
    BY <1>5 DEF Sound
  <2>2. QED
    BY <1>4, <1>5, <2>1, FirstExists
<1>10. i = ProbeSlot(Current, k, d)
  BY <1>4, <1>5, <1>9, FirstIs DEF InsertSlot
<1> HIDE DEF i, k
<1>11. i \in DOMAIN Current /\ Current[i] \in {Nil, Tomb} /\ Current[i] \notin Obj
  BY <1>4, <1>5, <1>9, <1>10, Probes, Names DEF FirstAt
<1>12. Sound(KeyIn, U)
  <2>1. \A x \in 0..(d - 1) : Current[ProbeSlot(Current, k, x)] # Nil
    BY <1>9 DEF FirstAt
  <2>2. \E j \in DOMAIN Current : j # i /\ Current[j] = Nil
    BY <1>5, <1>6, TwoEmpty
  <2>3. \A j \in DOMAIN Current : Current[j] \in Obj => KeyIn[Current[j]] # KeyIn[t]
    BY <1>4, <1>8
  <2>4. QED
    BY <1>1, <1>4, <1>5, <1>9, <1>10, <2>1, <2>2, <2>3, SoundPut
<1>13. /\ DOMAIN U = DOMAIN Current /\ Live(U) = Live(Current) + 1
       /\ Tombstones(U) = Tombstones(Current) - (IF Current[i] = Tomb THEN 1 ELSE 0)
  BY <1>1, <1>5, <1>11, CountPut, Edited DEF Cell
<1>14. tabs' = [tabs EXCEPT ![Len(tabs)] = U]
  BY <1>2 DEF U, Put, Current
<1> HIDE DEF U
<1>15. EditTable(U)
  BY <1>2, <1>5, <1>12, <1>13, <1>14 DEF EditTable
<1>16. Ends(t) /\ th'[t].res = Inserted(t) /\ th'[t].word = th[t].word /\ th'[t].seen = th[t].seen
  BY <1>1, <1>2, ReturnEnds
<1>17. meta' = [meta EXCEPT ![t] = MetaOf(t)]
  BY <1>2 DEF MetaOf
<1>18. QED
  BY <1>1, <1>2, <1>4, <1>7, <1>11, <1>15, <1>16, <1>17 DEF U, k

\* What a method decides when its key has an entry: the label it goes to and
\* its answer.
Decides(t, l, r) ==
    \/ Kind(t) = "Store" /\ l = "storeVal" /\ r = Answer(Nil, TRUE)
    \/ /\ Kind(t) = "LoadOrStore"
       /\ \/ IsLive(t) /\ l = "done" /\ r = Answer(OldValue(t), TRUE)
          \/ ~IsLive(t) /\ l = "storeVal" /\ r = Answer(op[t].val, FALSE)
    \/ Kind(t) = "Swap" /\ l = "storeVal" /\ r = Answer(OldValue(t), IsLive(t))
    \/ Kind(t) = "ComputeUpdate" /\ l = "storeVal" /\ r = Answer(op[t].val, TRUE)
    \/ Kind(t) = "ComputeDelete" /\ l = "remove" /\ r = Answer(OldValue(t), FALSE)
    \/ Kind(t) = "ComputeCancel" /\ l = "done" /\ r = Answer(OldValue(t), IsLive(t))
    \/ Kind(t) = "Delete" /\ l = "remove" /\ r = Answer(OldValue(t), IsLive(t))
    \/ /\ Kind(t) = "CompareAndSwap"
       /\ \/ OldValue(t) = op[t].old /\ l = "storeVal" /\ r = Answer(Nil, TRUE)
          \/ OldValue(t) # op[t].old /\ l = "done" /\ r = Absent
    \/ /\ Kind(t) = "CompareAndDelete"
       /\ \/ OldValue(t) = op[t].old /\ l = "remove" /\ r = Answer(Nil, TRUE)
          \/ OldValue(t) # op[t].old /\ l = "done" /\ r = Absent
Finds(t) ==
    \/ FoundStore(t) \/ FoundLoadOrStore(t) \/ FoundSwap(t) \/ FoundCompute(t)
    \/ FoundDelete(t) \/ FoundCompareAndSwap(t) \/ FoundCompareAndDelete(t)

\* The method decides, remembers the entry, and ends unless it changes it.
LEMMA FindsEffect ==
    ASSUME ShapeInv, NEW t \in Call, Finds(t)
    PROVE  /\ UNCHANGED <<table, entry, limits, now, op>> /\ th[t].pc = "locked"
           /\ op[t].key \in Key /\ Found(t) \in Obj
           /\ \E l, r :
                 /\ Decides(t, l, r)
                 /\ th'[t].word = LiveWord(t) /\ th'[t].res = r /\ th'[t].seen = th[t].seen
                 /\ \/ l = "done" /\ mu' = Nil /\ Ends(t)
                    \/ /\ l \in {"storeVal", "remove"} /\ mu' = mu
                       /\ Lands(t, l, th[t].tab, th[t].d, Found(t), th[t].md)
<1>1. PICK l, r : Decides(t, l, r) /\ Then(t, l, r)
  <2>1. CASE FoundStore(t)
    BY <2>1 DEF FoundStore, Holding, Decides
  <2>2. CASE FoundLoadOrStore(t)
    BY <2>2 DEF FoundLoadOrStore, Holding, Decides
  <2>3. CASE FoundSwap(t)
    BY <2>3 DEF FoundSwap, Holding, Decides
  <2>4. CASE FoundCompute(t)
    BY <2>4 DEF FoundCompute, Holding, Decides
  <2>5. CASE FoundDelete(t)
    BY <2>5 DEF FoundDelete, Holding, Decides
  <2>6. CASE FoundCompareAndSwap(t)
    BY <2>6 DEF FoundCompareAndSwap, Holding, Decides
  <2>7. CASE FoundCompareAndDelete(t)
    BY <2>7 DEF FoundCompareAndDelete, Holding, Decides
  <2>8. QED
    BY <2>1, <2>2, <2>3, <2>4, <2>5, <2>6, <2>7 DEF Finds
<1>2. At(t, "locked") /\ LockedEntry(t) # Nil
  BY DEF Finds, FoundStore, FoundLoadOrStore, FoundSwap, FoundCompute, FoundDelete,
         FoundCompareAndSwap, FoundCompareAndDelete, Holding
<1>3. Kind(t) \in OnKey
  BY <1>1 DEF Decides, OnKey, Storing
<1>4. HasLocals(t) /\ OpsTyped
  BY CallFacts
<1>5. op[t].key \in Key
  BY <1>3, <1>4, KeyFacts
<1>6. Found(t) \in Obj
  BY <1>2, <1>5, FoundIs, FoundFacts
<1>7. l \in {"done", "storeVal", "remove"}
  BY <1>1 DEF Decides
<1> DEFINE e == LockedEntry(t)
           w == LiveWord(t)
<1>8. /\ Set(t, [pc |-> l, ent |-> e, word |-> w, res |-> r])
      /\ mu' = (IF l = "done" THEN Nil ELSE mu)
      /\ UNCHANGED <<table, entry, limits, now, op>>
  BY <1>1 DEF Then
<1> HIDE DEF e, w
<1>9. ASSUME l = "done"
      PROVE  Ends(t) /\ th'[t].word = w /\ th'[t].res = r /\ th'[t].seen = th[t].seen
  <2>1. Set(t, [pc |-> "done", ent |-> e, word |-> w, res |-> r])
    BY <1>8, <1>9
  <2>2. QED
    BY ONLY <2>1, <1>4 DEF HasLocals, Set, With, Tidy, Ends, Moved, Fields
<1>10. ASSUME l # "done"
       PROVE  /\ Lands(t, l, th[t].tab, th[t].d, e, th[t].md)
              /\ th'[t].word = w /\ th'[t].res = r /\ th'[t].seen = th[t].seen
  BY ONLY <1>8, <1>4, <1>10 DEF HasLocals, Set, With, Tidy, Lands, Moved, Fields
<1>11. e = Found(t)
  BY FoundIs DEF e
<1>12. \/ l = "done" /\ mu' = Nil /\ Ends(t)
       \/ /\ l \in {"storeVal", "remove"} /\ mu' = mu
          /\ Lands(t, l, th[t].tab, th[t].d, Found(t), th[t].md)
  BY <1>7, <1>8, <1>9, <1>10, <1>11
<1>13. th'[t].word = LiveWord(t) /\ th'[t].res = r /\ th'[t].seen = th[t].seen
  BY <1>9, <1>10 DEF w
<1>14. QED
  BY <1>1, <1>2, <1>5, <1>6, <1>8, <1>12, <1>13 DEF At

\* The methods that leave an absent key alone.
LEMMA LockedAbsentEffect ==
    ASSUME ShapeInv, NEW t \in Call, LockedAbsent(t)
    PROVE  /\ UNCHANGED <<table, entry, limits, now, op>> /\ th[t].pc = "locked"
           /\ op[t].key \in Key /\ Found(t) = Nil
           /\ Kind(t) \in {"Delete", "CompareAndSwap", "CompareAndDelete", "ComputeDelete",
                           "ComputeCancel"}
           /\ mu' = Nil /\ Ends(t) /\ th'[t].res = Absent
           /\ th'[t].word = th[t].word /\ th'[t].seen = th[t].seen
<1>1. HasLocals(t) /\ KindOK(t) /\ OpsTyped /\ th[t].pc = "locked" /\ op[t] \in Operations
  BY CallFacts DEF LockedAbsent, At
<1>2. /\ Kind(t) \notin {"Store", "LoadOrStore", "Swap", "ComputeUpdate", "ComputePanic"}
      /\ LockedEntry(t) = Nil /\ mu' = Nil /\ Return(t, Absent)
      /\ UNCHANGED <<table, entry, limits, now, op>>
  BY DEF LockedAbsent, Unlock
<1>3. Kind(t) \in OnKey \cup Ranges \cup {"Clear", "CleanupNow"}
  BY <1>1 DEF Operations, Kind
<1>4. Kind(t) \in {"Delete", "CompareAndSwap", "CompareAndDelete", "ComputeDelete",
                   "ComputeCancel"}
  BY <1>1, <1>2, <1>3 DEF KindOK, OnKey, Storing, Sweepers
<1>5. op[t].key \in Key
  BY <1>1, <1>4, KeyFacts DEF OnKey, Storing
<1>6. QED
  BY <1>1, <1>2, <1>4, <1>5, FoundIs, ReturnEnds

\* A panic keeps the mutex.
LEMMA PanicEffect ==
    ASSUME ShapeInv, NEW t \in Call, ComputePanics(t)
    PROVE  /\ UNCHANGED <<table, entry, limits, mu, now, op>> /\ th[t].pc = "locked"
           /\ Kind(t) = "ComputePanic" /\ Goes(t, "panic")
  BY CallFacts, GotoGoes DEF ComputePanics, At

\* The two stores to an entry.
LEMMA StoreValEffect ==
    ASSUME ShapeInv, NEW t \in Call, StoreVal(t)
    PROVE  /\ UNCHANGED <<table, meta, limits, mu, now, op>> /\ th[t].pc = "storeVal"
           /\ th[t].ent \in Obj /\ th[t].ent = Found(t) /\ Kind(t) \in Storing
           /\ val' = [val EXCEPT ![th[t].ent] = t] /\ Goes(t, "storeMeta")
  BY CallFacts, GotoGoes DEF StoreVal, At, HoldsOK, KindOK, Working

\* The metadata follows.
LEMMA StoreMetaEffect ==
    ASSUME ShapeInv, NEW t \in Call, StoreMeta(t)
    PROVE  /\ UNCHANGED <<table, val, limits, now, op>> /\ th[t].pc = "storeMeta" /\ mu' = Nil
           /\ th[t].ent \in Obj /\ th[t].ent = Found(t) /\ Kind(t) \in Storing
           /\ meta' = [meta EXCEPT ![th[t].ent] = MetaOf(t)]
           /\ Ends(t) /\ Same(t)
<1>1. /\ HasLocals(t) /\ th[t].pc = "storeMeta"
      /\ th[t].ent \in Obj /\ th[t].ent = Found(t) /\ Kind(t) \in Storing
  BY CallFacts DEF StoreMeta, At, HoldsOK, KindOK, Working
<1>2. /\ UNCHANGED <<table, val, limits, now, op>> /\ mu' = Nil /\ Return(t, th[t].res)
      /\ meta' = [meta EXCEPT ![th[t].ent] = MetaOf(t)]
  BY DEF StoreMeta, Unlock, MetaOf
<1>3. Ends(t) /\ Same(t)
  BY <1>1, <1>2, ReturnEnds DEF Same
<1>4. QED
  BY <1>1, <1>2, <1>3

\* RemoveEntry puts a tombstone in the place of the entry.
LEMMA RemoveEffect ==
    ASSUME ShapeInv, NEW t \in Call, RemoveEntry(t)
    PROVE  /\ UNCHANGED <<entry, limits, now, op>> /\ th[t].pc = "remove" /\ mu' = Nil
           /\ th[t].ent \in Obj /\ th[t].ent = Found(t) /\ Kind(t) \in Removing
           /\ op[t].key \in Key /\ Ends(t) /\ Same(t)
           /\ \E i \in DOMAIN Current :
                 Current[i] = Found(t) /\ EditTable(Put(Current, i, Tomb))
<1> DEFINE i == StopSlot(Current, op[t].key)
           U == Put(Current, i, Tomb)
<1>1. /\ HasLocals(t) /\ th[t].pc = "remove" /\ OpsTyped
      /\ th[t].ent \in Obj /\ th[t].ent = Found(t) /\ Kind(t) \in Removing
  BY CallFacts DEF RemoveEntry, At, HoldsOK, KindOK, Working
<1>2. /\ UNCHANGED <<entry, limits, now, op>> /\ mu' = Nil /\ Return(t, th[t].res)
      /\ tabs' = [tabs EXCEPT ![Len(tabs)][i] = Tomb]
      /\ cnt' = [live |-> cnt.live - 1, tomb |-> cnt.tomb + 1]
  BY DEF RemoveEntry, Unlock
<1>3. op[t].key \in Key
  BY <1>1, KeyFacts DEF OnKey, Removing
<1>4. i \in DOMAIN Current /\ Current[i] = Found(t)
  BY <1>3, FoundFacts
<1> HIDE DEF i
<1>5. /\ Current \in Tables /\ Sound(KeyIn, Current) /\ Len(tabs) \in DOMAIN tabs
      /\ cnt.live = Live(Current) /\ cnt.tomb = Tombstones(Current)
  BY CurrentOK
<1>6. Sound(KeyIn, U) /\ Live(U) = Live(Current) - 1 /\ Tombstones(U) = Tombstones(Current) + 1
  BY <1>1, <1>4, <1>5, SoundTomb, CountTomb
<1>7. DOMAIN U = DOMAIN Current
  BY <1>4, <1>5, Edited DEF Cell
<1>8. tabs' = [tabs EXCEPT ![Len(tabs)] = U]
  BY <1>2 DEF U, Put, Current
<1> HIDE DEF U
<1>9. EditTable(U)
  BY <1>2, <1>5, <1>6, <1>7, <1>8 DEF EditTable
<1>10. Ends(t) /\ Same(t)
  BY <1>1, <1>2, ReturnEnds DEF Same
<1>11. QED
  BY <1>1, <1>2, <1>3, <1>4, <1>9, <1>10 DEF U

\* CleanupNow keeps the entries that are not dead, in a new table or the old.
LEMMA CleanupEffect ==
    ASSUME ShapeInv, NEW t \in Call, CleanupNow(t)
    PROVE  /\ UNCHANGED <<entry, limits, now, op>> /\ th[t].pc = "rebuild" /\ mu' = Nil
           /\ Kind(t) = "CleanupNow" /\ Ends(t) /\ th'[t].res = Answer(Nil, TRUE)
           /\ th'[t].word = th[t].word /\ th'[t].seen = th[t].seen
           /\ \/ \E N : Rebuilt(N, {e \in EntriesOf(Current) : ~Dead(e, th[t].start)})
              \/ UNCHANGED table
<1>1. HasLocals(t) /\ th[t].pc = "rebuild"
  BY CallFacts DEF CleanupNow, At
<1>2. /\ Kind(t) = "CleanupNow" /\ mu' = Nil /\ Return(t, Answer(Nil, TRUE))
      /\ UNCHANGED <<entry, limits, now, op>>
      /\ \/ Install(Rehash(Current, TargetTypedSlots(Size(Current), cnt.live),
                           {e \in EntriesOf(Current) : ~Dead(e, th[t].start)}))
         \/ UNCHANGED table
  BY DEF CleanupNow, Unlock
<1> DEFINE kept == {e \in EntriesOf(Current) : ~Dead(e, th[t].start)}
<1>3. kept \subseteq EntriesOf(Current)
  OBVIOUS
<1> HIDE DEF kept
<1>4. (\E N : Rebuilt(N, kept)) \/ UNCHANGED table
  BY <1>2, <1>3, InstallRehash DEF kept
<1>5. Ends(t) /\ th'[t].res = Answer(Nil, TRUE) /\ th'[t].word = th[t].word
      /\ th'[t].seen = th[t].seen
  BY <1>1, <1>2, ReturnEnds
<1>6. QED
  BY <1>1, <1>2, <1>4, <1>5 DEF kept

\* Clear installs an empty table.
LEMMA ClearEffect ==
    ASSUME ShapeInv, NEW t \in Call, Clear(t)
    PROVE  /\ UNCHANGED <<entry, limits, now, op>> /\ th[t].pc = "rebuild" /\ mu' = Nil
           /\ Kind(t) = "Clear" /\ Ends(t) /\ th'[t].res = Answer(Nil, TRUE)
           /\ th'[t].word = th[t].word /\ th'[t].seen = th[t].seen
           /\ \E N : NewTable(N) /\ \A i \in DOMAIN N : N[i] = Nil
<1>1. HasLocals(t) /\ th[t].pc = "rebuild"
  BY CallFacts DEF Clear, At
<1>2. /\ Kind(t) = "Clear" /\ mu' = Nil /\ Return(t, Answer(Nil, TRUE))
      /\ UNCHANGED <<entry, limits, now, op>> /\ Install(Empty(Size(Current)))
  BY DEF Clear, Unlock
<1> DEFINE N == Empty(Size(Current))
<1>3. Size(Current) \in Nat \ {0}
  BY CurrentOK
<1>4. Sound(KeyIn, N) /\ \A i \in DOMAIN N : N[i] = Nil
  BY <1>3, SoundEmpty
<1> HIDE DEF N
<1>5. TombSlots(N) = {}
  BY <1>4, Names DEF TombSlots
<1>6. Tombstones(N) = 0
  BY <1>4, <1>5, Counts, FS_EmptySet DEF Sound
<1>7. NewTable(N)
  BY <1>2, <1>4, <1>6 DEF NewTable, Install, N
<1>8. Ends(t) /\ th'[t].res = Answer(Nil, TRUE) /\ th'[t].word = th[t].word
      /\ th'[t].seen = th[t].seen
  BY <1>1, <1>2, ReturnEnds
<1>9. QED
  BY <1>1, <1>2, <1>4, <1>7, <1>8

-------------------------------------------------------------------------------
\* The steps keep the invariant.  What a call holds that reads the map.
LooksAt(t) ==
    LET l == th[t] IN
    /\ l.pc \in {"walk", "visit"} => l.tab \in DOMAIN tabs /\ l.d \in DOMAIN tabs[l.tab]
    /\ l.pc \in Viewing => l.ent \in Obj /\ val[l.ent] # Nil
    /\ l.pc \in Viewing /\ Kind(t) \notin Ranges => KeyOf(l.ent) = op[t].key
    /\ l.pc \in Viewing /\ Kind(t) \in Ranges =>
          l.tab \in DOMAIN tabs /\ l.d - 1 \in DOMAIN tabs[l.tab]
    /\ l.pc \in {"limit", "consume"} => l.md # Nil

\* A step of a call that neither has nor takes the mutex.
LEMMA ReaderStep ==
    ASSUME ShapeInv, NEW t \in Call, Moved(t), UNCHANGED <<table, entry, mu, now, op>>,
           hits' \in [Obj -> Int], exp' \in [Obj -> Nat], hasMeta' \in BOOLEAN,
           th[t].pc \notin Held \cup {"done"}, th'[t].pc \notin Held,
           (LocalTypes(t) /\ KindOK(t) /\ LooksAt(t))'
    PROVE  ShapeInv'
<1>1. mu # t
  BY CallFacts DEF HoldsOK
<1>2. HoldsOK(t)'
  <2>1. LooksAt(t)' /\ mu' # t /\ th'[t].pc \notin Held
    BY <1>1
  <2>2. th'[t].pc \notin Working /\ th'[t].pc # "locked"
    BY <2>1 DEF Held
  <2>3. QED
    BY <2>1, <2>2 DEF HoldsOK, LooksAt
<1>3. Beside(t)
  BY DEF Beside, TablesStay, table, entry
<1>4. QED
  BY <1>2, <1>3, QuietStep

\* The types of the shared limits.
LEMMA LimitTypes ==
    ASSUME ShapeInv
    PROVE  hits \in [Obj -> Int] /\ exp \in [Obj -> Nat] /\ hasMeta \in BOOLEAN
  BY DEF ShapeInv, StateTypes

\* Invoke.
LEMMA ShapeInvoke == ASSUME ShapeInv, NEW t \in Call, Invoke(t) PROVE ShapeInv'
<1>1. /\ Moved(t) /\ Same(t)
      /\ th'[t].pc = (IF Kind(t) \in Finders THEN "find"
                      ELSE IF Kind(t) \in Ranges THEN "range" ELSE "lock")
      /\ th'[t].tab = th[t].tab /\ th'[t].d = th[t].d /\ th'[t].ent = th[t].ent
      /\ th'[t].md = th[t].md /\ th'[t].start = now
      /\ UNCHANGED <<table, entry, hits, mu, now, op>>
      /\ exp' = [exp EXCEPT ![t] = IF op[t].ttl > 0 THEN now + op[t].ttl ELSE 0]
      /\ hasMeta' = (hasMeta \/ Limited(t))
  BY InvokeEffect
<1>2. LocalTypes(t) /\ th[t].pc = "call" /\ now \in Nat /\ op[t] \in Operations /\ t \in Obj
  BY CallFacts DEF Invoke, At
<1>3. op[t].ttl \in Nat
  BY <1>2 DEF Operations
<1>4. exp' \in [Obj -> Nat]
  BY <1>1, <1>2, <1>3, LimitTypes
<1>5. hits' \in [Obj -> Int] /\ hasMeta' \in BOOLEAN
  BY <1>1, LimitTypes
<1>6. LocalTypes(t)'
  BY <1>1, <1>2 DEF LocalTypes, Same, Moved
<1>7. KindOK(t)'
  BY <1>1 DEF KindOK, Kind, Viewing, Finders, Readers
<1>8. LooksAt(t)'
  BY <1>1 DEF LooksAt, Viewing
<1>9. th[t].pc \notin Held \cup {"done"} /\ th'[t].pc \notin Held
  BY <1>1, <1>2 DEF Held, Working
<1>10. UNCHANGED <<table, entry, mu, now, op>>
  BY <1>1
<1> HIDE DEF LocalTypes
<1>11. QED
  BY <1>1, <1>4, <1>5, <1>6, <1>7, <1>8, <1>9, <1>10, ReaderStep

\* A call that ends without the mutex.
LEMMA ReaderEnds ==
    ASSUME ShapeInv, NEW t \in Call, Ends(t), th'[t].word \in Obj \cup {Nil},
           UNCHANGED <<table, entry, mu, now, op>>,
           hits' \in [Obj -> Int], exp' \in [Obj -> Nat], hasMeta' \in BOOLEAN,
           th[t].pc \notin Held \cup {"done"}
    PROVE  ShapeInv'
<1>1. LocalTypes(t)
  BY CallFacts
<1>2. Moved(t) /\ th'[t].pc = "done" /\ now' = now
  BY DEF Ends
<1>3. LocalTypes(t)'
  BY <1>1, <1>2 DEF LocalTypes, Ends, Moved
<1>4. KindOK(t)' /\ LooksAt(t)' /\ th'[t].pc \notin Held
  BY <1>2 DEF KindOK, LooksAt, Held, Working, Viewing
<1>5. QED
  BY <1>2, <1>3, <1>4, ReaderStep

\* A call that goes on without the mutex.
LEMMA ReaderLands ==
    ASSUME ShapeInv, NEW t \in Call, NEW p, NEW g \in Nat, NEW x \in Nat, NEW e,
           NEW m \in Obj \cup {Nil},
           Lands(t, p, g, x, e, m), th'[t].word = th[t].word,
           UNCHANGED <<table, entry, mu, now, op>>,
           hits' \in [Obj -> Int], exp' \in [Obj -> Nat], hasMeta' \in BOOLEAN,
           th[t].pc \notin Held \cup {"done"}, p \notin Held,
           (KindOK(t) /\ LooksAt(t))'
    PROVE  ShapeInv'
<1>1. LocalTypes(t)
  BY CallFacts
<1>2. Moved(t) /\ th'[t].pc = p /\ now' = now
  BY DEF Lands
<1>3. LocalTypes(t)'
  BY <1>1, <1>2 DEF LocalTypes, Lands, Moved
<1>4. QED
  BY <1>2, <1>3, ReaderStep

\* A lookup that misses.
LEMMA ShapeMissed ==
    ASSUME ShapeInv, NEW t \in Call, Missed(t), Kind(t) \in Finders,
           UNCHANGED <<table, entry, limits, mu, now, op>>, th[t].pc \notin Held \cup {"done"}
    PROVE  ShapeInv'
<1>1. /\ hits' \in [Obj -> Int] /\ exp' \in [Obj -> Nat] /\ hasMeta' \in BOOLEAN
      /\ LocalTypes(t) /\ UNCHANGED <<table, entry, mu, now, op>>
  BY CallFacts, LimitTypes DEF limits
<1>2. CASE Goes(t, "lock") /\ Kind(t) = "LoadOrStore"
  <2>1. KindOK(t)' /\ LooksAt(t)'
    BY <1>1, <1>2 DEF KindOK, LooksAt, Kind, Goes, Lands, Viewing, Readers, Ranges
  <2>2. "lock" \notin Held
    BY DEF Held, Working
  <2>3. QED
    BY <1>1, <1>2, <2>1, <2>2, ReaderLands DEF Goes, Same, LocalTypes
<1>3. CASE Ends(t) /\ th'[t].word = th[t].word
  BY <1>1, <1>3, ReaderEnds DEF LocalTypes
<1>4. QED
  BY <1>2, <1>3 DEF Missed

\* Find.
LEMMA ShapeFind == ASSUME ShapeInv, NEW t \in Call, Find(t) PROVE ShapeInv'
<1>1. PICK g, d : ProbedAt(t, g, d)
  BY FindEffect
<1>2. /\ UNCHANGED <<table, entry, limits, mu, now, op>> /\ th[t].pc \in {"find", "walk"}
      /\ op[t].key \in Key /\ Kind(t) \in Finders
  BY FindEffect
<1>3. /\ hits' \in [Obj -> Int] /\ exp' \in [Obj -> Nat] /\ hasMeta' \in BOOLEAN
      /\ LocalTypes(t) /\ UNCHANGED <<table, entry, mu, now, op>>
      /\ tabs' = tabs /\ val' = val /\ op' = op
  BY <1>2, CallFacts, LimitTypes DEF limits, table, entry
<1> DEFINE T == tabs[g]
           i == ProbeSlot(T, op[t].key, d)
<1>4. g \in DOMAIN tabs /\ d \in DOMAIN T /\ T \in Tables /\ i \in DOMAIN T
  BY <1>1 DEF ProbedAt
<1>5. th[t].pc \notin Held \cup {"done"} /\ "meta" \notin Held /\ "walk" \notin Held
  BY <1>2 DEF Held, Working
<1>6. \A e : KeyOf(e)' = KeyOf(e)
  BY <1>3, KeysSame
<1>7. Kind(t)' = Kind(t) /\ Kind(t) \in Viewers /\ Kind(t) \notin Ranges
  BY <1>2, <1>3 DEF Kind, Viewers, Finders, Readers, Ranges
<1>8. CASE /\ T[i] \in Obj /\ KeyOf(T[i]) = op[t].key
           /\ Lands(t, "meta", th[t].tab, th[t].d, T[i], th[t].md) /\ Same(t)
  <2>1. val[T[i]] # Nil
    BY <1>4, <1>8 DEF ShapeInv, TablesOK
  <2>2. KindOK(t)'
    BY <1>7, <1>8 DEF KindOK, Lands, Viewing
  <2>3. LooksAt(t)'
    BY <1>3, <1>6, <1>7, <1>8, <2>1 DEF LooksAt, Lands, Viewing
  <2>4. QED
    BY <1>3, <1>5, <1>8, <2>2, <2>3, ReaderLands DEF LocalTypes, Same
<1>9. CASE Missed(t)
  BY <1>2, <1>5, <1>9, ShapeMissed
<1>10. CASE d + 1 \in DOMAIN T /\ Lands(t, "walk", g, d + 1, th[t].ent, th[t].md) /\ Same(t)
  <2>1. g \in Nat /\ d + 1 \in Nat
    BY <1>4, <1>10, TableSize, CurrentOK
  <2>2. KindOK(t)'
    BY <1>2, <1>7, <1>10 DEF KindOK, Lands, Viewing
  <2>3. LooksAt(t)'
    BY <1>3, <1>4, <1>10 DEF LooksAt, Lands, Viewing
  <2>4. QED
    BY <1>3, <1>5, <1>10, <2>1, <2>2, <2>3, ReaderLands DEF LocalTypes, Same
<1>11. QED
  BY <1>1, <1>8, <1>9, <1>10 DEF ProbedAt

\* RangeSlot.
LEMMA ShapeRangeSlot == ASSUME ShapeInv, NEW t \in Call, RangeSlot(t) PROVE ShapeInv'
<1>1. PICK g, d : Scanned(t, g, d)
  BY RangeSlotEffect
<1>2. /\ UNCHANGED <<table, entry, limits, mu, now, op>> /\ th[t].pc \in {"range", "visit"}
      /\ Kind(t) \in Ranges
  BY RangeSlotEffect
<1>3. /\ hits' \in [Obj -> Int] /\ exp' \in [Obj -> Nat] /\ hasMeta' \in BOOLEAN
      /\ LocalTypes(t) /\ UNCHANGED <<table, entry, mu, now, op>>
      /\ tabs' = tabs /\ val' = val /\ op' = op
  BY <1>2, CallFacts, LimitTypes DEF limits, table, entry
<1> DEFINE T == tabs[g]
<1>4. g \in DOMAIN tabs /\ d \in DOMAIN T /\ T \in Tables
  BY <1>1 DEF Scanned
<1>5. th[t].pc \notin Held \cup {"done"} /\ "meta" \notin Held /\ "visit" \notin Held
  BY <1>2 DEF Held, Working
<1>6. Kind(t)' = Kind(t) /\ Kind(t) \in Viewers
  BY <1>2, <1>3 DEF Kind, Viewers
<1>7. g \in Nat /\ d + 1 \in Nat /\ (d + 1) - 1 = d
  BY <1>4, TableSize, CurrentOK
<1>8. CASE T[d] \in Obj /\ Lands(t, "meta", g, d + 1, T[d], th[t].md) /\ Same(t)
  <2>1. val[T[d]] # Nil
    BY <1>4, <1>8 DEF ShapeInv, TablesOK
  <2>2. KindOK(t)'
    BY <1>6, <1>8 DEF KindOK, Lands, Viewing
  <2>3. LooksAt(t)'
    BY <1>2, <1>3, <1>4, <1>6, <1>7, <1>8, <2>1 DEF LooksAt, Lands, Viewing
  <2>4. QED
    BY <1>3, <1>5, <1>7, <1>8, <2>2, <2>3, ReaderLands DEF LocalTypes, Same
<1>9. CASE Ends(t) /\ Same(t)
  BY <1>3, <1>5, <1>9, ReaderEnds DEF LocalTypes, Same
<1>10. CASE d + 1 \in DOMAIN T /\ Lands(t, "visit", g, d + 1, T[d], th[t].md) /\ Same(t)
  <2>1. KindOK(t)'
    BY <1>2, <1>6, <1>10 DEF KindOK, Lands, Viewing
  <2>2. LooksAt(t)'
    BY <1>3, <1>4, <1>10 DEF LooksAt, Lands, Viewing
  <2>3. QED
    BY <1>3, <1>5, <1>7, <1>10, <2>1, <2>2, ReaderLands DEF LocalTypes, Same
<1>11. QED
  BY <1>1, <1>8, <1>9, <1>10 DEF Scanned

\* A call that stays at its entry, at another label.
LEMMA ShapeViews ==
    ASSUME ShapeInv, NEW t \in Call, th[t].pc \in Viewing, NEW p \in Viewing,
           NEW m \in Obj \cup {Nil}, Lands(t, p, th[t].tab, th[t].d, th[t].ent, m), Same(t),
           p = "consume" => Kind(t) = "Load", p \in {"limit", "consume"} => m # Nil,
           UNCHANGED <<table, entry, mu, now, op>>,
           hits' \in [Obj -> Int], exp' \in [Obj -> Nat], hasMeta' \in BOOLEAN
    PROVE  ShapeInv'
<1>1. LocalTypes(t) /\ KindOK(t) /\ HoldsOK(t)
  BY CallFacts
<1>2. tabs' = tabs /\ val' = val /\ op' = op /\ Kind(t)' = Kind(t) /\ Kind(t) \in Viewers
  BY <1>1 DEF table, entry, Kind, KindOK
<1>3. \A e : KeyOf(e)' = KeyOf(e)
  BY <1>2, KeysSame
<1>4. KindOK(t)'
  BY <1>2 DEF KindOK, Lands, Viewing
<1>5. LooksAt(t)'
  BY <1>1, <1>2, <1>3 DEF LooksAt, HoldsOK, Lands, Viewing
<1>6. th[t].pc \notin Held \cup {"done"} /\ p \notin Held
  BY DEF Held, Working, Viewing
<1>7. th[t].tab \in Nat /\ th[t].d \in Nat /\ th'[t].word = th[t].word
  BY <1>1 DEF LocalTypes, Same
<1>8. QED
  BY <1>4, <1>5, <1>6, <1>7, ReaderLands

\* LoadMeta.
LEMMA ShapeLoadMeta == ASSUME ShapeInv, NEW t \in Call, LoadMeta(t) PROVE ShapeInv'
<1> DEFINE m == MetaSeen(t)
           p == IF m = Nil THEN "val" ELSE "limit"
<1>1. /\ UNCHANGED <<table, entry, limits, mu, now, op>> /\ th[t].pc = "meta"
      /\ Lands(t, p, th[t].tab, th[t].d, th[t].ent, m) /\ Same(t)
  BY LoadMetaEffect
<1>2. HoldsOK(t) /\ hits' \in [Obj -> Int] /\ exp' \in [Obj -> Nat] /\ hasMeta' \in BOOLEAN
  BY <1>1, CallFacts, LimitTypes DEF limits
<1>3. m \in Obj \cup {Nil}
  BY <1>1, <1>2 DEF MetaSeen, HoldsOK, ShapeInv, StateTypes, Viewing
<1>4. p \in Viewing /\ th[t].pc \in Viewing /\ p # "consume" /\ (p = "limit" => m # Nil)
  BY <1>1 DEF Viewing
<1> HIDE DEF p, m
<1>5. QED
  BY <1>1, <1>2, <1>3, <1>4, ShapeViews

\* After an entry Range goes on or ends.
LEMMA ShapeContinues ==
    ASSUME ShapeInv, NEW t \in Call, th[t].pc \in Viewing, Kind(t) \in Ranges, Continues(t),
           th'[t].word = th[t].word, UNCHANGED <<table, entry, limits, mu, now, op>>
    PROVE  ShapeInv'
<1>1. /\ hits' \in [Obj -> Int] /\ exp' \in [Obj -> Nat] /\ hasMeta' \in BOOLEAN
      /\ LocalTypes(t) /\ UNCHANGED <<table, entry, mu, now, op>>
      /\ tabs' = tabs /\ op' = op
  BY CallFacts, LimitTypes DEF limits, table
<1>2. th[t].pc \notin Held \cup {"done"} /\ "visit" \notin Held
  BY DEF Held, Working, Viewing
<1>3. CASE Ends(t)
  BY <1>1, <1>2, <1>3, ReaderEnds DEF LocalTypes
<1>4. CASE /\ th[t].tab \in DOMAIN tabs /\ th[t].d \in DOMAIN tabs[th[t].tab]
           /\ Lands(t, "visit", th[t].tab, th[t].d, th[t].ent, th[t].md)
  <2>1. KindOK(t)' /\ LooksAt(t)'
    BY <1>1, <1>4 DEF KindOK, LooksAt, Kind, Lands, Viewing
  <2>2. QED
    BY <1>1, <1>2, <1>4, <2>1, ReaderLands DEF LocalTypes
<1>5. QED
  BY <1>3, <1>4 DEF Continues

\* CheckLimit.
LEMMA ShapeCheckLimit == ASSUME ShapeInv, NEW t \in Call, CheckLimit(t) PROVE ShapeInv'
<1>1. /\ UNCHANGED <<table, entry, limits, mu, now, op>> /\ th[t].pc = "limit"
      /\ Kind(t) \in Viewers
  BY CheckLimitEffect
<1>2. /\ hits' \in [Obj -> Int] /\ exp' \in [Obj -> Nat] /\ hasMeta' \in BOOLEAN
      /\ LocalTypes(t) /\ HoldsOK(t) /\ UNCHANGED <<table, entry, mu, now, op>>
  BY <1>1, CallFacts, LimitTypes DEF limits
<1>3. th[t].pc \in Viewing /\ th[t].pc \notin Held \cup {"done"} /\ th[t].md # Nil
  BY <1>1, <1>2 DEF Viewing, Held, Working, HoldsOK
<1>4. CASE Ends(t) /\ th'[t].word = th[t].word
  BY <1>2, <1>3, <1>4, ReaderEnds DEF LocalTypes
<1>5. ASSUME NEW p \in {"consume", "val"}, p = "consume" => Kind(t) = "Load", Goes(t, p)
      PROVE  ShapeInv'
  BY <1>2, <1>3, <1>5, ShapeViews DEF Goes, LocalTypes, Viewing
<1>6. CASE Kind(t) \in Ranges /\ Continues(t) /\ Same(t)
  BY <1>1, <1>3, <1>6, ShapeContinues DEF Same
<1>7. CASE Kind(t) \notin Ranges /\ Missed(t)
  BY <1>1, <1>3, <1>7, ShapeMissed DEF Viewers
<1>8. QED
  <2>1. \/ Ends(t) /\ th'[t].word = th[t].word
        \/ Kind(t) = "Load" /\ Goes(t, IF op[th[t].md].hits > 0 THEN "consume" ELSE "val")
        \/ Goes(t, "val")
        \/ Kind(t) \in Ranges /\ Continues(t) /\ Same(t)
        \/ Kind(t) \notin Ranges /\ Missed(t)
    BY CheckLimitEffect
  <2>2. QED
    BY <2>1, <1>4, <1>5, <1>6, <1>7

\* ConsumeHit.
LEMMA ShapeConsumeHit == ASSUME ShapeInv, NEW t \in Call, ConsumeHit(t) PROVE ShapeInv'
<1>1. /\ UNCHANGED <<table, entry, exp, hasMeta, mu, now, op>> /\ th[t].pc = "consume"
      /\ Kind(t) = "Load" /\ th[t].md \in Obj /\ hits' \in [Obj -> Int]
      /\ Goes(t, "val") \/ (Ends(t) /\ th'[t].word = th[t].word)
  BY ConsumeHitEffect
<1>2. /\ exp' \in [Obj -> Nat] /\ hasMeta' \in BOOLEAN
      /\ LocalTypes(t) /\ UNCHANGED <<table, entry, mu, now, op>>
  BY <1>1, CallFacts, LimitTypes
<1>3. th[t].pc \in Viewing /\ th[t].pc \notin Held \cup {"done"} /\ "val" \in Viewing
  BY <1>1 DEF Viewing, Held, Working
<1>4. CASE Goes(t, "val")
  BY <1>1, <1>2, <1>3, <1>4, ShapeViews DEF Goes
<1>5. CASE Ends(t) /\ th'[t].word = th[t].word
  BY <1>1, <1>2, <1>3, <1>5, ReaderEnds DEF LocalTypes
<1>6. QED
  BY <1>1, <1>4, <1>5

\* LoadVal.
LEMMA ShapeLoadVal == ASSUME ShapeInv, NEW t \in Call, LoadVal(t) PROVE ShapeInv'
<1>1. /\ UNCHANGED <<table, entry, limits, mu, now, op>> /\ th[t].pc = "val"
      /\ val[th[t].ent] \in Obj
      /\ \/ Kind(t) \in Ranges /\ Continues(t) /\ th'[t].word = th[t].word
         \/ Ends(t) /\ th'[t].word = val[th[t].ent]
  BY LoadValEffect
<1>2. /\ hits' \in [Obj -> Int] /\ exp' \in [Obj -> Nat] /\ hasMeta' \in BOOLEAN
      /\ UNCHANGED <<table, entry, mu, now, op>>
  BY <1>1, LimitTypes DEF limits
<1>3. th[t].pc \in Viewing /\ th[t].pc \notin Held \cup {"done"}
  BY <1>1 DEF Viewing, Held, Working
<1>4. CASE Kind(t) \in Ranges /\ Continues(t) /\ th'[t].word = th[t].word
  BY <1>1, <1>3, <1>4, ShapeContinues
<1>5. CASE Ends(t) /\ th'[t].word = val[th[t].ent]
  BY <1>1, <1>2, <1>3, <1>5, ReaderEnds
<1>6. QED
  BY <1>1, <1>4, <1>5
-------------------------------------------------------------------------------
\* A step under the mutex that leaves tables and entries alone.
LEMMA OwnerStep ==
    ASSUME ShapeInv, NEW t \in Call, Moved(t), UNCHANGED <<table, entry, limits, now, op>>,
           th[t].pc # "done",
           mu' = mu \/ (mu = Nil /\ mu' = t) \/ (mu = t /\ mu' = Nil),
           (LocalTypes(t) /\ KindOK(t) /\ HoldsOK(t))'
    PROVE  ShapeInv'
<1>1. Beside(t)
  BY DEF Beside, TablesStay, table, entry
<1>2. hits' \in [Obj -> Int] /\ exp' \in [Obj -> Nat] /\ hasMeta' \in BOOLEAN
  BY LimitTypes DEF limits
<1>3. QED
  BY <1>1, <1>2, QuietStep

\* A call that ends and unlocks is typed.
LEMMA EndsOK ==
    ASSUME ShapeInv, NEW t \in Call, Ends(t), th'[t].word \in Obj \cup {Nil},
           UNCHANGED <<now, op>>, mu' = Nil
    PROVE  (LocalTypes(t) /\ KindOK(t) /\ HoldsOK(t))' /\ Moved(t)
<1>1. LocalTypes(t)
  BY CallFacts
<1>2. Moved(t) /\ th'[t].pc = "done" /\ mu' # t
  BY TypedNamesAssumption DEF Ends
<1>3. LocalTypes(t)'
  BY <1>1, <1>2 DEF LocalTypes, Ends, Moved
<1>4. KindOK(t)' /\ HoldsOK(t)'
  BY <1>2 DEF KindOK, HoldsOK, Held, Working, Viewing
<1>5. QED
  BY <1>2, <1>3, <1>4

\* A call that goes on keeps its types.
LEMMA GoesTyped ==
    ASSUME ShapeInv, NEW t \in Call, NEW p, NEW e, Lands(t, p, th[t].tab, th[t].d, e, th[t].md),
           th'[t].word \in Obj \cup {Nil}, UNCHANGED <<now, op>>
    PROVE  LocalTypes(t)' /\ Moved(t)
<1>1. LocalTypes(t)
  BY CallFacts
<1>2. QED
  BY <1>1 DEF LocalTypes, Lands, Moved

\* Lock.
LEMMA ShapeLock == ASSUME ShapeInv, NEW t \in Call, Lock(t) PROVE ShapeInv'
<1>1. /\ UNCHANGED <<table, entry, limits, now, op>> /\ th[t].pc = "lock"
      /\ mu = Nil /\ mu' = t /\ Kind(t) \notin Readers \cup Ranges
      /\ \/ Kind(t) \in Sweepers /\ Goes(t, "rebuild")
         \/ Kind(t) \in Inserters /\ Goes(t, "grow")
         \/ /\ Kind(t) \notin Sweepers /\ Goes(t, "locked")
            /\ Kind(t) \in Inserters =>
                  Live(Current) + Tombstones(Current) + 1 < Size(Current)
  BY LockEffect
<1>2. PICK p \in {"rebuild", "grow", "locked"} :
         /\ Goes(t, p)
         /\ p = "rebuild" => Kind(t) \in Sweepers
         /\ p = "grow" => Kind(t) \in Inserters
         /\ p = "locked" =>
               /\ Kind(t) \notin Sweepers
               /\ Kind(t) \in Inserters =>
                     Live(Current) + Tombstones(Current) + 1 < Size(Current)
  BY <1>1
<1>3. /\ LocalTypes(t) /\ tabs' = tabs /\ Kind(t)' = Kind(t) /\ Current' = Current
      /\ UNCHANGED <<now, op>>
  BY <1>1, CallFacts DEF table, Kind, Current
<1>4. LocalTypes(t)' /\ Moved(t)
  BY <1>2, <1>3, GoesTyped DEF Goes, Same, LocalTypes
<1>5. th'[t].pc = p /\ p \notin Working /\ p \notin Viewing /\ p \in Held
  BY <1>2 DEF Goes, Lands, Working, Viewing, Held
<1>6. KindOK(t)'
  BY <1>1, <1>2, <1>3, <1>5 DEF KindOK, Viewing, Working
<1>7. HoldsOK(t)'
  <2>1. p = "locked" /\ Kind(t)' \in Inserters =>
           Live(Current') + Tombstones(Current') + 1 < Size(Current')
    BY <1>2, <1>3
  <2>2. QED
    BY <1>1, <1>2, <1>3, <1>5, <2>1 DEF HoldsOK
<1>8. QED
  BY <1>1, <1>4, <1>6, <1>7, OwnerStep

\* LockedAbsent.
LEMMA ShapeLockedAbsent == ASSUME ShapeInv, NEW t \in Call, LockedAbsent(t) PROVE ShapeInv'
<1>1. /\ UNCHANGED <<table, entry, limits, now, op>> /\ th[t].pc = "locked" /\ mu' = Nil
      /\ Ends(t) /\ th'[t].word = th[t].word
  BY LockedAbsentEffect
<1>2. LocalTypes(t) /\ HoldsOK(t)
  BY CallFacts
<1>3. mu = t /\ th'[t].word \in Obj \cup {Nil}
  BY <1>1, <1>2 DEF HoldsOK, Held, LocalTypes
<1>4. (LocalTypes(t) /\ KindOK(t) /\ HoldsOK(t))' /\ Moved(t)
  BY <1>1, <1>3, EndsOK
<1>5. QED
  BY <1>1, <1>3, <1>4, OwnerStep

\* ComputePanics.
LEMMA ShapePanics == ASSUME ShapeInv, NEW t \in Call, ComputePanics(t) PROVE ShapeInv'
<1>1. /\ UNCHANGED <<table, entry, limits, mu, now, op>> /\ th[t].pc = "locked"
      /\ Kind(t) = "ComputePanic" /\ Goes(t, "panic")
  BY PanicEffect
<1>2. LocalTypes(t) /\ HoldsOK(t) /\ Kind(t)' = Kind(t) /\ UNCHANGED <<now, op>>
  BY <1>1, CallFacts DEF Kind
<1>3. mu = t /\ mu' = t
  BY <1>1, <1>2 DEF HoldsOK, Held
<1>4. LocalTypes(t)' /\ Moved(t) /\ th'[t].pc = "panic"
  BY <1>1, <1>2, GoesTyped DEF Goes, Same, LocalTypes, Lands
<1>5. KindOK(t)' /\ HoldsOK(t)'
  BY <1>1, <1>2, <1>3, <1>4 DEF KindOK, HoldsOK, Held, Working, Viewing
<1>6. QED
  BY <1>1, <1>4, <1>5, OwnerStep

\* A value loaded from an entry under the mutex.
LEMMA LiveWordTyped ==
    ASSUME ShapeInv, NEW t \in Call, Found(t) \in Obj
    PROVE  LiveWord(t) \in Obj \cup {Nil}
  BY FoundIs DEF LiveWord, ShapeInv, StateTypes

\* The methods that find an entry.
LEMMA ShapeFinds == ASSUME ShapeInv, NEW t \in Call, Finds(t) PROVE ShapeInv'
<1>1. /\ UNCHANGED <<table, entry, limits, now, op>> /\ th[t].pc = "locked"
      /\ op[t].key \in Key /\ Found(t) \in Obj
  BY FindsEffect
<1>2. PICK l, r :
         /\ Decides(t, l, r)
         /\ th'[t].word = LiveWord(t) /\ th'[t].res = r /\ th'[t].seen = th[t].seen
         /\ \/ l = "done" /\ mu' = Nil /\ Ends(t)
            \/ /\ l \in {"storeVal", "remove"} /\ mu' = mu
               /\ Lands(t, l, th[t].tab, th[t].d, Found(t), th[t].md)
  BY FindsEffect
<1>3. /\ HoldsOK(t) /\ Kind(t)' = Kind(t) /\ UNCHANGED <<now, op>>
      /\ tabs' = tabs /\ op' = op
  BY <1>1, CallFacts DEF Kind, table
<1>4. mu = t /\ th'[t].word \in Obj \cup {Nil}
  BY <1>1, <1>2, <1>3, LiveWordTyped DEF HoldsOK, Held
<1>5. CASE l = "done" /\ mu' = Nil /\ Ends(t)
  <2>1. (LocalTypes(t) /\ KindOK(t) /\ HoldsOK(t))' /\ Moved(t)
    BY <1>3, <1>4, <1>5, EndsOK
  <2>2. QED
    BY <1>1, <1>4, <1>5, <2>1, OwnerStep
<1>6. CASE /\ l \in {"storeVal", "remove"} /\ mu' = mu
           /\ Lands(t, l, th[t].tab, th[t].d, Found(t), th[t].md)
  <2>1. LocalTypes(t)' /\ Moved(t) /\ th'[t].pc = l /\ th'[t].ent = Found(t)
    BY <1>3, <1>4, <1>6, GoesTyped DEF Lands
  <2>2. KindOK(t)'
    BY <1>2, <1>3, <1>6, <2>1 DEF KindOK, Decides, Viewing, Storing, Removing
  <2>3. Found(t)' = Found(t)
    BY <1>3, FoundSame
  <2>4. HoldsOK(t)'
    BY <1>1, <1>4, <1>6, <2>1, <2>3 DEF HoldsOK, Held, Working, Viewing
  <2>5. QED
    BY <1>1, <1>6, <2>1, <2>2, <2>4, OwnerStep
<1>7. QED
  BY <1>2, <1>5, <1>6

-------------------------------------------------------------------------------
\* A step of the owner of the mutex that changes tables or entries.
LEMMA OwnerEdits ==
    ASSUME ShapeInv, NEW t \in Call, mu = t, Moved(t), UNCHANGED <<limits, now, op>>,
           th[t].pc # "done", mu' \in {t, Nil},
           tabs' \in Seq(Tables), tabs' # <<>>, TablesStay,
           cnt' = [live |-> Live(Current'), tomb |-> Tombstones(Current')],
           \A g \in DOMAIN tabs' :
              /\ Sound(KeyIn, tabs'[g])
              /\ \A i \in DOMAIN tabs'[g] : tabs'[g][i] \in Obj => val'[tabs'[g][i]] # Nil,
           val' \in [Obj -> Obj \cup {Nil}], meta' \in [Obj -> Obj \cup {Nil}],
           \A e \in Obj : val[e] # Nil => val'[e] # Nil,
           \A e \in Call : val'[e] # Nil => val[e] # Nil \/ (e = t /\ th'[t].pc = "done"),
           (LocalTypes(t) /\ KindOK(t) /\ HoldsOK(t))'
    PROVE  ShapeInv'
<1>1. Beside(t)
  BY DEF Beside
<1>2. KeyIn' = KeyIn
  BY KeysSame
<1>3. StateTypes'
  BY DEF ShapeInv, StateTypes, OpsTyped, Moved, limits
<1>4. \A e \in Call : val'[e] # Nil => At(e, "done")'
  BY DEF ShapeInv, TablesOK, At, Moved
<1>5. TablesOK'
  BY <1>2, <1>4 DEF TablesOK
<1>6. QED
  BY <1>1, <1>3, <1>5, ShapeStep

\* What OwnerEdits asks of the tables, when they stay, after an edit, and with a
\* new one.
LEMMA TablesKept ==
    ASSUME ShapeInv, UNCHANGED table, \A e \in Obj : val[e] # Nil => val'[e] # Nil
    PROVE  /\ tabs' \in Seq(Tables) /\ tabs' # <<>> /\ TablesStay
           /\ cnt' = [live |-> Live(Current'), tomb |-> Tombstones(Current')]
           /\ \A g \in DOMAIN tabs' :
                /\ Sound(KeyIn, tabs'[g])
                /\ \A i \in DOMAIN tabs'[g] : tabs'[g][i] \in Obj => val'[tabs'[g][i]] # Nil
<1>1. tabs' = tabs /\ cnt' = cnt /\ Current' = Current
  BY DEF table, Current
<1>2. QED
  BY <1>1 DEF ShapeInv, StateTypes, TablesOK, TablesStay

\* After an edit.
LEMMA TablesEdited ==
    ASSUME ShapeInv, NEW U, EditTable(U), \A e \in Obj : val[e] # Nil => val'[e] # Nil,
           \A i \in DOMAIN U : U[i] \in Obj => val'[U[i]] # Nil
    PROVE  /\ tabs' \in Seq(Tables) /\ tabs' # <<>> /\ TablesStay
           /\ cnt' = [live |-> Live(Current'), tomb |-> Tombstones(Current')]
           /\ \A g \in DOMAIN tabs' :
                /\ Sound(KeyIn, tabs'[g])
                /\ \A i \in DOMAIN tabs'[g] : tabs'[g][i] \in Obj => val'[tabs'[g][i]] # Nil
<1>1. /\ tabs' \in Seq(Tables) /\ tabs' # <<>> /\ TablesStay
      /\ DOMAIN tabs' = DOMAIN tabs /\ Current' = U /\ tabs'[Len(tabs)] = U
      /\ \A g \in DOMAIN tabs : g # Len(tabs) => tabs'[g] = tabs[g]
  BY EditFacts
<1>2. cnt' = [live |-> Live(Current'), tomb |-> Tombstones(Current')] /\ Sound(KeyIn, U)
  BY <1>1 DEF EditTable
<1>3. ASSUME NEW g \in DOMAIN tabs'
      PROVE  /\ Sound(KeyIn, tabs'[g])
             /\ \A i \in DOMAIN tabs'[g] : tabs'[g][i] \in Obj => val'[tabs'[g][i]] # Nil
  <2>1. CASE g = Len(tabs)
    BY <2>1, <1>1, <1>2
  <2>2. CASE g # Len(tabs)
    <3>1. g \in DOMAIN tabs /\ tabs'[g] = tabs[g]
      BY <2>2, <1>1
    <3>2. QED
      BY <3>1 DEF ShapeInv, TablesOK
  <2>3. QED
    BY <2>1, <2>2
<1>4. QED
  BY <1>1, <1>2, <1>3

\* With a new one.
LEMMA TablesAdded ==
    ASSUME ShapeInv, NEW N, NewTable(N), \A e \in Obj : val[e] # Nil => val'[e] # Nil,
           \A i \in DOMAIN N : N[i] \in Obj => val'[N[i]] # Nil
    PROVE  /\ tabs' \in Seq(Tables) /\ tabs' # <<>> /\ TablesStay
           /\ cnt' = [live |-> Live(Current'), tomb |-> Tombstones(Current')]
           /\ \A g \in DOMAIN tabs' :
                /\ Sound(KeyIn, tabs'[g])
                /\ \A i \in DOMAIN tabs'[g] : tabs'[g][i] \in Obj => val'[tabs'[g][i]] # Nil
<1>1. /\ tabs' \in Seq(Tables) /\ tabs' # <<>> /\ TablesStay
      /\ DOMAIN tabs' = DOMAIN tabs \cup {Len(tabs')} /\ Current' = N /\ tabs'[Len(tabs')] = N
      /\ \A g \in DOMAIN tabs : tabs'[g] = tabs[g]
  BY AppendFacts
<1>2. cnt' = [live |-> Live(Current'), tomb |-> Tombstones(Current')] /\ Sound(KeyIn, N)
  BY <1>1 DEF NewTable
<1>3. ASSUME NEW g \in DOMAIN tabs'
      PROVE  /\ Sound(KeyIn, tabs'[g])
             /\ \A i \in DOMAIN tabs'[g] : tabs'[g][i] \in Obj => val'[tabs'[g][i]] # Nil
  <2>1. CASE g = Len(tabs')
    BY <2>1, <1>1, <1>2
  <2>2. CASE g # Len(tabs')
    <3>1. g \in DOMAIN tabs /\ tabs'[g] = tabs[g]
      BY <2>2, <1>1, Zenon
    <3>2. QED
      BY <3>1 DEF ShapeInv, TablesOK
  <2>3. QED
    BY <2>1, <2>2
<1>4. QED
  BY <1>1, <1>2, <1>3, Zenon

\* The entries of a rebuilt table come from the old one, so they have a value.
LEMMA RebuiltValues ==
    ASSUME ShapeInv, NEW kept, kept \subseteq EntriesOf(Current), NEW N, Rebuilt(N, kept)
    PROVE  NewTable(N) /\ \A i \in DOMAIN N : N[i] \in Obj => val[N[i]] # Nil
<1>1. ASSUME NEW i \in DOMAIN N, N[i] \in Obj PROVE val[N[i]] # Nil
  <2>1. N[i] \in EntriesOf(N)
    BY <1>1, Names DEF EntriesOf
  <2>2. PICK j \in DOMAIN Current : N[i] = Current[j]
    BY <2>1 DEF Rebuilt, EntriesOf
  <2>3. Len(tabs) \in DOMAIN tabs
    BY CurrentOK
  <2>4. QED
    BY <1>1, <2>2, <2>3 DEF ShapeInv, TablesOK, Current
<1>2. QED
  BY <1>1 DEF Rebuilt

\* Grow.
LEMMA ShapeGrow == ASSUME ShapeInv, NEW t \in Call, Grow(t) PROVE ShapeInv'
<1>1. /\ UNCHANGED <<entry, limits, mu, now, op>> /\ th[t].pc = "grow"
      /\ Kind(t) \in Inserters /\ Goes(t, "locked")
  BY GrowEffect
<1>2. PICK N : Rebuilt(N, EntriesOf(Current))
  BY GrowEffect
<1>3. NewTable(N) /\ (\A i \in DOMAIN N : N[i] \in Obj => val[N[i]] # Nil)
      /\ Live(N) + Tombstones(N) + 1 < Size(N)
  BY <1>2, RebuiltValues DEF Rebuilt
<1>4. /\ HoldsOK(t) /\ Kind(t)' = Kind(t) /\ val' = val /\ meta' = meta /\ LocalTypes(t)
      /\ val \in [Obj -> Obj \cup {Nil}] /\ meta \in [Obj -> Obj \cup {Nil}]
      /\ UNCHANGED <<limits, now, op>>
  BY <1>1, CallFacts DEF Kind, entry, ShapeInv, StateTypes
<1>5. mu = t /\ mu' = t
  BY <1>1, <1>4 DEF HoldsOK, Held
<1>6. LocalTypes(t)' /\ Moved(t) /\ th'[t].pc = "locked"
  BY <1>1, <1>4, GoesTyped DEF Goes, Same, LocalTypes, Lands
<1>7. KindOK(t)'
  BY <1>1, <1>4, <1>6 DEF KindOK, Viewing, Inserters, Readers, Ranges, Sweepers
<1>8. Current' = N
  BY <1>3, AppendFacts
<1>9. HoldsOK(t)'
  BY <1>3, <1>5, <1>6, <1>8 DEF HoldsOK, Held, Working, Viewing
<1>10. /\ tabs' \in Seq(Tables) /\ tabs' # <<>> /\ TablesStay
       /\ cnt' = [live |-> Live(Current'), tomb |-> Tombstones(Current')]
       /\ \A g \in DOMAIN tabs' :
            /\ Sound(KeyIn, tabs'[g])
            /\ \A i \in DOMAIN tabs'[g] : tabs'[g][i] \in Obj => val'[tabs'[g][i]] # Nil
  BY <1>3, <1>4, TablesAdded
<1>11. QED
  BY <1>1, <1>4, <1>5, <1>6, <1>7, <1>9, <1>10, OwnerEdits

\* A call that ends, unlocks and changes tables or entries.
LEMMA OwnerEnds ==
    ASSUME ShapeInv, NEW t \in Call, mu = t, mu' = Nil, Ends(t), th'[t].word = th[t].word,
           UNCHANGED <<limits, now, op>>, th[t].pc # "done",
           tabs' \in Seq(Tables), tabs' # <<>>, TablesStay,
           cnt' = [live |-> Live(Current'), tomb |-> Tombstones(Current')],
           \A g \in DOMAIN tabs' :
              /\ Sound(KeyIn, tabs'[g])
              /\ \A i \in DOMAIN tabs'[g] : tabs'[g][i] \in Obj => val'[tabs'[g][i]] # Nil,
           val' \in [Obj -> Obj \cup {Nil}], meta' \in [Obj -> Obj \cup {Nil}],
           \A e \in Obj : val[e] # Nil => val'[e] # Nil,
           \A e \in Call : val'[e] # Nil => val[e] # Nil \/ e = t
    PROVE  ShapeInv'
<1>1. th'[t].word \in Obj \cup {Nil}
  BY CallFacts DEF LocalTypes
<1>2. (LocalTypes(t) /\ KindOK(t) /\ HoldsOK(t))' /\ Moved(t) /\ th'[t].pc = "done"
  BY <1>1, EndsOK DEF Ends
<1>3. QED
  BY <1>2, OwnerEdits

\* InsertEntry.
LEMMA ShapeInsert == ASSUME ShapeInv, NEW t \in Call, InsertEntry(t) PROVE ShapeInv'
<1>1. /\ UNCHANGED <<limits, now, op>> /\ th[t].pc = "locked" /\ mu' = Nil
      /\ val' = [val EXCEPT ![t] = t] /\ meta' = [meta EXCEPT ![t] = MetaOf(t)]
      /\ Ends(t) /\ th'[t].word = th[t].word
      /\ \E i \in DOMAIN Current : Current[i] \in {Nil, Tomb} /\ EditTable(Put(Current, i, t))
  BY InsertEffect
<1>2. PICK i \in DOMAIN Current : Current[i] \in {Nil, Tomb} /\ EditTable(Put(Current, i, t))
  BY <1>1
<1>3. /\ HoldsOK(t) /\ t \in Obj
      /\ val \in [Obj -> Obj \cup {Nil}] /\ meta \in [Obj -> Obj \cup {Nil}]
  BY CallFacts DEF ShapeInv, StateTypes
<1>4. mu = t
  BY <1>1, <1>3 DEF HoldsOK, Held
<1>5. /\ val' \in [Obj -> Obj \cup {Nil}] /\ meta' \in [Obj -> Obj \cup {Nil}]
      /\ val'[t] = t /\ \A e \in Obj : e # t => val'[e] = val[e]
  BY <1>1, <1>3 DEF MetaOf
<1>6. t # Nil
  BY Names, <1>3
<1> DEFINE U == Put(Current, i, t)
<1>7. DOMAIN U = DOMAIN Current /\ U[i] = t /\ \A j \in DOMAIN Current : j # i => U[j] = Current[j]
  BY <1>3, CurrentOK, Edited DEF Cell
<1>8. EditTable(U)
  BY <1>2
<1> HIDE DEF U
<1>9. \A j \in DOMAIN U : U[j] \in Obj => val'[U[j]] # Nil
  <2>1. Len(tabs) \in DOMAIN tabs
    BY CurrentOK
  <2>2. \A j \in DOMAIN Current : Current[j] \in Obj => val[Current[j]] # Nil
    BY <2>1 DEF ShapeInv, TablesOK, Current
  <2>3. QED
    BY <1>5, <1>6, <1>7, <2>2
<1>10. \A e \in Obj : val[e] # Nil => val'[e] # Nil
  BY <1>5, <1>6
<1>11. /\ tabs' \in Seq(Tables) /\ tabs' # <<>> /\ TablesStay
       /\ cnt' = [live |-> Live(Current'), tomb |-> Tombstones(Current')]
       /\ \A g \in DOMAIN tabs' :
            /\ Sound(KeyIn, tabs'[g])
            /\ \A j \in DOMAIN tabs'[g] : tabs'[g][j] \in Obj => val'[tabs'[g][j]] # Nil
  BY <1>8, <1>9, <1>10, TablesEdited
<1>12. \A e \in Call : val'[e] # Nil => val[e] # Nil \/ e = t
  BY <1>5 DEF Obj
<1>13. QED
  BY <1>1, <1>4, <1>5, <1>10, <1>11, <1>12, OwnerEnds

\* StoreVal.
LEMMA ShapeStoreVal == ASSUME ShapeInv, NEW t \in Call, StoreVal(t) PROVE ShapeInv'
<1>1. /\ UNCHANGED <<table, meta, limits, mu, now, op>> /\ th[t].pc = "storeVal"
      /\ th[t].ent \in Obj /\ th[t].ent = Found(t) /\ Kind(t) \in Storing
      /\ val' = [val EXCEPT ![th[t].ent] = t] /\ Goes(t, "storeMeta")
  BY StoreValEffect
<1>2. /\ HoldsOK(t) /\ t \in Obj /\ t # Nil /\ LocalTypes(t) /\ Kind(t)' = Kind(t) /\ OpsTyped
      /\ val \in [Obj -> Obj \cup {Nil}] /\ meta' \in [Obj -> Obj \cup {Nil}]
      /\ UNCHANGED <<limits, now, op>> /\ tabs' = tabs
  BY <1>1, CallFacts, Names DEF ShapeInv, StateTypes, Kind, table
<1>3. mu = t /\ mu' = t
  BY <1>1, <1>2 DEF HoldsOK, Held, Working
<1>4. /\ val' \in [Obj -> Obj \cup {Nil}] /\ val'[th[t].ent] = t
      /\ \A e \in Obj : e # th[t].ent => val'[e] = val[e]
  BY <1>1, <1>2
<1>5. op[t].key \in Key
  BY <1>1, <1>2, KeyFacts DEF OnKey
<1>6. val[th[t].ent] # Nil
  BY <1>1, <1>5, FoundFacts, Names
<1>7. \A e \in Obj : (val[e] # Nil <=> val'[e] # Nil)
  BY <1>1, <1>2, <1>4, <1>6
<1>8. LocalTypes(t)' /\ Moved(t) /\ th'[t].pc = "storeMeta" /\ th'[t].ent = th[t].ent
  BY <1>1, <1>2, GoesTyped DEF Goes, Same, LocalTypes, Lands
<1>9. KindOK(t)'
  BY <1>1, <1>2, <1>8 DEF KindOK, Viewing
<1>10. Found(t)' = Found(t)
  BY <1>2, FoundSame
<1>11. HoldsOK(t)'
  BY <1>1, <1>3, <1>8, <1>10 DEF HoldsOK, Held, Working, Viewing
<1>12. /\ tabs' \in Seq(Tables) /\ tabs' # <<>> /\ TablesStay
       /\ cnt' = [live |-> Live(Current'), tomb |-> Tombstones(Current')]
       /\ \A g \in DOMAIN tabs' :
            /\ Sound(KeyIn, tabs'[g])
            /\ \A j \in DOMAIN tabs'[g] : tabs'[g][j] \in Obj => val'[tabs'[g][j]] # Nil
  BY <1>1, <1>7, TablesKept
<1>13. \A e \in Call : val'[e] # Nil => val[e] # Nil
  BY <1>7 DEF Obj
<1>14. QED
  BY <1>1, <1>2, <1>3, <1>4, <1>7, <1>8, <1>9, <1>11, <1>12, <1>13, OwnerEdits

\* StoreMeta.
LEMMA ShapeStoreMeta == ASSUME ShapeInv, NEW t \in Call, StoreMeta(t) PROVE ShapeInv'
<1>1. /\ UNCHANGED <<table, val, limits, now, op>> /\ th[t].pc = "storeMeta" /\ mu' = Nil
      /\ th[t].ent \in Obj /\ meta' = [meta EXCEPT ![th[t].ent] = MetaOf(t)]
      /\ Ends(t) /\ Same(t)
  BY StoreMetaEffect
<1>2. /\ HoldsOK(t) /\ t \in Obj
      /\ val' \in [Obj -> Obj \cup {Nil}] /\ meta \in [Obj -> Obj \cup {Nil}]
  BY <1>1, CallFacts DEF ShapeInv, StateTypes
<1>3. mu = t
  BY <1>1, <1>2 DEF HoldsOK, Held, Working
<1>4. meta' \in [Obj -> Obj \cup {Nil}]
  BY <1>1, <1>2 DEF MetaOf
<1>5. /\ tabs' \in Seq(Tables) /\ tabs' # <<>> /\ TablesStay
      /\ cnt' = [live |-> Live(Current'), tomb |-> Tombstones(Current')]
      /\ \A g \in DOMAIN tabs' :
            /\ Sound(KeyIn, tabs'[g])
            /\ \A j \in DOMAIN tabs'[g] : tabs'[g][j] \in Obj => val'[tabs'[g][j]] # Nil
  BY <1>1, TablesKept
<1>6. QED
  BY <1>1, <1>2, <1>3, <1>4, <1>5, OwnerEnds DEF Same

\* RemoveEntry.
LEMMA ShapeRemove == ASSUME ShapeInv, NEW t \in Call, RemoveEntry(t) PROVE ShapeInv'
<1>1. /\ UNCHANGED <<entry, limits, now, op>> /\ th[t].pc = "remove" /\ mu' = Nil
      /\ Ends(t) /\ Same(t)
      /\ \E i \in DOMAIN Current : Current[i] = Found(t) /\ EditTable(Put(Current, i, Tomb))
  BY RemoveEffect
<1>2. PICK i \in DOMAIN Current : EditTable(Put(Current, i, Tomb))
  BY <1>1
<1>3. /\ HoldsOK(t) /\ val' = val
      /\ val' \in [Obj -> Obj \cup {Nil}] /\ meta' \in [Obj -> Obj \cup {Nil}]
  BY <1>1, CallFacts DEF entry, ShapeInv, StateTypes
<1>4. mu = t
  BY <1>1, <1>3 DEF HoldsOK, Held, Working
<1> DEFINE U == Put(Current, i, Tomb)
<1>5. DOMAIN U = DOMAIN Current /\ U[i] = Tomb
      /\ \A j \in DOMAIN Current : j # i => U[j] = Current[j]
  BY CurrentOK, Edited DEF Cell
<1>6. EditTable(U)
  BY <1>2
<1> HIDE DEF U
<1>7. \A j \in DOMAIN U : U[j] \in Obj => val'[U[j]] # Nil
  <2>1. Len(tabs) \in DOMAIN tabs
    BY CurrentOK
  <2>2. \A j \in DOMAIN Current : Current[j] \in Obj => val[Current[j]] # Nil
    BY <2>1 DEF ShapeInv, TablesOK, Current
  <2>3. QED
    BY <1>3, <1>5, <2>2, Names
<1>8. /\ tabs' \in Seq(Tables) /\ tabs' # <<>> /\ TablesStay
      /\ cnt' = [live |-> Live(Current'), tomb |-> Tombstones(Current')]
      /\ \A g \in DOMAIN tabs' :
            /\ Sound(KeyIn, tabs'[g])
            /\ \A j \in DOMAIN tabs'[g] : tabs'[g][j] \in Obj => val'[tabs'[g][j]] # Nil
  BY <1>3, <1>6, <1>7, TablesEdited
<1>9. QED
  BY <1>1, <1>3, <1>4, <1>8, OwnerEnds DEF Same

\* CleanupNow and Clear.
LEMMA ShapeSweeps ==
    ASSUME ShapeInv, NEW t \in Call, CleanupNow(t) \/ Clear(t) PROVE ShapeInv'
<1>1. /\ UNCHANGED <<entry, limits, now, op>> /\ th[t].pc = "rebuild" /\ mu' = Nil
      /\ Ends(t) /\ th'[t].word = th[t].word
  BY CleanupEffect, ClearEffect
<1>2. \/ UNCHANGED table
      \/ \E N : NewTable(N) /\ \A i \in DOMAIN N : N[i] \in Obj => val[N[i]] # Nil
  <2>1. CASE CleanupNow(t)
    <3> DEFINE kept == {e \in EntriesOf(Current) : ~Dead(e, th[t].start)}
    <3>1. (\E N : Rebuilt(N, kept)) \/ UNCHANGED table
      BY <2>1, CleanupEffect
    <3>2. kept \subseteq EntriesOf(Current)
      OBVIOUS
    <3> HIDE DEF kept
    <3>3. QED
      BY <3>1, <3>2, RebuiltValues
  <2>2. CASE Clear(t)
    BY <2>2, ClearEffect, Names
  <2>3. QED
    BY <2>1, <2>2
<1>3. /\ HoldsOK(t) /\ val' = val
      /\ val' \in [Obj -> Obj \cup {Nil}] /\ meta' \in [Obj -> Obj \cup {Nil}]
  BY <1>1, CallFacts DEF entry, ShapeInv, StateTypes
<1>4. mu = t
  BY <1>1, <1>3 DEF HoldsOK, Held, Working
<1>5. /\ tabs' \in Seq(Tables) /\ tabs' # <<>> /\ TablesStay
      /\ cnt' = [live |-> Live(Current'), tomb |-> Tombstones(Current')]
      /\ \A g \in DOMAIN tabs' :
            /\ Sound(KeyIn, tabs'[g])
            /\ \A j \in DOMAIN tabs'[g] : tabs'[g][j] \in Obj => val'[tabs'[g][j]] # Nil
  BY <1>2, <1>3, TablesKept, TablesAdded
<1>6. QED
  BY <1>1, <1>3, <1>4, <1>5, OwnerEnds

\* The clock moves on, and a state without a step.
LEMMA ShapeTick == ASSUME ShapeInv, Tick \/ UNCHANGED vars PROVE ShapeInv'
<1>1. /\ UNCHANGED <<table, entry, limits, mu, op, th>> /\ now' \in Nat /\ now' >= now
  BY DEF Tick, vars, ShapeInv, StateTypes
<1>2. /\ tabs' = tabs /\ cnt' = cnt /\ val' = val /\ meta' = meta /\ op' = op /\ th' = th
      /\ hits' = hits /\ exp' = exp /\ hasMeta' = hasMeta /\ mu' = mu
      /\ KeyIn' = KeyIn /\ \A e : KeyOf(e)' = KeyOf(e)
  BY <1>1, KeysSame DEF table, entry, limits
<1>3. StateTypes' /\ TablesOK'
  BY <1>1, <1>2 DEF ShapeInv, StateTypes, OpsTyped, TablesOK, Current, At
<1>4. ASSUME NEW t \in Call PROVE (LocalTypes(t) /\ KindOK(t) /\ HoldsOK(t))'
  <2>1. LocalTypes(t) /\ KindOK(t) /\ HoldsOK(t) /\ now \in Nat
    BY CallFacts
  <2>2. LocalTypes(t)' /\ KindOK(t)'
    BY <1>1, <1>2, <2>1 DEF LocalTypes, KindOK, Kind
  <2>3. Found(t)' = Found(t) /\ Current' = Current
    BY <1>2, FoundSame
  <2>4. HoldsOK(t)'
    BY <1>2, <2>1, <2>3 DEF HoldsOK, Kind
  <2>5. QED
    BY <2>2, <2>4
<1>5. QED
  BY <1>3, <1>4 DEF ShapeInv

\* The steps of Next, the methods that find an entry as one.
LEMMA Steps ==
    ASSUME NEW t \in Call, Step(t)
    PROVE  \/ Invoke(t) \/ Find(t) \/ RangeSlot(t) \/ LoadMeta(t) \/ CheckLimit(t)
           \/ ConsumeHit(t) \/ LoadVal(t) \/ Lock(t) \/ Grow(t) \/ InsertEntry(t)
           \/ LockedAbsent(t) \/ Finds(t) \/ ComputePanics(t) \/ StoreVal(t) \/ StoreMeta(t)
           \/ RemoveEntry(t) \/ CleanupNow(t) \/ Clear(t)
  BY DEF Step, Finds

\* Every step keeps the invariant.
LEMMA ShapeNext == ASSUME ShapeInv, [Next]_vars PROVE ShapeInv'
<1>1. ASSUME NEW t \in Call, Step(t) PROVE ShapeInv'
  BY <1>1, Steps, ShapeInvoke, ShapeFind, ShapeRangeSlot, ShapeLoadMeta, ShapeCheckLimit,
     ShapeConsumeHit, ShapeLoadVal, ShapeLock, ShapeGrow, ShapeInsert, ShapeLockedAbsent,
     ShapeFinds, ShapePanics, ShapeStoreVal, ShapeStoreMeta, ShapeRemove, ShapeSweeps
<1>2. QED
  BY <1>1, ShapeTick DEF Next, Finished

\* What a workload begins with.
LEMMA InitFacts ==
    ASSUME Init
    PROVE  \E w \in Workloads :
             /\ tabs = <<w.slots>> /\ now = w.now
             /\ OpsTyped /\ \A k \in Key : op[k] = w.first[k]
<1>w. PICK w \in Workloads : \E f \in [Call -> w.ops] :
         /\ tabs = <<w.slots>> /\ now = w.now
         /\ op = [o \in Obj |-> IF o \in Key THEN w.first[o] ELSE f[o]]
  BY DEF Init
<1>1. PICK f \in [Call -> w.ops] :
         /\ tabs = <<w.slots>> /\ now = w.now
         /\ op = [o \in Obj |-> IF o \in Key THEN w.first[o] ELSE f[o]]
  BY <1>w
<1>2. /\ w.ops \subseteq Operations /\ w.first \in [Key -> Operations]
      /\ \A k \in Key : w.first[k].key = k
  BY WorkloadsAssumption
<1>3. op \in [Obj -> Operations] /\ \A k \in Key : op[k] = w.first[k]
  BY <1>1, <1>2 DEF Obj
<1>4. QED
  BY <1>1, <1>2, <1>3 DEF OpsTyped

\* Before the calls every key stands where its probe stops.
LEMMA InitSound ==
    ASSUME OpsTyped, NEW w \in Workloads
    PROVE  Sound(KeyIn, w.slots)
<1> DEFINE T == w.slots
<1>1. /\ Size(T) \in Nat /\ T \in [0..(Size(T) - 1) -> Key \cup {Nil, Tomb}]
      /\ \E i \in DOMAIN T : T[i] = Nil
      /\ \A i \in DOMAIN T : T[i] \in Key =>
            \E d \in DOMAIN T :
               /\ ProbeSlot(T, T[i], d) = i
               /\ \A c \in 0..(d - 1) : T[ProbeSlot(T, T[i], c)] \notin {Nil, T[i]}
  BY WorkloadsAssumption
<1> HIDE DEF T
<1>2. DOMAIN T = 0..(Size(T) - 1) /\ Size(T) \in Nat \ {0}
  BY <1>1
<1>3. T \in Table(Size(T))
  BY <1>1 DEF Table, Cell, Obj
<1>4. T \in Tables
  BY <1>2, <1>3 DEF Tables
<1>5. \A k \in Key : KeyIn[k] = k
  BY DEF KeyIn, KeyOf, Obj
<1>6. ASSUME NEW i \in DOMAIN T, T[i] \in Obj PROVE Chained(KeyIn, T, i)
  <2>1. T[i] \in Key /\ KeyIn[T[i]] = T[i]
    BY <1>1, <1>2, <1>5, <1>6, Names
  <2> DEFINE k == T[i]
  <2>2. PICK d \in DOMAIN T :
           /\ ProbeSlot(T, k, d) = i
           /\ \A c \in 0..(d - 1) : T[ProbeSlot(T, k, c)] \notin {Nil, k}
    BY <1>1, <2>1
  <2>3. ASSUME NEW c \in 0..(d - 1) PROVE T[ProbeSlot(T, k, c)] \notin Stops(KeyIn, k)
    <3>1. c \in DOMAIN T
      BY <1>2
    <3>2. ProbeSlot(T, k, c) \in DOMAIN T
      BY <1>4, <2>1, <3>1, Probes
    <3> DEFINE x == T[ProbeSlot(T, k, c)]
    <3>3. x \in Key \cup {Nil, Tomb} /\ x \notin {Nil, k}
      BY <1>1, <2>2, <3>2
    <3> HIDE DEF x, k
    <3>4. x \in Obj => x \in Key /\ KeyIn[x] = x
      BY <3>3, <1>5, Names
    <3>5. QED
      BY <3>3, <3>4 DEF Stops, x
  <2>4. k \in Stops(KeyIn, k)
    BY <2>1, <1>6 DEF Stops
  <2>5. FirstAt(T, k, Stops(KeyIn, k), d)
    BY <2>2, <2>3, <2>4 DEF FirstAt
  <2>6. QED
    BY <2>1, <2>2, <2>5 DEF Chained
<1>7. Sound(KeyIn, T)
  BY <1>1, <1>4, <1>6 DEF Sound
<1>8. QED
  BY <1>7 DEF T

\* The invariant holds before the calls.
LEMMA ShapeInit == ASSUME Init PROVE ShapeInv
<1>1. PICK w \in Workloads : tabs = <<w.slots>> /\ now = w.now /\ OpsTyped
  BY InitFacts
<1>2. Sound(KeyIn, w.slots) /\ w.slots \in Tables /\ MaxTime \in Nat /\ w.now \in 0..MaxTime
  BY <1>1, InitSound, WorkloadsAssumption DEF Sound
<1>3. tabs \in Seq(Tables) /\ tabs # <<>> /\ DOMAIN tabs = {1} /\ tabs[1] = w.slots
  BY <1>1, <1>2
<1>4. /\ cnt = [live |-> Live(Current), tomb |-> Tombstones(Current)]
      /\ val = [e \in Obj |-> IF e \in Key THEN e ELSE Nil]
      /\ meta = [e \in Obj |-> IF e \in Key /\ Limited(e) THEN e ELSE Nil]
      /\ hits = [m \in Obj |-> op[m].hits]
      /\ exp = [m \in Obj |-> IF m \in Key THEN op[m].ttl ELSE 0]
      /\ hasMeta = \E k \in Key : Limited(k)
      /\ mu = Nil /\ th = [t \in Call |-> Locals]
  BY DEF Init
<1>5. \A m \in Obj : op[m].hits \in Nat /\ op[m].ttl \in Nat
  BY <1>1 DEF OpsTyped, Operations
<1>6. /\ val \in [Obj -> Obj \cup {Nil}] /\ meta \in [Obj -> Obj \cup {Nil}]
      /\ hits \in [Obj -> Int] /\ exp \in [Obj -> Nat] /\ hasMeta \in BOOLEAN
  BY <1>4, <1>5 DEF Obj
<1>7. th = [t \in Call |-> th[t]] /\ \A t \in Call : th[t] = Locals
  BY <1>4
<1>8. StateTypes
  BY <1>1, <1>2, <1>3, <1>4, <1>6, <1>7 DEF StateTypes
<1>9. ASSUME NEW t \in Call PROVE LocalTypes(t) /\ KindOK(t) /\ HoldsOK(t)
  <2>1. th[t] = Locals /\ mu # t /\ now \in Nat
    BY <1>1, <1>2, <1>4, <1>7, TypedNamesAssumption
  <2>2. /\ DOMAIN Locals = Fields /\ Locals.pc = "call" /\ Locals.tab = 0 /\ Locals.d = 0
        /\ Locals.md = Nil /\ Locals.word = Nil /\ Locals.start = 0
    BY DEF Locals, Fields
  <2>3. QED
    BY <2>1, <2>2 DEF LocalTypes, KindOK, HoldsOK, Viewing, Held, Working
<1>10. TablesOK
  <2>1. \A i \in DOMAIN w.slots : w.slots[i] \in Obj => w.slots[i] \in Key
    <3>1. w.slots \in [0..(Size(w.slots) - 1) -> Key \cup {Nil, Tomb}]
      BY WorkloadsAssumption
    <3>2. QED
      BY <3>1, Names
  <2>2. \A k \in Key : val[k] # Nil
    BY <1>4, Names DEF Obj
  <2>3. \A t \in Call : val[t] = Nil
    BY <1>4, TypedNamesAssumption DEF Obj
  <2>4. QED
    BY <1>2, <1>3, <2>1, <2>2, <2>3 DEF TablesOK
<1>11. QED
  BY <1>8, <1>9, <1>10 DEF ShapeInv

\* It always holds.
LEMMA ShapeAlways == Spec => []ShapeInv
  BY ShapeInit, ShapeNext, PTL DEF Spec
-------------------------------------------------------------------------------
\* In every table a key has one slot at most, where the loops of the writers
\* stop, some slot is empty, and outside the mutex the counts are exact
\* (growLocked, rebuildLocked, insertLocked, removeLocked).
THEOREM TypedTablesAreSound == Spec => []TypedTablesSound
<1>1. ASSUME ShapeInv PROVE TypedTablesSound
  <2>1. ASSUME NEW g \in DOMAIN tabs
        PROVE  /\ \E i \in DOMAIN tabs[g] : tabs[g][i] = Nil
               /\ \A i \in DOMAIN tabs[g] :
                     IsEntry(tabs[g][i]) => StopSlot(tabs[g], KeyOf(tabs[g][i])) = i
    <3> DEFINE T == tabs[g]
    <3>1. Sound(KeyIn, T) /\ T \in Tables
      BY <1>1, CurrentOK
    <3> HIDE DEF T
    <3>2. ASSUME NEW i \in DOMAIN T, IsEntry(T[i]) PROVE StopSlot(T, KeyOf(T[i])) = i
      <4>1. T[i] \in Obj
        BY <3>1, <3>2, TableSize, Names DEF Table
      <4>2. KeyIn[T[i]] = KeyOf(T[i]) /\ KeyIn[T[i]] \in Key
        BY <3>1, <4>1 DEF KeyIn, Sound, Chained
      <4>3. QED
        BY <3>1, <4>1, <4>2, Stop, StopIs
    <3>3. \E i \in DOMAIN T : T[i] = Nil
      BY <3>1 DEF Sound
    <3>4. QED
      BY <3>2, <3>3 DEF T
  <2>2. cnt = [live |-> Live(Current), tomb |-> Tombstones(Current)]
    BY <1>1 DEF ShapeInv, StateTypes
  <2>3. QED
    BY <2>1, <2>2 DEF TypedTablesSound
<1>2. QED
  BY <1>1, ShapeAlways, PTL

-------------------------------------------------------------------------------
\* LimitInv.  What a step of t does to what the other calls know: it stores its
\* own name, under the mutex, and its expiry when it begins.
Calm(t) ==
    /\ Moved(t) /\ op' = op /\ th[t].pc # "done"
    /\ th[t].pc = "storeMeta" => th'[t].pc = "done"
    /\ \A e \in Obj : val'[e] = val[e] \/ (val'[e] = t /\ mu = t)
    /\ \A w \in Obj : exp'[w] = exp[w] \/ (w = t /\ th[t].pc = "call")

\* The other calls know what they knew.
LEMMA OthersKnow ==
    ASSUME ShapeInv, LimitInv, NEW t \in Call, Calm(t), NEW u \in Call, u # t
    PROVE  KnowsOK(u)'
<1>1. /\ LocalTypes(u) /\ HoldsOK(u) /\ KnowsOK(u) /\ th'[u] = th[u] /\ op' = op
      /\ th[t].pc # "done" /\ \A x \in Call : x # t => th'[x] = th[x]
  BY CallFacts DEF LimitInv, Calm, Moved
<1>2. \A x \in Call : At(x, "done") => x # t /\ At(x, "done")'
  BY <1>1 DEF At
<1>3. \A x \in Call : th[x].pc \in {"storeMeta", "done"} => th'[x].pc \in {"storeMeta", "done"}
  BY <1>1 DEF Calm
<1>4. /\ Kind(u)' = Kind(u) /\ \A w : MetaOf(w)' = MetaOf(w) /\ Since(u, w)' = Since(u, w)
  BY <1>1 DEF Kind, MetaOf, Limited, Since
<1>5. t \notin Key /\ t \notin th[u].before
  BY <1>1, TypedNamesAssumption DEF KnowsOK, At
<1>6. /\ \A x \in th'[u].before : x \in Call /\ At(x, "done")'
      /\ th'[u].md \in Call => At(th[u].md, "done")'
      /\ th'[u].word \in Call => th'[th'[u].word].pc \in {"storeMeta", "done"}
  <2>1. /\ \A x \in th[u].before : x \in Call /\ At(x, "done")
        /\ th[u].md \in Call => At(th[u].md, "done")
        /\ th[u].word \in Call => th[th[u].word].pc \in {"storeMeta", "done"}
    BY <1>1 DEF KnowsOK
  <2>2. \A x \in th'[u].before : x \in Call /\ At(x, "done")'
    BY <1>1, <1>2, <2>1, Zenon
  <2>3. th'[u].md \in Call => At(th[u].md, "done")'
    BY <1>1, <1>2, <2>1, Zenon
  <2>4. th'[u].word \in Call => th'[th'[u].word].pc \in {"storeMeta", "done"}
    BY <1>1, <1>3, <2>1, Zenon
  <2>5. QED
    BY <2>2, <2>3, <2>4
<1>7. th'[u].pc \in {"limit", "consume", "val"} /\ Kind(u)' \notin Ranges
         /\ Since(u, val[th[u].ent])' => th'[u].md = MetaOf(val[th[u].ent])'
  <2>1. SUFFICES ASSUME th[u].pc \in {"limit", "consume", "val"}, Kind(u) \notin Ranges,
                        Since(u, val'[th[u].ent])
                 PROVE  th[u].md = MetaOf(val'[th[u].ent])
    BY <1>1, <1>4
  <2>2. th[u].ent \in Obj
    BY <1>1, <2>1 DEF HoldsOK, Viewing
  <2>3. val'[th[u].ent] = val[th[u].ent]
    BY <1>5, <2>1, <2>2 DEF Calm, Since
  <2>4. QED
    BY <1>1, <2>1, <2>3 DEF KnowsOK
<1>8. \A w \in Obj : (w \in Call => th[w].pc # "call") => exp'[w] = exp[w]
  BY DEF Calm
<1>9. th[u].md \in Obj => exp'[th[u].md] = exp[th[u].md]
  BY <1>1, <1>8 DEF KnowsOK, At
<1>10. th[u].word \in Obj => exp'[th[u].word] = exp[th[u].word]
  BY <1>1, <1>8 DEF KnowsOK
<1>11. /\ Fresh(u, th[u].md) => Fresh(u, th[u].md)'
       /\ Fresh(u, th[u].word) => Fresh(u, th[u].word)'
  BY <1>1, <1>9, <1>10 DEF Fresh, LocalTypes
<1>12. th'[u].pc = "storeMeta" => val'[th'[u].ent] = u
  <2>1. SUFFICES ASSUME th[u].pc = "storeMeta" PROVE val'[th[u].ent] = u
    BY <1>1
  <2>2. th[u].ent \in Obj /\ mu = u /\ val[th[u].ent] = u
    BY <1>1, <2>1 DEF HoldsOK, Working, Held, KnowsOK
  <2>3. QED
    BY <2>2 DEF Calm
<1>13. /\ th'[u].pc = "consume" => op'[th'[u].md].hits > 0
       /\ th'[u].pc \notin Working \cup {"done"} => th'[u].word = Nil
       /\ Kind(u)' \in Ranges => th'[u].word = Nil
  BY <1>1, <1>4 DEF KnowsOK
<1>14. /\ th'[u].pc \in {"consume", "val"} /\ Kind(u)' \notin Ranges => Fresh(u, th[u].md)'
       /\ Since(u, th[u].word)' => Fresh(u, th[u].word)'
  <2>1. /\ th[u].pc \in {"consume", "val"} /\ Kind(u) \notin Ranges => Fresh(u, th[u].md)
        /\ Since(u, th[u].word) => Fresh(u, th[u].word)
    BY <1>1 DEF KnowsOK
  <2>2. Since(u, th[u].word)' = Since(u, th[u].word)
    BY <1>1 DEF Since
  <2>3. QED
    BY <1>1, <1>4, <1>11, <2>1, <2>2
<1>15. QED
  BY <1>6, <1>7, <1>12, <1>13, <1>14 DEF KnowsOK

\* A step that pays for nothing new keeps the budget.
LEMMA BudgetKept ==
    ASSUME ShapeInv, LimitInv, NEW t \in Call, Moved(t), op' = op, hits' = hits,
           \A w \in Obj : op[w].hits > 0 /\ Paid(t, w)' => Paid(t, w)
    PROVE  BudgetOK'
<1>1. ASSUME NEW w \in Obj, op[w].hits > 0
      PROVE  /\ IsFiniteSet(Payers(w)')
             /\ Cardinality(Payers(w)') + (IF hits[w] > 0 THEN hits[w] ELSE 0) <= op[w].hits
  <2>1. \A u \in Call : u # t => th'[u] = th[u]
    BY DEF Moved
  <2>2. Payers(w)' \subseteq Payers(w)
    BY <1>1, <2>1 DEF Payers, Paid, Kind, At, Since
  <2>3. /\ IsFiniteSet(Payers(w)) /\ hits[w] \in Int /\ op[w].hits \in Nat
        /\ Cardinality(Payers(w)) + (IF hits[w] > 0 THEN hits[w] ELSE 0) <= op[w].hits
    BY <1>1 DEF LimitInv, BudgetOK, ShapeInv, StateTypes, OpsTyped, Operations
  <2> DEFINE P == Payers(w)
             Q == Payers(w)'
  <2>4. /\ IsFiniteSet(Q) /\ Cardinality(Q) \in Nat /\ Cardinality(P) \in Nat
        /\ Cardinality(Q) <= Cardinality(P)
    <3> HIDE DEF P, Q
    <3>1. Q \subseteq P /\ IsFiniteSet(P)
      BY <2>2, <2>3 DEF P, Q
    <3>2. QED
      BY <3>1, FS_Subset, FS_CardinalityType
  <2>5. QED
    BY <2>3, <2>4
<1>2. QED
  BY <1>1 DEF BudgetOK

\* A step that leaves entries and their limits alone keeps the pairs.
LEMMA PairsKept ==
    ASSUME ShapeInv, LimitInv, NEW t \in Call, Moved(t), UNCHANGED <<entry, exp, hasMeta, op>>,
           th[t].pc \notin {"done", "storeMeta", "call"}
    PROVE  PairsOK'
<1>1. /\ val' = val /\ meta' = meta /\ exp' = exp /\ hasMeta' = hasMeta /\ op' = op
      /\ \A x \in Call : x # t => th'[x] = th[x]
  BY DEF entry, Moved
<1>2. \A w : Limited(w)' = Limited(w) /\ MetaOf(w)' = MetaOf(w)
  BY <1>1 DEF MetaOf, Limited
<1>3. PairsOK
  BY DEF LimitInv
<1>4. \A e \in Obj : val[e] \in Call => th'[val[e]].pc \in {"storeMeta", "done"}
  BY <1>1, <1>3 DEF PairsOK
<1>5. \A e \in Obj : val[e] # Nil =>
         meta[e] = MetaOf(val[e])
         \/ (val[e] \in Call /\ th'[val[e]].pc = "storeMeta" /\ th'[val[e]].ent = e)
  BY <1>1, <1>3 DEF PairsOK, At
<1>6. \A e \in Obj : meta[e] # Nil =>
         Limited(meta[e]) /\ (meta[e] \in Call => th'[meta[e]].pc = "done")
  BY <1>1, <1>3 DEF PairsOK, At
<1>7. \A w \in Obj : Limited(w) /\ (w \in Call => th'[w].pc # "call") => hasMeta
  BY <1>1, <1>3 DEF PairsOK, At
<1>8. \A w \in Obj : op[w].ttl = 0 => exp[w] = 0
  BY <1>3 DEF PairsOK
<1>9. QED
  BY <1>1, <1>2, <1>4, <1>5, <1>6, <1>7, <1>8 DEF PairsOK, At

\* Such a step keeps LimitInv if its call does.
LEMMA LimitQuiet ==
    ASSUME ShapeInv, LimitInv, NEW t \in Call, Moved(t), UNCHANGED <<entry, limits, op>>,
           th[t].pc \notin {"done", "storeMeta", "call"}, KnowsOK(t)',
           \A w \in Obj : op[w].hits > 0 /\ Paid(t, w)' => Paid(t, w)
    PROVE  LimitInv'
<1>1. hits' = hits /\ op' = op /\ exp' = exp /\ hasMeta' = hasMeta
  BY DEF limits
<1>2. BudgetOK' /\ PairsOK'
  BY <1>1, BudgetKept, PairsKept
<1>3. Calm(t)
  BY DEF Calm, entry, limits
<1>4. QED
  BY <1>2, <1>3, OthersKnow DEF LimitInv

-------------------------------------------------------------------------------
\* What the call that takes a step keeps knowing.
LEMMA SelfKnows ==
    ASSUME ShapeInv, LimitInv, NEW t \in Call, Moved(t), th[t].pc # "done"
    PROVE  /\ \A u \in th[t].before : u \in Call /\ u # t /\ th'[u].pc = "done"
           /\ th[t].md \in Call => th'[th[t].md].pc = "done"
           /\ \A w \in Call : th[w].pc = "done" => w # t /\ th'[w].pc = "done"
           /\ \A w \in Call : th[w].pc \in {"storeMeta", "done"} /\ w # t =>
                 th'[w].pc \in {"storeMeta", "done"}
           /\ th[t].word \in Call => th[th[t].word].pc \in {"storeMeta", "done"}
           /\ th[t].pc \notin Working => th[t].word = Nil
           /\ Since(t, th[t].word) => Fresh(t, th[t].word)
<1>1. \A u \in Call : u # t => th'[u] = th[u]
  BY DEF Moved
<1>2. KnowsOK(t)
  BY DEF LimitInv
<1>3. \A u \in th[t].before : u \in Call /\ th[u].pc = "done"
  BY <1>2 DEF KnowsOK, At
<1>4. \A w \in Call : th[w].pc = "done" => w # t /\ th'[w].pc = "done"
  BY <1>1
<1>5. th[t].md \in Call => th[th[t].md].pc = "done"
  BY <1>2 DEF KnowsOK, At
<1>6. /\ th[t].word \in Call => th[th[t].word].pc \in {"storeMeta", "done"}
      /\ th[t].pc \notin Working => th[t].word = Nil
      /\ Since(t, th[t].word) => Fresh(t, th[t].word)
  BY <1>2 DEF KnowsOK
<1>7. \A w \in Call : th[w].pc \in {"storeMeta", "done"} /\ w # t =>
         th'[w].pc \in {"storeMeta", "done"}
  BY <1>1
<1>8. QED
  BY <1>3, <1>4, <1>5, <1>6, <1>7

\* A step to a label without knowledge.
LEMMA KnowsIdle ==
    ASSUME ShapeInv, LimitInv, NEW t \in Call, NEW p, NEW g, NEW x, NEW e,
           Lands(t, p, g, x, e, th[t].md), th'[t].word = th[t].word, op' = op,
           th[t].pc \notin Working \cup {"done"},
           p \notin Working \cup {"limit", "consume", "val", "done"}
    PROVE  KnowsOK(t)'
<1>1. /\ Moved(t) /\ th'[t].pc = p /\ th'[t].md = th[t].md /\ th'[t].before = th[t].before
      /\ th[t].pc # "done" /\ p \notin {"limit", "consume", "val", "done", "storeMeta"}
  BY DEF Lands, Working
<1>2. /\ \A u \in th'[t].before : u \in Call /\ th'[u].pc = "done"
      /\ th'[t].md \in Call => th'[th'[t].md].pc = "done"
      /\ th'[t].word = Nil
  BY <1>1, SelfKnows
<1>3. Nil \notin Call /\ Fresh(t, th[t].word)'
  BY <1>2, TypedNamesAssumption DEF Fresh
<1>4. QED
  BY <1>1, <1>2, <1>3 DEF KnowsOK, At

\* A call that ends.
LEMMA KnowsEnds ==
    ASSUME ShapeInv, LimitInv, NEW t \in Call, Ends(t), UNCHANGED <<op, exp>>, NEW w,
           th'[t].word = w, w \in Call => w = t \/ th[w].pc \in {"storeMeta", "done"},
           Since(t, w) => Fresh(t, w), Kind(t) \in Ranges => w = Nil, th[t].pc # "done"
    PROVE  KnowsOK(t)'
<1>1. /\ Moved(t) /\ th'[t].pc = "done" /\ th'[t].md = Nil /\ th'[t].before = th[t].before
      /\ th'[t].start = th[t].start /\ Nil \notin Call /\ Kind(t)' = Kind(t)
  BY TypedNamesAssumption DEF Ends, Kind
<1>2. \A u \in th'[t].before : u \in Call /\ th'[u].pc = "done"
  BY <1>1, SelfKnows
<1>3. w \in Call => th'[w].pc \in {"storeMeta", "done"}
  BY <1>1, SelfKnows
<1>4. Since(t, th[t].word)' => Fresh(t, th[t].word)'
  BY <1>1 DEF Since, Fresh
<1>5. QED
  BY <1>1, <1>2, <1>3, <1>4 DEF KnowsOK, At

\* A call that looks at metadata or goes on to the value.
LEMMA KnowsViews ==
    ASSUME ShapeInv, LimitInv, NEW t \in Call, NEW p \in {"limit", "consume", "val"},
           NEW g, NEW x, NEW m, Lands(t, p, g, x, th[t].ent, m), th'[t].word = th[t].word,
           UNCHANGED <<entry, op, exp>>, th[t].pc \in Viewing,
           m \in Call => At(m, "done"),
           Kind(t) \notin Ranges /\ Since(t, val[th[t].ent]) => m = MetaOf(val[th[t].ent]),
           p = "consume" => op[m].hits > 0,
           p \in {"consume", "val"} /\ Kind(t) \notin Ranges => Fresh(t, m)
    PROVE  KnowsOK(t)'
<1>1. /\ Moved(t) /\ th'[t].pc = p /\ th'[t].md = m /\ th'[t].before = th[t].before
      /\ th'[t].start = th[t].start /\ th'[t].ent = th[t].ent /\ Nil \notin Call
      /\ Kind(t)' = Kind(t) /\ val' = val
  BY TypedNamesAssumption DEF Lands, Kind, entry
<1>2. th[t].pc \notin Working \cup {"done"} /\ p # "storeMeta"
  BY DEF Viewing, Working
<1>3. /\ \A u \in th'[t].before : u \in Call /\ th'[u].pc = "done"
      /\ m \in Call => th'[m].pc = "done"
      /\ th'[t].word = Nil
  BY <1>1, <1>2, SelfKnows DEF At
<1>4. \A w : Since(t, w)' = Since(t, w) /\ MetaOf(w)' = MetaOf(w) /\ Fresh(t, w)' = Fresh(t, w)
  BY <1>1 DEF Since, MetaOf, Limited, Fresh
<1>5. Kind(t)' \notin Ranges /\ Since(t, val[th[t].ent])' => th'[t].md = MetaOf(val[th[t].ent])'
  BY <1>1, <1>4
<1>6. p \in {"consume", "val"} /\ Kind(t)' \notin Ranges => Fresh(t, th[t].md)'
  BY <1>1 DEF Fresh
<1>7. Fresh(t, th[t].word)'
  BY <1>3 DEF Fresh
<1>8. QED
  BY <1>1, <1>2, <1>3, <1>5, <1>6, <1>7 DEF KnowsOK, At

\* A call pays for a value only on its way to the answer.
LEMMA NotPaid ==
    ASSUME NEW t \in Call, NEW w \in Obj,
           th'[t].pc # "done" \/ th'[t].word = Nil, th'[t].pc # "val" \/ th'[t].md # w
    PROVE  ~Paid(t, w)'
  BY Names DEF Paid, At

\* Invoke.
LEMMA LimitInvoke == ASSUME ShapeInv, LimitInv, NEW t \in Call, Invoke(t) PROVE LimitInv'
<1>1. /\ Moved(t) /\ Same(t) /\ th'[t].pc \in {"find", "range", "lock"}
      /\ th'[t].md = th[t].md /\ th'[t].before = {u \in Call : At(u, "done")}
      /\ UNCHANGED <<table, entry, hits, mu, now, op>>
      /\ exp' = [exp EXCEPT ![t] = IF op[t].ttl > 0 THEN now + op[t].ttl ELSE 0]
      /\ hasMeta' = (hasMeta \/ Limited(t))
  BY InvokeEffect
<1>2. /\ th[t].pc = "call" /\ th[t].pc \notin Working \cup {"done"} /\ t \in Obj
      /\ val' = val /\ meta' = meta /\ op' = op /\ hits' = hits
      /\ \A x \in Call : x # t => th'[x] = th[x]
      /\ exp \in [Obj -> Nat] /\ PairsOK /\ Nil \notin Call
  BY <1>1, CallFacts, LimitTypes, TypedNamesAssumption
     DEF Invoke, At, Working, entry, Moved, LimitInv
<1>3. \A w \in Obj : w # t => exp'[w] = exp[w]
  BY <1>1, <1>2
<1>4. exp'[t] = IF op[t].ttl > 0 THEN now + op[t].ttl ELSE 0
  BY <1>1, <1>2
<1>5. \A w : Limited(w)' = Limited(w) /\ MetaOf(w)' = MetaOf(w)
  BY <1>2 DEF MetaOf, Limited
<1>6. PairsOK'
  <2>1. \A e \in Obj : val[e] \in Call => th'[val[e]].pc \in {"storeMeta", "done"}
    BY <1>2 DEF PairsOK
  <2>2. \A e \in Obj : val[e] # Nil =>
           meta[e] = MetaOf(val[e])
           \/ (val[e] \in Call /\ th'[val[e]].pc = "storeMeta" /\ th'[val[e]].ent = e)
    BY <1>2 DEF PairsOK, At
  <2>3. \A e \in Obj : meta[e] # Nil =>
           Limited(meta[e]) /\ (meta[e] \in Call => th'[meta[e]].pc = "done")
    BY <1>2 DEF PairsOK, At
  <2>4. ASSUME NEW w \in Obj, Limited(w), w \in Call => th'[w].pc # "call" PROVE hasMeta'
    <3>1. CASE w = t
      BY <1>1, <2>4, <3>1
    <3>2. CASE w # t
      <4>1. w \in Call => ~At(w, "call")
        BY <1>2, <2>4, <3>2 DEF At
      <4>2. hasMeta
        BY <1>2, <2>4, <4>1 DEF PairsOK
      <4>3. QED
        BY <1>1, <4>2
    <3>3. QED
      BY <3>1, <3>2
  <2>5. \A w \in Obj : op[w].ttl = 0 => exp'[w] = 0
    BY <1>2, <1>3, <1>4 DEF PairsOK
  <2>6. QED
    BY <1>2, <1>5, <2>1, <2>2, <2>3, <2>4, <2>5 DEF PairsOK, At
<1>7. BudgetOK'
  <2>1. \A w \in Obj : ~Paid(t, w)'
    BY <1>1, NotPaid
  <2>2. QED
    BY <1>1, <1>2, <2>1, BudgetKept
<1>8. KnowsOK(t)'
  <2>1. th'[t].word = Nil
    BY <1>1, <1>2, SelfKnows DEF Same
  <2>2. \A u \in th'[t].before : u \in Call /\ th'[u].pc = "done"
    BY <1>1, <1>2 DEF At
  <2>3. Fresh(t, th[t].word)'
    BY <2>1 DEF Fresh
  <2>4. th'[t].pc \notin {"limit", "consume", "val", "storeMeta", "done"}
    BY <1>1
  <2>5. th'[t].md \in Call => th'[th'[t].md].pc = "done"
    BY <1>1, <1>2, SelfKnows
  <2>6. QED
    BY <1>2, <2>1, <2>2, <2>3, <2>4, <2>5 DEF KnowsOK, At
<1>9. Calm(t)
  BY <1>1, <1>2, <1>3 DEF Calm
<1>10. QED
  BY <1>6, <1>7, <1>8, <1>9, OthersKnow DEF LimitInv

\* A step of a reader to a label without knowledge, or to the end without a value.
LEMMA LimitIdle ==
    ASSUME ShapeInv, LimitInv, NEW t \in Call, UNCHANGED <<entry, limits, op>>,
           th[t].pc \notin Working \cup {"done", "call"}, th'[t].word = th[t].word,
           \/ Ends(t)
           \/ \E p, g, x, e : /\ p \notin Working \cup {"limit", "consume", "val", "done"}
                              /\ Lands(t, p, g, x, e, th[t].md)
    PROVE  LimitInv'
<1>1. Moved(t) /\ th[t].pc \notin {"done", "storeMeta", "call"} /\ op' = op /\ exp' = exp
  BY DEF Ends, Lands, Working, limits
<1>2. th'[t].word = Nil
  BY <1>1, SelfKnows
<1>3. CASE Ends(t)
  <2>1. Fresh(t, Nil) /\ Nil \notin Call
    BY TypedNamesAssumption DEF Fresh
  <2>2. KnowsOK(t)'
    BY <1>1, <1>2, <1>3, <2>1, KnowsEnds
  <2>3. \A w \in Obj : ~Paid(t, w)'
    BY <1>2, <1>3, NotPaid DEF Ends
  <2>4. QED
    BY <1>1, <2>2, <2>3, LimitQuiet
<1>4. CASE \E p, g, x, e : /\ p \notin Working \cup {"limit", "consume", "val", "done"}
                           /\ Lands(t, p, g, x, e, th[t].md)
  <2>1. PICK p, g, x, e : /\ p \notin Working \cup {"limit", "consume", "val", "done"}
                          /\ Lands(t, p, g, x, e, th[t].md)
    BY <1>4
  <2>2. KnowsOK(t)'
    BY <1>1, <2>1, KnowsIdle
  <2>3. \A w \in Obj : ~Paid(t, w)'
    BY <1>2, <2>1, NotPaid DEF Lands
  <2>4. QED
    BY <1>1, <2>2, <2>3, LimitQuiet
<1>5. QED
  BY <1>3, <1>4

\* An answer "absent".
LEMMA LimitMissed ==
    ASSUME ShapeInv, LimitInv, NEW t \in Call, UNCHANGED <<entry, limits, op>>,
           th[t].pc \notin Working \cup {"done", "call"}, Missed(t)
    PROVE  LimitInv'
<1>1. CASE Goes(t, "lock")
  <2>1. "lock" \notin Working \cup {"limit", "consume", "val", "done"}
    BY DEF Working
  <2>2. QED
    BY <1>1, <2>1, LimitIdle DEF Goes, Same
<1>2. CASE Ends(t) /\ th'[t].word = th[t].word
  BY <1>2, LimitIdle
<1>3. QED
  BY <1>1, <1>2 DEF Missed

\* Find and RangeSlot.
LEMMA LimitFind ==
    ASSUME ShapeInv, LimitInv, NEW t \in Call, Find(t) \/ RangeSlot(t) PROVE LimitInv'
<1>1. /\ UNCHANGED <<entry, limits, op>> /\ th[t].pc \in {"find", "walk", "range", "visit"}
      /\ (\E g, d : ProbedAt(t, g, d)) \/ (\E g, d : Scanned(t, g, d))
  BY FindEffect, RangeSlotEffect
<1>2. th[t].pc \notin Working \cup {"done", "call"}
  BY <1>1 DEF Working
<1>3. \A p \in {"meta", "walk", "visit"} : p \notin Working \cup {"limit", "consume", "val", "done"}
  BY DEF Working
<1>4. \/ Missed(t)
      \/ Ends(t) /\ Same(t)
      \/ \E p \in {"meta", "walk", "visit"} : \E g, x, e : Lands(t, p, g, x, e, th[t].md) /\ Same(t)
  BY <1>1 DEF ProbedAt, Scanned
<1>5. CASE Missed(t)
  BY <1>1, <1>2, <1>5, LimitMissed
<1>6. CASE Ends(t) /\ Same(t)
  BY <1>1, <1>2, <1>6, LimitIdle DEF Same
<1>7. CASE \E p \in {"meta", "walk", "visit"} :
              \E g, x, e : Lands(t, p, g, x, e, th[t].md) /\ Same(t)
  BY <1>1, <1>2, <1>3, <1>7, LimitIdle DEF Same
<1>8. QED
  BY <1>4, <1>5, <1>6, <1>7

\* A value that was stored before a call began stands beside its metadata.
LEMMA Beforehand ==
    ASSUME ShapeInv, LimitInv, NEW t \in Call, NEW e \in Obj, val[e] # Nil, Since(t, val[e])
    PROVE  meta[e] = MetaOf(val[e]) /\ (Limited(val[e]) => hasMeta)
<1>1. PairsOK /\ KnowsOK(t) /\ val[e] \in Obj
  BY DEF LimitInv, ShapeInv, StateTypes
<1>2. val[e] \in Call => th[val[e]].pc = "done"
  BY <1>1, TypedNamesAssumption DEF Since, KnowsOK, At
<1>3. meta[e] = MetaOf(val[e])
  BY <1>1, <1>2 DEF PairsOK, At
<1>4. Limited(val[e]) => hasMeta
  BY <1>1, <1>2 DEF PairsOK, At
<1>5. QED
  BY <1>3, <1>4

\* LoadMeta.
LEMMA LimitLoadMeta ==
    ASSUME ShapeInv, LimitInv, NEW t \in Call, LoadMeta(t) PROVE LimitInv'
<1> DEFINE m == MetaSeen(t)
           p == IF m = Nil THEN "val" ELSE "limit"
<1>1. /\ UNCHANGED <<table, entry, limits, mu, now, op>> /\ th[t].pc = "meta"
      /\ Lands(t, p, th[t].tab, th[t].d, th[t].ent, m) /\ Same(t)
  BY LoadMetaEffect
<1>2. th[t].pc \in Viewing /\ HoldsOK(t)
  BY <1>1, CallFacts DEF Viewing
<1>3. th[t].ent \in Obj /\ val[th[t].ent] # Nil
  BY <1>2 DEF HoldsOK
<1>4. m \in Call => At(m, "done")
  <2>1. Nil \notin Call
    BY TypedNamesAssumption
  <2>2. QED
    BY <1>3, <2>1 DEF MetaSeen, LimitInv, PairsOK
<1>5. ASSUME Kind(t) \notin Ranges, Since(t, val[th[t].ent]) PROVE m = MetaOf(val[th[t].ent])
  <2>1. /\ meta[th[t].ent] = MetaOf(val[th[t].ent])
        /\ Limited(val[th[t].ent]) => hasMeta
    BY <1>3, <1>5, Beforehand
  <2>2. CASE Looks(t)
    BY <2>1, <2>2 DEF MetaSeen
  <2>3. CASE ~Looks(t)
    <3>1. ~hasMeta
      BY <1>5, <2>3 DEF Looks
    <3>2. QED
      BY <2>1, <2>3, <3>1 DEF MetaSeen, MetaOf
  <2>4. QED
    BY <2>2, <2>3
<1>6. p \in {"val", "limit"} /\ (p = "val" => m = Nil)
  OBVIOUS
<1> HIDE DEF p, m
<1>7. p \in {"consume", "val"} => Fresh(t, m)
  BY <1>6 DEF Fresh
<1>8. th'[t].word = th[t].word /\ exp' = exp /\ p # "consume"
  BY <1>1, <1>6 DEF Same, limits
<1>9. KnowsOK(t)'
  BY <1>1, <1>2, <1>4, <1>5, <1>6, <1>7, <1>8, KnowsViews
<1>10. \A w \in Obj : ~Paid(t, w)'
  BY <1>1, <1>6, Names, NotPaid DEF Lands
<1>11. Moved(t)
  BY <1>1 DEF Lands
<1>12. QED
  BY <1>1, <1>9, <1>10, <1>11, LimitQuiet

\* CheckLimit.
LEMMA LimitCheckLimit ==
    ASSUME ShapeInv, LimitInv, NEW t \in Call, CheckLimit(t) PROVE LimitInv'
<1> DEFINE m == th[t].md
<1>1. /\ UNCHANGED <<table, entry, limits, mu, now, op>> /\ th[t].pc = "limit"
      /\ Kind(t) \in Viewers
  BY CheckLimitEffect
<1>2. th[t].pc \in Viewing /\ HoldsOK(t) /\ LocalTypes(t) /\ KnowsOK(t)
      /\ th[t].pc \notin Working \cup {"done", "call"}
  BY <1>1, CallFacts DEF Viewing, Working, LimitInv
<1>3. m \in Obj /\ exp[m] \in Nat /\ now \in Nat /\ th[t].start \in Nat /\ th[t].start <= now
      /\ op[m].hits \in Nat
  BY <1>1, <1>2, CallFacts, LimitTypes DEF HoldsOK, LocalTypes, OpsTyped, Operations
<1>4. /\ m \in Call => At(m, "done")
      /\ Kind(t) \notin Ranges /\ Since(t, val[th[t].ent]) => m = MetaOf(val[th[t].ent])
  BY <1>1, <1>2 DEF KnowsOK
<1>5. ~Expired(m, now) => Fresh(t, m)
  BY <1>3 DEF Expired, Fresh
<1> HIDE DEF m
<1>6. ASSUME NEW p \in {"consume", "val"}, Goes(t, p), p = "consume" => op[m].hits > 0,
             Kind(t) \notin Ranges => Fresh(t, m),
             Kind(t) = "Load" /\ op[m].hits > 0 => p = "consume"
      PROVE  LimitInv'
  <2>1. /\ Lands(t, p, th[t].tab, th[t].d, th[t].ent, m) /\ th'[t].word = th[t].word
        /\ Moved(t) /\ exp' = exp /\ th'[t].pc = p /\ th'[t].md = m
    BY <1>1, <1>6 DEF Goes, Same, Lands, limits, m
  <2>2. KnowsOK(t)'
    BY <1>1, <1>2, <1>4, <1>6, <2>1, KnowsViews
  <2>3. ASSUME NEW w \in Obj, op[w].hits > 0 PROVE ~Paid(t, w)'
    <3>1. CASE Kind(t) = "Load" /\ op[m].hits > 0
      BY <1>6, <2>1, <3>1, NotPaid
    <3>2. CASE Kind(t) # "Load"
      BY <1>1, <3>2 DEF Paid, Kind
    <3>3. CASE ~(op[m].hits > 0)
      BY <1>6, <2>1, <2>3, <3>3, NotPaid
    <3>4. QED
      BY <3>1, <3>2, <3>3
  <2>4. QED
    BY <1>1, <1>2, <2>1, <2>2, <2>3, LimitQuiet
<1>7. CASE /\ Kind(t) = "Load" /\ ~Expired(m, now)
           /\ Goes(t, IF op[m].hits > 0 THEN "consume" ELSE "val")
  BY <1>5, <1>6, <1>7
<1>8. CASE /\ Kind(t) \notin {"Load"} /\ (Kind(t) \notin Ranges => ~DeadForView(m, now))
           /\ Goes(t, "val")
  BY <1>5, <1>6, <1>8 DEF DeadForView
<1>9. CASE Missed(t)
  BY <1>1, <1>2, <1>9, LimitMissed
<1>10. CASE Ends(t) /\ th'[t].word = th[t].word
  BY <1>1, <1>2, <1>10, LimitIdle
<1>11. CASE Continues(t) /\ Same(t)
  <2>1. "visit" \notin Working \cup {"limit", "consume", "val", "done"}
    BY DEF Working
  <2>2. Ends(t) \/ Lands(t, "visit", th[t].tab, th[t].d, th[t].ent, th[t].md)
    BY <1>11 DEF Continues
  <2>3. QED
    BY <1>1, <1>2, <1>11, <2>1, <2>2, LimitIdle DEF Same
<1>12. QED
  <2>1. \/ Kind(t) = "Load" /\ ~Expired(m, now)
           /\ Goes(t, IF op[m].hits > 0 THEN "consume" ELSE "val")
        \/ /\ Kind(t) \notin {"Load"} /\ (Kind(t) \notin Ranges => ~DeadForView(m, now))
           /\ Goes(t, "val")
        \/ Missed(t)
        \/ Ends(t) /\ th'[t].word = th[t].word
        \/ Continues(t) /\ Same(t)
    BY CheckLimitEffect DEF m, Ranges
  <2>2. QED
    BY <2>1, <1>7, <1>8, <1>9, <1>10, <1>11

\* A hit that is there pays for the Load that takes it.
LEMMA BudgetSpent ==
    ASSUME ShapeInv, LimitInv, NEW t \in Call, ConsumeHit(t)
    PROVE  BudgetOK'
<1> DEFINE m == th[t].md
<1>1. /\ th[t].pc = "consume" /\ m \in Obj /\ op' = op
      /\ hits' = [hits EXCEPT ![m] = @ - 1]
      /\ \/ hits[m] - 1 >= 0 /\ Goes(t, "val")
         \/ hits[m] - 1 < 0 /\ Ends(t) /\ th'[t].word = th[t].word
  BY ConsumeHitEffect
<1>2. hits \in [Obj -> Int] /\ Moved(t) /\ th[t].word = Nil
  BY <1>1, LimitTypes, SelfKnows DEF Goes, Lands, Ends, Working
<1>3. hits'[m] = hits[m] - 1 /\ \A w \in Obj : w # m => hits'[w] = hits[w]
  BY <1>1, <1>2
<1>4. ASSUME NEW w \in Obj, op[w].hits > 0
      PROVE  /\ IsFiniteSet(Payers(w)')
             /\ Cardinality(Payers(w)') + (IF hits'[w] > 0 THEN hits'[w] ELSE 0) <= op[w].hits
  <2> DEFINE P == Payers(w)
             Q == Payers(w)'
  <2>1. \A u \in Call : u # t => th'[u] = th[u]
    BY <1>2 DEF Moved
  <2>2. \A u \in Call : u # t => (Paid(u, w)' <=> Paid(u, w))
    BY <1>1, <2>1 DEF Paid, Kind, At, Since
  <2>3. Q \subseteq P \cup {t}
    BY <2>2 DEF Payers
  <2>4. /\ IsFiniteSet(P) /\ hits[w] \in Int /\ op[w].hits \in Nat
        /\ Cardinality(P) + (IF hits[w] > 0 THEN hits[w] ELSE 0) <= op[w].hits
    BY <1>2, <1>4 DEF LimitInv, BudgetOK, ShapeInv, StateTypes, OpsTyped, Operations
  <2>5. ASSUME ~Paid(t, w)' PROVE Q \subseteq P
    BY <2>3, <2>5 DEF Payers
  <2> HIDE DEF P, Q
  <2>6. /\ IsFiniteSet(Q) /\ Cardinality(Q) \in Nat /\ Cardinality(P) \in Nat
        /\ Cardinality(Q) <= Cardinality(P) + 1
        /\ Q \subseteq P => Cardinality(Q) <= Cardinality(P)
    <3>1. /\ IsFiniteSet(P \cup {t}) /\ Cardinality(P) \in Nat
          /\ Cardinality(P \cup {t}) <= Cardinality(P) + 1
      <4>1. /\ IsFiniteSet(P \cup {t}) /\ Cardinality(P) \in Nat
            /\ Cardinality(P \cup {t}) = (IF t \in P THEN Cardinality(P) ELSE Cardinality(P) + 1)
        BY <2>4, FS_AddElement, FS_CardinalityType
      <4>2. QED
        BY <4>1
    <3>2. /\ IsFiniteSet(Q) /\ Cardinality(Q) \in Nat /\ Cardinality(P \cup {t}) \in Nat
          /\ Cardinality(Q) <= Cardinality(P \cup {t})
      BY <2>3, <3>1, FS_Subset, FS_CardinalityType
    <3>3. Q \subseteq P => Cardinality(Q) <= Cardinality(P)
      BY <2>4, FS_Subset
    <3>4. QED
      BY <3>1, <3>2, <3>3
  <2>7. \/ Q \subseteq P /\ hits'[w] <= hits[w] /\ hits'[w] \in Int
        \/ hits[w] - 1 >= 0 /\ hits'[w] = hits[w] - 1
    <3>1. CASE Ends(t) /\ th'[t].word = th[t].word
      <4>1. Q \subseteq P
        BY <1>2, <2>5, <3>1, NotPaid DEF Ends
      <4>2. QED
        BY <1>2, <1>3, <2>4, <4>1
    <3>2. CASE hits[m] - 1 >= 0 /\ Goes(t, "val") /\ w = m
      BY <1>3, <3>2
    <3>3. CASE Goes(t, "val") /\ w # m
      <4>1. Q \subseteq P
        BY <2>5, <3>3, NotPaid DEF Goes, Lands
      <4>2. QED
        BY <1>2, <1>3, <2>4, <3>3, <4>1
    <3>4. QED
      BY <1>1, <3>1, <3>2, <3>3
  <2>8. Cardinality(Q) + (IF hits'[w] > 0 THEN hits'[w] ELSE 0) <= op[w].hits
    BY <2>4, <2>6, <2>7
  <2>9. QED
    BY <2>6, <2>8 DEF Q
<1>5. QED
  BY <1>1, <1>4 DEF BudgetOK

\* ConsumeHit.
LEMMA LimitConsumeHit ==
    ASSUME ShapeInv, LimitInv, NEW t \in Call, ConsumeHit(t) PROVE LimitInv'
<1>1. /\ UNCHANGED <<table, entry, exp, hasMeta, mu, now, op>> /\ th[t].pc = "consume"
      /\ Kind(t) = "Load"
      /\ Goes(t, "val") \/ (Ends(t) /\ th'[t].word = th[t].word)
  BY ConsumeHitEffect
<1>2. /\ Moved(t) /\ th[t].pc \notin {"done", "storeMeta", "call"} /\ KnowsOK(t)
      /\ th[t].pc \in Viewing /\ th[t].pc \notin Working /\ Kind(t) \notin Ranges
  BY <1>1 DEF Goes, Lands, Ends, LimitInv, Viewing, Working, Ranges
<1>3. PairsOK' /\ BudgetOK'
  BY <1>1, <1>2, PairsKept, BudgetSpent
<1>4. Calm(t)
  BY <1>1, <1>2 DEF Calm, entry
<1>5. KnowsOK(t)'
  <2>1. CASE Goes(t, "val")
    BY <1>1, <1>2, <2>1, KnowsViews DEF KnowsOK, Goes, Same
  <2>2. CASE Ends(t) /\ th'[t].word = th[t].word
    <3>1. th'[t].word = Nil /\ Fresh(t, Nil) /\ Nil \notin Call
      BY <1>2, <2>2, SelfKnows, TypedNamesAssumption DEF Fresh
    <3>2. QED
      BY <1>1, <1>2, <2>2, <3>1, KnowsEnds
  <2>3. QED
    BY <1>1, <2>1, <2>2
<1>6. QED
  BY <1>3, <1>4, <1>5, OthersKnow DEF LimitInv

\* A value whose metadata a call has seen to be alive is fresh.
LEMMA FreshIs ==
    ASSUME ShapeInv, LimitInv, NEW t \in Call, NEW w \in Obj, Limited(w) => Fresh(t, w)
    PROVE  Fresh(t, w)
<1>1. op[w].ttl \in Nat /\ exp[w] \in Nat /\ (op[w].ttl = 0 => exp[w] = 0)
  BY LimitTypes DEF LimitInv, PairsOK, ShapeInv, StateTypes, OpsTyped, Operations
<1>2. QED
  BY <1>1 DEF Limited, Fresh

\* LoadVal.
LEMMA LimitLoadVal ==
    ASSUME ShapeInv, LimitInv, NEW t \in Call, LoadVal(t) PROVE LimitInv'
<1> DEFINE e == th[t].ent
           w == val[e]
<1>1. /\ UNCHANGED <<table, entry, limits, mu, now, op>> /\ th[t].pc = "val" /\ w \in Obj
      /\ \/ Kind(t) \in Ranges /\ Continues(t) /\ th'[t].word = th[t].word
         \/ Kind(t) \notin Ranges /\ Ends(t) /\ th'[t].word = w
  BY LoadValEffect
<1>2. /\ HoldsOK(t) /\ KnowsOK(t) /\ th[t].pc \in Viewing
      /\ th[t].pc \notin Working \cup {"done", "call", "storeMeta"} /\ exp' = exp
  BY <1>1, CallFacts DEF LimitInv, Viewing, Working, limits
<1>3. e \in Obj
  BY <1>2 DEF HoldsOK
<1>4. CASE Kind(t) \in Ranges /\ Continues(t) /\ th'[t].word = th[t].word
  <2>1. "visit" \notin Working \cup {"limit", "consume", "val", "done"}
    BY DEF Working
  <2>2. Ends(t) \/ Lands(t, "visit", th[t].tab, th[t].d, th[t].ent, th[t].md)
    BY <1>4 DEF Continues
  <2>3. QED
    BY <1>1, <1>2, <1>4, <2>1, <2>2, LimitIdle
<1>5. CASE Kind(t) \notin Ranges /\ Ends(t) /\ th'[t].word = w
  <2>1. w \in Call => th[w].pc \in {"storeMeta", "done"}
    BY <1>3 DEF LimitInv, PairsOK
  <2>2. Since(t, w) => th[t].md = MetaOf(w)
    BY <1>1, <1>2, <1>5 DEF KnowsOK
  <2>3. Fresh(t, th[t].md)
    BY <1>1, <1>2, <1>5 DEF KnowsOK
  <2> HIDE DEF e, w
  <2>4. Since(t, w) => Fresh(t, w)
    BY <1>1, <2>2, <2>3, FreshIs DEF MetaOf
  <2>5. KnowsOK(t)'
    BY <1>1, <1>2, <1>5, <2>1, <2>4, KnowsEnds
  <2>6. ASSUME NEW v \in Obj, op[v].hits > 0, Paid(t, v)' PROVE Paid(t, v)
    <3>1. th'[t].pc = "done" /\ th'[t].before = th[t].before
      BY <1>5 DEF Ends
    <3>2. Kind(t) = "Load" /\ v = w /\ Since(t, v)
      BY <1>1, <1>5, <2>6, <3>1 DEF Paid, Kind, At, Since
    <3>3. Limited(w)
      BY <2>6, <3>2 DEF Limited
    <3>4. th[t].md = v
      BY <2>2, <3>2, <3>3 DEF MetaOf
    <3>5. QED
      BY <1>1, <3>2, <3>4 DEF Paid, At
  <2>7. Moved(t)
    BY <1>5 DEF Ends
  <2>8. QED
    BY <1>1, <1>2, <2>5, <2>6, <2>7, LimitQuiet
<1>6. QED
  BY <1>1, <1>4, <1>5

\* Lock, Grow, LockedAbsent, ComputePanics, CleanupNow and Clear.
LEMMA LimitOwner ==
    ASSUME ShapeInv, LimitInv, NEW t \in Call,
           Lock(t) \/ Grow(t) \/ LockedAbsent(t) \/ ComputePanics(t) \/ CleanupNow(t) \/ Clear(t)
    PROVE  LimitInv'
<1>1. /\ UNCHANGED <<entry, limits, op>> /\ th'[t].word = th[t].word
      /\ th[t].pc \in {"lock", "grow", "locked", "rebuild"}
      /\ Ends(t) \/ \E p \in {"rebuild", "grow", "locked", "panic"} : Goes(t, p)
  BY LockEffect, GrowEffect, LockedAbsentEffect, PanicEffect, CleanupEffect, ClearEffect
     DEF Goes, Same
<1>2. th[t].pc \notin Working \cup {"done", "call"}
  BY <1>1 DEF Working
<1>3. CASE Ends(t)
  BY <1>1, <1>2, <1>3, LimitIdle
<1>4. CASE \E p \in {"rebuild", "grow", "locked", "panic"} : Goes(t, p)
  <2>1. \A p \in {"rebuild", "grow", "locked", "panic"} :
           p \notin Working \cup {"limit", "consume", "val", "done"}
    BY DEF Working
  <2>2. QED
    BY <1>1, <1>2, <1>4, <2>1, LimitIdle DEF Goes
<1>5. QED
  BY <1>1, <1>3, <1>4

\* Under the mutex a value stands beside its metadata, unless the owner has just
\* stored it.
LEMMA OwnedPair ==
    ASSUME ShapeInv, LimitInv, NEW t \in Call, mu = t, th[t].pc # "storeMeta",
           NEW e \in Obj, val[e] # Nil
    PROVE  meta[e] = MetaOf(val[e])
<1>1. \A u \in Call : th[u].pc = "storeMeta" => mu = u
  BY CallFacts DEF HoldsOK, Held, Working
<1>2. QED
  BY <1>1 DEF LimitInv, PairsOK, At

\* The word that a method finds under the mutex is fresh.
LEMMA LiveIsFresh ==
    ASSUME ShapeInv, LimitInv, NEW t \in Call, mu = t, th[t].pc # "storeMeta",
           Found(t) \in Obj, val[Found(t)] # Nil
    PROVE  /\ LiveWord(t) = Nil \/ (LiveWord(t) = val[Found(t)] /\ LiveWord(t) \in Obj)
           /\ Fresh(t, LiveWord(t))
           /\ LiveWord(t) \in Call => th[LiveWord(t)].pc \in {"storeMeta", "done"}
<1> DEFINE e == Found(t)
           w == val[e]
<1>1. LockedEntry(t) = e /\ w \in Obj /\ meta[e] = MetaOf(w)
  BY FoundIs, OwnedPair DEF ShapeInv, StateTypes
<1>2. w \in Call => th[w].pc \in {"storeMeta", "done"}
  BY DEF LimitInv, PairsOK
<1>3. LiveWord(t) = IF Dead(e, now) THEN Nil ELSE w
  BY <1>1 DEF LiveWord
<1> HIDE DEF e, w
<1>4. CASE Dead(e, now)
  BY <1>3, <1>4, Names, TypedNamesAssumption DEF Fresh, e, w
<1>5. CASE ~Dead(e, now)
  <2>1. Limited(w) => ~Expired(w, now)
    BY <1>1, <1>5, Names DEF Dead, MetaOf, DeadForView
  <2>2. exp[w] \in Nat /\ now \in Nat /\ th[t].start \in Nat /\ th[t].start <= now
    BY <1>1, CallFacts, LimitTypes DEF LocalTypes
  <2>3. Limited(w) => Fresh(t, w)
    BY <2>1, <2>2 DEF Expired, Fresh
  <2>4. Fresh(t, w)
    BY <1>1, <2>3, FreshIs
  <2>5. QED
    BY <1>1, <1>2, <1>3, <1>5, <2>4 DEF e, w
<1>6. QED
  BY <1>4, <1>5

\* The methods that find an entry.
LEMMA LimitFinds ==
    ASSUME ShapeInv, LimitInv, NEW t \in Call, Finds(t) PROVE LimitInv'
<1>1. /\ UNCHANGED <<table, entry, limits, now, op>> /\ th[t].pc = "locked"
      /\ op[t].key \in Key /\ Found(t) \in Obj
  BY FindsEffect
<1>2. PICK l, r :
         /\ Decides(t, l, r)
         /\ th'[t].word = LiveWord(t) /\ th'[t].res = r /\ th'[t].seen = th[t].seen
         /\ \/ l = "done" /\ mu' = Nil /\ Ends(t)
            \/ /\ l \in {"storeVal", "remove"} /\ mu' = mu
               /\ Lands(t, l, th[t].tab, th[t].d, Found(t), th[t].md)
  BY FindsEffect
<1> DEFINE w == LiveWord(t)
<1>3. /\ mu = t /\ Kind(t) \notin Ranges \cup {"Load"} /\ Kind(t)' = Kind(t)
      /\ th[t].pc \notin {"done", "storeMeta", "call"} /\ exp' = exp
  BY <1>1, <1>2, CallFacts DEF HoldsOK, Held, Decides, Ranges, Kind, limits
<1>4. val[Found(t)] # Nil
  BY <1>1, FoundFacts, Names
<1>5. Fresh(t, w) /\ (w \in Call => th[w].pc \in {"storeMeta", "done"})
  BY <1>1, <1>3, <1>4, LiveIsFresh
<1>6. \A v \in Obj : ~Paid(t, v)'
  BY <1>3 DEF Paid
<1> HIDE DEF w
<1>7. CASE Ends(t)
  <2>1. KnowsOK(t)'
    BY <1>1, <1>2, <1>3, <1>5, <1>7, KnowsEnds DEF w
  <2>2. QED
    BY <1>1, <1>3, <1>6, <1>7, <2>1, LimitQuiet DEF Ends
<1>8. CASE /\ l \in {"storeVal", "remove"}
           /\ Lands(t, l, th[t].tab, th[t].d, Found(t), th[t].md)
  <2>1. /\ Moved(t) /\ th'[t].pc = l /\ th'[t].md = th[t].md /\ th'[t].before = th[t].before
        /\ th'[t].start = th[t].start /\ th'[t].word = w /\ l \in Working
    BY <1>2, <1>8 DEF Lands, Working, w
  <2>2. /\ \A u \in th'[t].before : u \in Call /\ th'[u].pc = "done"
        /\ th'[t].md \in Call => th'[th'[t].md].pc = "done"
    BY <1>3, <2>1, SelfKnows
  <2>3. w # t
    BY <1>1, <1>5
  <2>4. w \in Call => th'[w].pc \in {"storeMeta", "done"}
    BY <1>3, <1>5, <2>1, <2>3, SelfKnows
  <2>5. Fresh(t, th[t].word)'
    BY <1>3, <1>5, <2>1 DEF Fresh
  <2>6. th'[t].pc \notin {"limit", "consume", "val", "storeMeta"}
    BY <1>8, <2>1
  <2>7. KnowsOK(t)'
    BY <1>3, <2>1, <2>2, <2>4, <2>5, <2>6 DEF KnowsOK, At
  <2>8. QED
    BY <1>1, <1>3, <1>6, <2>1, <2>7, LimitQuiet
<1>9. QED
  BY <1>2, <1>7, <1>8

\* The owner of the mutex stores its name in an entry, and then its metadata.
LEMMA PairsWritten ==
    ASSUME ShapeInv, LimitInv, NEW t \in Call, Moved(t), UNCHANGED <<exp, hasMeta, op>>, mu = t,
           th[t].pc \notin {"done", "call"}, NEW e \in Obj,
           \A x \in Obj : x # e => val'[x] = val[x] /\ meta'[x] = meta[x],
           val'[e] = t, th[t].pc = "storeMeta" => th[t].ent = e,
           \/ meta'[e] = MetaOf(t) /\ th'[t].pc = "done"
           \/ meta'[e] = meta[e] /\ th'[t].pc = "storeMeta" /\ th'[t].ent = e
    PROVE  PairsOK'
<1>1. PairsOK /\ t \in Obj /\ \A u \in Call : u # t => th'[u] = th[u]
  BY CallFacts DEF LimitInv, Moved
<1>2. \A w : Limited(w)' = Limited(w) /\ MetaOf(w)' = MetaOf(w)
  BY DEF MetaOf, Limited
<1>3. \A u \in Call : th[u].pc = "storeMeta" => u = t
  BY CallFacts DEF HoldsOK, Held, Working
<1>4. \A x \in Obj : x # e /\ val[x] # Nil => meta[x] = MetaOf(val[x])
  BY <1>1, <1>3 DEF PairsOK, At
<1>5. th'[t].pc \in {"storeMeta", "done"} /\ th'[t].pc # "call"
  OBVIOUS
<1>6. ASSUME NEW x \in Obj, val'[x] \in Call PROVE th'[val'[x]].pc \in {"storeMeta", "done"}
  <2>1. CASE val'[x] = t
    BY <1>5, <2>1
  <2>2. CASE val'[x] # t
    BY <1>1, <1>6, <2>2 DEF PairsOK
  <2>3. QED
    BY <2>1, <2>2
<1>7. ASSUME NEW x \in Obj, val'[x] # Nil
      PROVE  meta'[x] = MetaOf(val'[x])
             \/ (val'[x] \in Call /\ th'[val'[x]].pc = "storeMeta" /\ th'[val'[x]].ent = x)
  BY <1>4, <1>7
<1>8. ASSUME NEW x \in Obj, meta'[x] # Nil
      PROVE  Limited(meta'[x]) /\ (meta'[x] \in Call => th'[meta'[x]].pc = "done")
  <2>1. CASE meta'[x] = meta[x]
    <3>1. Limited(meta[x]) /\ (meta[x] \in Call => th[meta[x]].pc = "done")
      BY <1>1, <1>8, <2>1 DEF PairsOK, At
    <3>2. QED
      BY <1>1, <2>1, <3>1
  <2>2. CASE x = e /\ meta'[e] = MetaOf(t) /\ th'[t].pc = "done"
    BY <1>8, <2>2 DEF MetaOf
  <2>3. QED
    BY <2>1, <2>2
<1>9. \A w \in Obj : Limited(w) /\ (w \in Call => th'[w].pc # "call") => hasMeta
  BY <1>1 DEF PairsOK, At
<1>10. \A w \in Obj : op[w].ttl = 0 => exp[w] = 0
  BY <1>1 DEF PairsOK
<1>11. \A x \in Obj : val'[x] # Nil =>
          meta'[x] = MetaOf(val[x])'
          \/ (val'[x] \in Call /\ th'[val'[x]].pc = "storeMeta" /\ th'[val'[x]].ent = x)
  BY <1>7 DEF MetaOf, Limited
<1>12. \A x \in Obj : meta'[x] # Nil =>
          Limited(meta[x])' /\ (meta'[x] \in Call => th'[meta'[x]].pc = "done")
  BY <1>8 DEF Limited
<1>13. \A w \in Obj : Limited(w)' /\ (w \in Call => th'[w].pc # "call") => hasMeta'
  BY <1>2, <1>9
<1>14. QED
  BY <1>6, <1>10, <1>11, <1>12, <1>13 DEF PairsOK, At

\* Such a step keeps LimitInv if its call does.
LEMMA LimitWritten ==
    ASSUME ShapeInv, LimitInv, NEW t \in Call, Moved(t), UNCHANGED <<limits, op>>, mu = t,
           th[t].pc \notin {"done", "call"}, NEW e \in Obj,
           \A x \in Obj : x # e => val'[x] = val[x] /\ meta'[x] = meta[x],
           val'[e] = t, th[t].pc = "storeMeta" => th[t].ent = e,
           \/ meta'[e] = MetaOf(t) /\ th'[t].pc = "done"
           \/ /\ meta'[e] = meta[e] /\ th[t].pc # "storeMeta"
              /\ th'[t].pc = "storeMeta" /\ th'[t].ent = e,
           Kind(t) # "Load", KnowsOK(t)'
    PROVE  LimitInv'
<1>1. exp' = exp /\ hasMeta' = hasMeta /\ hits' = hits
  BY DEF limits
<1>2. PairsOK'
  BY <1>1, PairsWritten
<1>3. BudgetOK'
  <2>1. \A w \in Obj : ~Paid(t, w)'
    BY DEF Paid, Kind
  <2>2. QED
    BY <1>1, <2>1, BudgetKept
<1>4. Calm(t)
  BY <1>1 DEF Calm
<1>5. QED
  BY <1>2, <1>3, <1>4, OthersKnow DEF LimitInv

\* InsertEntry.
LEMMA LimitInsert ==
    ASSUME ShapeInv, LimitInv, NEW t \in Call, InsertEntry(t) PROVE LimitInv'
<1>1. /\ UNCHANGED <<limits, now, op>> /\ th[t].pc = "locked"
      /\ Kind(t) \in {"Store", "LoadOrStore", "Swap", "ComputeUpdate"}
      /\ val' = [val EXCEPT ![t] = t] /\ meta' = [meta EXCEPT ![t] = MetaOf(t)]
      /\ Ends(t) /\ th'[t].word = th[t].word
  BY InsertEffect
<1>2. /\ HoldsOK(t) /\ t \in Obj /\ Moved(t) /\ exp' = exp
      /\ val \in [Obj -> Obj \cup {Nil}] /\ meta \in [Obj -> Obj \cup {Nil}]
  BY <1>1, CallFacts DEF ShapeInv, StateTypes, Ends, limits
<1>3. mu = t /\ th[t].pc \notin {"done", "call", "storeMeta"} /\ th[t].pc \notin Working
  BY <1>1, <1>2 DEF HoldsOK, Held, Working
<1>4. /\ val'[t] = t /\ meta'[t] = MetaOf(t)
      /\ \A x \in Obj : x # t => val'[x] = val[x] /\ meta'[x] = meta[x]
  BY <1>1, <1>2
<1>5. KnowsOK(t)'
  <2>1. th'[t].word = Nil /\ Nil \notin Call /\ Fresh(t, Nil)
    BY <1>1, <1>2, <1>3, SelfKnows, TypedNamesAssumption DEF Fresh
  <2>2. QED
    BY <1>1, <1>2, <1>3, <2>1, KnowsEnds
<1>6. th'[t].pc = "done" /\ Kind(t) # "Load"
  BY <1>1 DEF Ends
<1>7. QED
  BY <1>1, <1>2, <1>3, <1>4, <1>5, <1>6, LimitWritten

\* StoreVal.
LEMMA LimitStoreVal ==
    ASSUME ShapeInv, LimitInv, NEW t \in Call, StoreVal(t) PROVE LimitInv'
<1> DEFINE e == th[t].ent
<1>1. /\ UNCHANGED <<table, meta, limits, mu, now, op>> /\ th[t].pc = "storeVal"
      /\ e \in Obj /\ Kind(t) \in Storing
      /\ val' = [val EXCEPT ![e] = t] /\ Goes(t, "storeMeta")
  BY StoreValEffect
<1>2. /\ HoldsOK(t) /\ Moved(t) /\ exp' = exp /\ Kind(t)' = Kind(t)
      /\ val \in [Obj -> Obj \cup {Nil}]
  BY <1>1, CallFacts DEF ShapeInv, StateTypes, Goes, Lands, limits, Kind
<1>3. mu = t /\ th[t].pc \notin {"done", "call", "storeMeta"}
      /\ Kind(t) \notin Ranges \cup {"Load"}
  BY <1>1, <1>2 DEF HoldsOK, Held, Working, Storing, Ranges
<1>4. val'[e] = t /\ \A x \in Obj : x # e => val'[x] = val[x]
  BY <1>1, <1>2
<1>5. /\ th'[t].pc = "storeMeta" /\ th'[t].ent = e /\ th'[t].md = th[t].md
      /\ th'[t].word = th[t].word /\ th'[t].before = th[t].before /\ th'[t].start = th[t].start
      /\ "storeMeta" \in Working
  BY <1>1 DEF Goes, Lands, Same, Working
<1>6. KnowsOK(t)'
  <2>1. /\ \A u \in th'[t].before : u \in Call /\ th'[u].pc = "done"
        /\ th'[t].md \in Call => th'[th'[t].md].pc = "done"
        /\ Since(t, th[t].word) => Fresh(t, th[t].word)
    BY <1>2, <1>3, <1>5, SelfKnows
  <2>2. th[t].word \in Call => th'[th[t].word].pc \in {"storeMeta", "done"}
    BY <1>2, <1>3, <1>5, SelfKnows
  <2>3. Since(t, th[t].word)' => Fresh(t, th[t].word)'
    BY <1>2, <1>5, <2>1 DEF Since, Fresh
  <2>4. QED
    BY <1>2, <1>3, <1>4, <1>5, <2>1, <2>2, <2>3 DEF KnowsOK, At
<1> HIDE DEF e
<1>7. QED
  BY <1>1, <1>2, <1>3, <1>4, <1>5, <1>6, LimitWritten

\* A writer that ends with the word it had.
LEMMA WriterEnds ==
    ASSUME ShapeInv, LimitInv, NEW t \in Call, Ends(t), UNCHANGED <<limits, op>>,
           th[t].pc \in Working, Kind(t) \notin Ranges, th'[t].word = th[t].word
    PROVE  KnowsOK(t)' /\ Moved(t)
<1>1. Moved(t) /\ th[t].pc # "done" /\ exp' = exp
  BY DEF Ends, limits, Working
<1>2. /\ th[t].word \in Call => th[th[t].word].pc \in {"storeMeta", "done"}
      /\ Since(t, th[t].word) => Fresh(t, th[t].word)
  BY <1>1, SelfKnows
<1>3. QED
  BY <1>1, <1>2, KnowsEnds

\* StoreMeta.
LEMMA LimitStoreMeta ==
    ASSUME ShapeInv, LimitInv, NEW t \in Call, StoreMeta(t) PROVE LimitInv'
<1> DEFINE e == th[t].ent
<1>1. /\ UNCHANGED <<table, val, limits, now, op>> /\ th[t].pc = "storeMeta"
      /\ e \in Obj /\ Kind(t) \in Storing
      /\ meta' = [meta EXCEPT ![e] = MetaOf(t)] /\ Ends(t) /\ Same(t)
  BY StoreMetaEffect
<1>2. HoldsOK(t) /\ KnowsOK(t) /\ meta \in [Obj -> Obj \cup {Nil}] /\ val' = val
  BY <1>1, CallFacts DEF ShapeInv, StateTypes, LimitInv
<1>3. mu = t /\ th[t].pc \notin {"done", "call"} /\ Kind(t) \notin Ranges \cup {"Load"}
      /\ th[t].pc \in Working /\ th'[t].word = th[t].word /\ th'[t].pc = "done"
  BY <1>1, <1>2 DEF HoldsOK, Held, Working, Storing, Ranges, Ends, Same
<1>4. /\ val'[e] = t /\ meta'[e] = MetaOf(t)
      /\ \A x \in Obj : x # e => val'[x] = val[x] /\ meta'[x] = meta[x]
  BY <1>1, <1>2 DEF KnowsOK
<1>5. KnowsOK(t)' /\ Moved(t)
  BY <1>1, <1>3, WriterEnds
<1>6. th[t].ent = e
  OBVIOUS
<1> HIDE DEF e
<1>7. QED
  BY <1>1, <1>3, <1>4, <1>5, <1>6, LimitWritten

\* RemoveEntry.
LEMMA LimitRemove ==
    ASSUME ShapeInv, LimitInv, NEW t \in Call, RemoveEntry(t) PROVE LimitInv'
<1>1. /\ UNCHANGED <<entry, limits, now, op>> /\ th[t].pc = "remove"
      /\ Kind(t) \in Removing /\ Ends(t) /\ Same(t)
  BY RemoveEffect
<1>2. /\ th[t].pc \in Working /\ th[t].pc \notin {"done", "storeMeta", "call"}
      /\ Kind(t) \notin Ranges \cup {"Load"} /\ th'[t].word = th[t].word
  BY <1>1 DEF Working, Removing, Ranges, Same
<1>3. KnowsOK(t)' /\ Moved(t)
  BY <1>1, <1>2, WriterEnds
<1>4. \A w \in Obj : ~Paid(t, w)'
  BY <1>1, <1>2 DEF Paid, Kind
<1>5. QED
  BY <1>1, <1>2, <1>3, <1>4, LimitQuiet

\* The clock moves on, and a state without a step.
LEMMA LimitTick == ASSUME LimitInv, Tick \/ UNCHANGED vars PROVE LimitInv'
<1>1. /\ val' = val /\ meta' = meta /\ hits' = hits /\ exp' = exp /\ hasMeta' = hasMeta
      /\ op' = op /\ th' = th
  BY DEF Tick, vars, entry, limits
<1>2. PairsOK'
  BY <1>1 DEF LimitInv, PairsOK, MetaOf, Limited, At
<1>3. \A t \in Call : KnowsOK(t)'
  BY <1>1 DEF LimitInv, KnowsOK, MetaOf, Limited, At, Since, Fresh, Kind
<1>4. BudgetOK'
  BY <1>1 DEF LimitInv, BudgetOK, Payers, Paid, At, Since, Kind
<1>5. QED
  BY <1>2, <1>3, <1>4 DEF LimitInv

\* Every step keeps LimitInv.
LEMMA LimitNext == ASSUME ShapeInv, LimitInv, [Next]_vars PROVE LimitInv'
<1>1. ASSUME NEW t \in Call, Step(t) PROVE LimitInv'
  BY <1>1, Steps, LimitInvoke, LimitFind, LimitLoadMeta, LimitCheckLimit, LimitConsumeHit,
     LimitLoadVal, LimitOwner, LimitInsert, LimitFinds, LimitStoreVal, LimitStoreMeta,
     LimitRemove
<1>2. QED
  BY <1>1, LimitTick DEF Next, Finished

\* It holds before the calls.
LEMMA LimitInit == ASSUME Init PROVE LimitInv
<1>1. /\ val = [e \in Obj |-> IF e \in Key THEN e ELSE Nil]
      /\ meta = [e \in Obj |-> IF e \in Key /\ Limited(e) THEN e ELSE Nil]
      /\ hits = [m \in Obj |-> op[m].hits]
      /\ exp = [m \in Obj |-> IF m \in Key THEN op[m].ttl ELSE 0]
      /\ hasMeta = \E k \in Key : Limited(k)
      /\ th = [t \in Call |-> Locals]
  BY DEF Init
<1>2. \A x \in Key : x \notin Call /\ x # Nil /\ x \in Obj
  BY TypedNamesAssumption DEF Obj
<1>3. /\ \A t \in Call : th[t] = Locals
      /\ Locals.pc = "call" /\ Locals.before = {} /\ Locals.md = Nil /\ Locals.word = Nil
      /\ Nil \notin Call
  BY <1>1, TypedNamesAssumption DEF Locals
<1>4. /\ \A e \in Obj : val[e] = (IF e \in Key THEN e ELSE Nil)
      /\ \A e \in Obj : meta[e] = (IF e \in Key /\ Limited(e) THEN e ELSE Nil)
      /\ \A e \in Obj : exp[e] = (IF e \in Key THEN op[e].ttl ELSE 0)
      /\ \A e \in Obj : hits[e] = op[e].hits
  BY <1>1
<1>5. PairsOK
  <2>1. \A e \in Obj : val[e] \notin Call
    BY <1>2, <1>3, <1>4
  <2>2. \A e \in Obj : val[e] # Nil => meta[e] = MetaOf(val[e])
    BY <1>2, <1>4 DEF MetaOf
  <2>3. \A e \in Obj : meta[e] # Nil => Limited(meta[e]) /\ meta[e] \notin Call
    BY <1>2, <1>4
  <2>4. \A w \in Obj : Limited(w) /\ (w \in Call => ~At(w, "call")) => hasMeta
    BY <1>1, <1>3 DEF At, Obj
  <2>5. \A w \in Obj : op[w].ttl = 0 => exp[w] = 0
    BY <1>4
  <2>6. QED
    BY <2>1, <2>2, <2>3, <2>4, <2>5 DEF PairsOK
<1>6. ASSUME NEW t \in Call PROVE KnowsOK(t)
  BY <1>3 DEF KnowsOK, Fresh, Working
<1>7. BudgetOK
  <2>1. ASSUME NEW w \in Obj PROVE Payers(w) = {}
    BY <1>3 DEF Payers, Paid, At
  <2>2. \A w \in Obj : op[w].hits \in Nat
    BY InitFacts DEF OpsTyped, Operations
  <2>3. QED
    BY <1>4, <2>1, <2>2, FS_EmptySet DEF BudgetOK
<1>8. QED
  BY <1>5, <1>6, <1>7 DEF LimitInv

\* It always holds.
LEMMA LimitAlways == Spec => []LimitInv
  BY LimitInit, LimitNext, ShapeAlways, PTL DEF Spec
-------------------------------------------------------------------------------
\* A hit limit bounds the Loads that begin after the Store has returned and
\* answer its value, across every interleaving of consumeHit with the two
\* stores of a writer (StoreWithHits, Load).
THEOREM TypedHitsAreBounded == Spec => []TypedHitBudget
<1>1. ASSUME LimitInv, ShapeInv PROVE TypedHitBudget
  <2>1. ASSUME NEW w \in Obj, op[w].hits > 0
        PROVE  Cardinality({t \in Call : /\ Kind(t) = "Load" /\ At(t, "done")
                                         /\ th[t].word = w /\ Since(t, w)}) <= op[w].hits
    <3> DEFINE A == {t \in Call : Kind(t) = "Load" /\ At(t, "done")
                                  /\ th[t].word = w /\ Since(t, w)}
               P == Payers(w)
    <3>1. A \subseteq P
      BY DEF Payers, Paid
    <3>2. /\ IsFiniteSet(P) /\ hits[w] \in Int /\ op[w].hits \in Nat
          /\ Cardinality(P) + (IF hits[w] > 0 THEN hits[w] ELSE 0) <= op[w].hits
      BY <1>1, <2>1 DEF LimitInv, BudgetOK, ShapeInv, StateTypes, OpsTyped, Operations
    <3> HIDE DEF A, P
    <3>3. Cardinality(A) <= Cardinality(P) /\ Cardinality(A) \in Nat /\ Cardinality(P) \in Nat
      BY <3>1, <3>2, FS_Subset, FS_CardinalityType
    <3>4. Cardinality(A) <= op[w].hits
      BY <3>2, <3>3
    <3>5. QED
      BY <3>4 DEF A
  <2>2. QED
    BY <2>1 DEF TypedHitBudget
<1>2. QED
  BY <1>1, ShapeAlways, LimitAlways, PTL

\* No call that began after the Store had returned answers from a value whose
\* TTL had elapsed when it began (deadForView, expired, liveLocked).
THEOREM TypedExpiredIsAbsent == Spec => []TypedNoExpiredAnswer
<1>1. ASSUME LimitInv PROVE TypedNoExpiredAnswer
  BY <1>1 DEF LimitInv, KnowsOK, Fresh, TypedNoExpiredAnswer
<1>2. QED
  BY <1>1, LimitAlways, PTL

-------------------------------------------------------------------------------
\* The steps that change neither tables nor entries and begin no change of them.
Quiet(t) ==
    \/ Invoke(t) \/ Find(t) \/ RangeSlot(t) \/ LoadMeta(t) \/ CheckLimit(t) \/ ConsumeHit(t)
    \/ LoadVal(t) \/ Lock(t) \/ LockedAbsent(t) \/ ComputePanics(t)

\* After them a call is not at work, and a Store is not done.
LEMMA QuietEffect ==
    ASSUME ShapeInv, NEW t \in Call, Quiet(t)
    PROVE  /\ Moved(t) /\ UNCHANGED <<table, entry, op>> /\ th[t].pc # "done"
           /\ th'[t].pc \notin Working /\ (th'[t].pc = "done" => Kind(t) # "Store")
<1>1. CASE Invoke(t)
  BY <1>1, InvokeEffect DEF Working, Invoke, At
<1>2. CASE Find(t)
  BY <1>2, FindEffect DEF ProbedAt, Missed, Goes, Lands, Ends, Working, Finders, Readers
<1>3. CASE RangeSlot(t)
  BY <1>3, RangeSlotEffect DEF Scanned, Lands, Ends, Working, Ranges
<1>4. CASE LoadMeta(t)
  BY <1>4, LoadMetaEffect DEF Lands, Working
<1>5. CASE CheckLimit(t)
  <2>1. /\ UNCHANGED <<table, entry, op>> /\ th[t].pc = "limit" /\ Kind(t) \in Viewers
        /\ Ends(t) \/ Goes(t, "consume") \/ Goes(t, "val") \/ Continues(t) \/ Missed(t)
    BY <1>5, CheckLimitEffect
  <2>2. Moved(t) /\ th'[t].pc \in {"consume", "val", "visit", "lock", "done"}
    BY <2>1 DEF Ends, Goes, Continues, Missed, Lands
  <2>3. QED
    BY <2>1, <2>2 DEF Working, Viewers, Finders, Readers, Ranges
<1>6. CASE ConsumeHit(t)
  BY <1>6, ConsumeHitEffect DEF Goes, Lands, Ends, Working
<1>7. CASE LoadVal(t)
  <2>1. /\ UNCHANGED <<table, entry, op>> /\ th[t].pc = "val" /\ Kind(t) \in Viewers
        /\ Ends(t) \/ Continues(t)
    BY <1>7, LoadValEffect
  <2>2. Moved(t) /\ th'[t].pc \in {"visit", "done"}
    BY <2>1 DEF Ends, Continues, Lands
  <2>3. QED
    BY <2>1, <2>2 DEF Working, Viewers, Finders, Readers, Ranges
<1>8. CASE Lock(t)
  BY <1>8, LockEffect DEF Goes, Lands, Working
<1>9. CASE LockedAbsent(t)
  BY <1>9, LockedAbsentEffect DEF Ends, Working
<1>10. CASE ComputePanics(t)
  BY <1>10, PanicEffect DEF Goes, Lands, Working
<1>11. QED
  BY <1>1, <1>2, <1>3, <1>4, <1>5, <1>6, <1>7, <1>8, <1>9, <1>10 DEF Quiet

\* An entry of a key is the one that a probe for the key finds.
LEMMA FoundIn ==
    ASSUME NEW key, NEW T, Sound(key, T), NEW k \in Key, NEW j \in DOMAIN T,
           T[j] \in Obj, key[T[j]] = k
    PROVE  EntryAt(key, T, k) = T[j]
  BY Stop DEF EntryAt

\* An edit elsewhere leaves the entry of a key in its place.
LEMMA FoundBeside ==
    ASSUME ShapeInv, NEW t \in Call, op[t].key \in Key, Found(t) # Nil, op' = op,
           NEW i \in DOMAIN Current, Current[i] # Found(t),
           NEW c \in Cell, EditTable(Put(Current, i, c))
    PROVE  Found(t)' = Found(t)
<1> DEFINE U == Put(Current, i, c)
           e == Found(t)
<1>1. PICK j \in DOMAIN Current : Current[j] = e
  BY FoundFacts
<1>2. e \in Obj /\ KeyOf(e) = op[t].key /\ KeyIn[e] = op[t].key
  BY FoundFacts DEF KeyIn
<1>3. U[j] = e /\ DOMAIN U = DOMAIN Current
  BY <1>1, CurrentOK, Edited
<1> HIDE DEF U, e
<1>4. EditTable(U)
  BY DEF U
<1>5. Sound(KeyIn, U) /\ Current' = U /\ KeyIn' = KeyIn
  BY <1>4, EditFacts, KeysSame DEF EditTable
<1>6. EntryAt(KeyIn, U, op[t].key) = e
  BY <1>1, <1>2, <1>3, <1>5, FoundIn
<1>7. QED
  BY <1>5, <1>6 DEF Found, e

\* A rebuild that keeps the entry of a key finds it again.
LEMMA FoundAgain ==
    ASSUME ShapeInv, NEW t \in Call, op[t].key \in Key, Found(t) # Nil, op' = op,
           NEW kept, Found(t) \in kept, NEW N, Rebuilt(N, kept)
    PROVE  Found(t)' = Found(t)
<1> DEFINE e == Found(t)
<1>1. e \in Obj /\ KeyOf(e) = op[t].key /\ KeyIn[e] = op[t].key
  BY FoundFacts DEF KeyIn
<1>2. NewTable(N) /\ \E j \in DOMAIN N : N[j] = e
  BY DEF Rebuilt, EntriesOf
<1> HIDE DEF e
<1>3. Sound(KeyIn, N) /\ Current' = N /\ KeyIn' = KeyIn
  BY <1>2, AppendFacts, KeysSame DEF NewTable
<1>4. EntryAt(KeyIn, N, op[t].key) = e
  BY <1>1, <1>2, <1>3, FoundIn
<1>5. QED
  BY <1>3, <1>4 DEF Found, e

\* The entry that a call finds is one of the table.
LEMMA FoundListed ==
    ASSUME ShapeInv, NEW t \in Call, op[t].key \in Key, Found(t) # Nil
    PROVE  Found(t) \in EntriesOf(Current)
  BY FoundFacts, Names DEF EntriesOf

\* A Store that is done stays when its entry and the work of the others do.
LEMMA StaysKept ==
    ASSUME NEW t \in Call, NEW u \in Call, StaysAt(t), Moved(u), op' = op,
           Found(t)' = Found(t),
           val'[Found(t)] = val[Found(t)], meta'[Found(t)] = meta[Found(t)],
           th'[u].pc \in Working => th[u].pc \in Working \/ op[u].key # op[t].key
    PROVE  StaysAt(t)'
<1> DEFINE e == Found(t)
<1>1. e # Nil /\ val'[e] = t /\ meta'[e] = Nil
  BY DEF StaysAt
<1>2. ASSUME NEW x \in Call, th'[x].pc \in Working PROVE op'[x].key # op'[t].key
  BY <1>2 DEF StaysAt, Moved
<1>3. QED
  BY <1>1, <1>2 DEF StaysAt

\* Every step moves one call, which had not ended.
LEMMA StepMoves ==
    ASSUME ShapeInv, NEW t \in Call, Step(t)
    PROVE  Moved(t) /\ op' = op /\ th[t].pc # "done"
<1>1. CASE Quiet(t)
  BY <1>1, QuietEffect
<1>2. CASE Grow(t)
  BY <1>2, GrowEffect DEF Goes, Lands
<1>3. CASE InsertEntry(t)
  BY <1>3, InsertEffect DEF Ends
<1>4. CASE Finds(t)
  BY <1>4, FindsEffect DEF Lands, Ends
<1>5. CASE StoreVal(t)
  BY <1>5, StoreValEffect DEF Goes, Lands
<1>6. CASE StoreMeta(t)
  BY <1>6, StoreMetaEffect DEF Ends
<1>7. CASE RemoveEntry(t)
  BY <1>7, RemoveEffect DEF Ends
<1>8. CASE CleanupNow(t)
  BY <1>8, CleanupEffect DEF Ends
<1>9. CASE Clear(t)
  BY <1>9, ClearEffect DEF Ends
<1>10. QED
  BY Steps, <1>1, <1>2, <1>3, <1>4, <1>5, <1>6, <1>7, <1>8, <1>9 DEF Quiet

\* A Store that is done stays when another call takes a step.
LEMMA StaysOther ==
    ASSUME ShapeInv, NEW t \in Call, NEW u \in Call, u # t, Lasting(t), StaysAt(t), Step(u)
    PROVE  StaysAt(t)'
<1> DEFINE e == Found(t)
<1>1. op[t].key \in Key /\ OpsTyped
  BY CallFacts, KeyFacts DEF Lasting, OnKey, Storing
<1>2. e # Nil /\ e \in Obj /\ KeyOf(e) = op[t].key /\ val[e] = t /\ meta[e] = Nil
  BY <1>1, FoundFacts DEF StaysAt
<1>3. Moved(u) /\ op' = op /\ Kind(u) \in Tame
  BY StepMoves DEF Lasting
<1> HIDE DEF e
<1>4. CASE Quiet(u)
  BY <1>3, <1>4, QuietEffect, FoundSame, StaysKept DEF table, entry
<1>5. CASE Grow(u)
  <2>1. PICK N : Rebuilt(N, EntriesOf(Current))
    BY <1>5, GrowEffect
  <2>2. Found(t)' = Found(t)
    BY <1>1, <1>2, <1>3, <2>1, FoundListed, FoundAgain DEF e
  <2>3. val' = val /\ meta' = meta /\ th'[u].pc = "locked"
    BY <1>5, GrowEffect DEF entry, Goes, Lands
  <2>4. QED
    BY <1>3, <2>2, <2>3, StaysKept DEF Working
<1>6. CASE InsertEntry(u)
  <2>1. PICK i \in DOMAIN Current : Current[i] \in {Nil, Tomb} /\ EditTable(Put(Current, i, u))
    BY <1>6, InsertEffect
  <2>2. Found(t)' = Found(t)
    BY <1>1, <1>2, <1>3, <2>1, Names, FoundBeside DEF e, Cell, Obj
  <2>3. val[u] = Nil /\ u \in Obj
    BY <1>6, InsertEffect, CallFacts DEF ShapeInv, TablesOK, At
  <2>4. e # u
    BY <1>2, <2>3, Names DEF Obj
  <2>5. val' = [val EXCEPT ![u] = u] /\ meta' = [meta EXCEPT ![u] = MetaOf(u)]
        /\ th'[u].pc = "done"
    BY <1>6, InsertEffect DEF Ends
  <2>6. val'[e] = val[e] /\ meta'[e] = meta[e]
    BY <1>2, <2>4, <2>5 DEF ShapeInv, StateTypes
  <2>7. QED
    BY <1>3, <2>2, <2>5, <2>6, StaysKept DEF e, Working
<1>7. CASE Finds(u)
  <2>1. PICK l, r : Decides(u, l, r) /\ th'[u].pc = l
    BY <1>7, FindsEffect DEF Ends, Lands
  <2>2. UNCHANGED <<table, entry>> /\ tabs' = tabs /\ val' = val /\ meta' = meta
    BY <1>7, FindsEffect DEF table, entry
  <2>3. ASSUME op[u].key = op[t].key PROVE l = "done"
    <3>1. LockedEntry(u) = e
      BY <2>3, FoundIs DEF e, Found
    <3>2. LiveWord(u) = t
      BY <1>2, <3>1 DEF LiveWord, Dead
    <3>3. IsLive(u)
      BY <3>2, Names DEF IsLive, Obj
    <3>4. QED
      BY <1>3, <2>1, <3>3 DEF Decides, Tame, Viewers, Finders, Readers, Ranges
  <2>4. QED
    BY <1>3, <2>1, <2>2, <2>3, FoundSame, StaysKept DEF Working
<1>8. CASE StoreVal(u) \/ StoreMeta(u)
  <2>1. /\ th[u].pc \in Working /\ th[u].ent = Found(u) /\ th[u].ent \in Obj
        /\ Kind(u) \in Storing /\ tabs' = tabs
        /\ val' = val \/ val' = [val EXCEPT ![th[u].ent] = u]
        /\ meta' = meta \/ meta' = [meta EXCEPT ![th[u].ent] = MetaOf(u)]
    BY <1>8, StoreValEffect, StoreMetaEffect DEF Working, table
  <2>2. op[u].key # op[t].key /\ op[u].key \in Key
    BY <1>1, <2>1, KeyFacts DEF StaysAt, OnKey
  <2>3. KeyOf(th[u].ent) = op[u].key
    BY <2>1, <2>2, FoundFacts, Names
  <2>4. th[u].ent # e
    BY <1>2, <2>2, <2>3
  <2>5. val'[e] = val[e] /\ meta'[e] = meta[e]
    BY <1>2, <2>1, <2>4 DEF ShapeInv, StateTypes
  <2>6. QED
    BY <1>3, <2>1, <2>5, FoundSame, StaysKept DEF e
<1>9. CASE RemoveEntry(u) \/ Clear(u)
  <2>1. Kind(u) \in Removing \cup {"Clear"}
    BY <1>9, RemoveEffect, ClearEffect
  <2>2. QED
    BY <1>3, <2>1 DEF Tame, Viewers, Finders, Readers, Ranges, Removing
<1>10. CASE CleanupNow(u)
  <2>1. /\ val' = val /\ meta' = meta /\ th'[u].pc = "done"
        /\ \/ \E N : Rebuilt(N, {x \in EntriesOf(Current) : ~Dead(x, th[u].start)})
           \/ UNCHANGED table
    BY <1>10, CleanupEffect DEF entry, Ends
  <2>2. e \in {x \in EntriesOf(Current) : ~Dead(x, th[u].start)}
    BY <1>1, <1>2, FoundListed DEF Dead, e
  <2>3. Found(t)' = Found(t)
    <3>1. CASE UNCHANGED table
      BY <1>3, <3>1, FoundSame DEF table
    <3> DEFINE kept == {x \in EntriesOf(Current) : ~Dead(x, th[u].start)}
    <3>2. e \in kept
      BY <2>2
    <3>3. (\E N : Rebuilt(N, kept)) \/ UNCHANGED table
      BY <2>1
    <3> HIDE DEF kept
    <3>4. CASE \E N : Rebuilt(N, kept)
      BY <1>1, <1>2, <1>3, <3>2, <3>4, FoundAgain DEF e
    <3>5. QED
      BY <3>1, <3>3, <3>4
  <2>4. QED
    BY <1>3, <2>1, <2>3, StaysKept DEF Working
<1>11. QED
  BY Steps, <1>4, <1>5, <1>6, <1>7, <1>8, <1>9, <1>10 DEF Quiet

\* A Store returns with its value in place.
LEMMA StaysSelf ==
    ASSUME ShapeInv, LimitInv, NEW t \in Call, Lasting(t), Step(t), th'[t].pc = "done"
    PROVE  StaysAt(t)'
<1>1. op[t].key \in Key /\ OpsTyped /\ t \in Obj /\ t # Nil /\ Kind(t) = "Store"
  BY CallFacts, KeyFacts, Names DEF Lasting, OnKey, Storing
<1>2. Moved(t) /\ op' = op /\ MetaOf(t) = Nil
  BY StepMoves DEF Lasting, MetaOf
<1>3. ASSUME th[t].pc \in Held, NEW u \in Call, th'[u].pc \in Working
      PROVE  op'[u].key # op'[t].key
  <2>1. u # t /\ th[u].pc \in Held
    BY <1>2, <1>3 DEF Working, Moved, Held
  <2>2. QED
    BY <1>3, <2>1, CallFacts DEF HoldsOK
<1>4. CASE InsertEntry(t)
  <2>1. PICK i \in DOMAIN Current : Current[i] \in {Nil, Tomb} /\ EditTable(Put(Current, i, t))
    BY <1>4, InsertEffect
  <2>2. val' = [val EXCEPT ![t] = t] /\ meta' = [meta EXCEPT ![t] = MetaOf(t)]
        /\ th[t].pc = "locked"
    BY <1>4, InsertEffect
  <2> DEFINE U == Put(Current, i, t)
  <2>3. U[i] = t /\ DOMAIN U = DOMAIN Current
    BY <2>1, CurrentOK, Edited DEF Cell, Obj
  <2>4. EditTable(U)
    BY <2>1
  <2> HIDE DEF U
  <2>5. Sound(KeyIn, U) /\ Current' = U /\ KeyIn' = KeyIn /\ KeyIn[t] = op[t].key
    BY <1>1, <1>2, <2>4, EditFacts, KeysSame, KeyFacts DEF EditTable
  <2>6. Found(t)' = t
    BY <1>1, <1>2, <2>1, <2>3, <2>5, FoundIn DEF Found
  <2>7. val'[t] = t /\ meta'[t] = Nil
    BY <1>1, <1>2, <2>2 DEF ShapeInv, StateTypes
  <2>8. QED
    BY <1>1, <1>3, <2>2, <2>6, <2>7 DEF StaysAt, Held
<1>5. CASE StoreMeta(t)
  <2>1. /\ val' = val /\ tabs' = tabs /\ th[t].pc = "storeMeta" /\ th[t].ent = Found(t)
        /\ th[t].ent \in Obj /\ meta' = [meta EXCEPT ![th[t].ent] = MetaOf(t)]
    BY <1>5, StoreMetaEffect DEF table
  <2>2. val[Found(t)] = t
    BY <2>1 DEF LimitInv, KnowsOK
  <2>3. Found(t)' = Found(t)
    BY <1>2, <2>1, FoundSame
  <2>4. meta'[Found(t)] = Nil
    BY <1>2, <2>1 DEF ShapeInv, StateTypes
  <2>5. QED
    BY <1>3, <2>1, <2>2, <2>3, <2>4, Names DEF StaysAt, Held, Working
<1>6. CASE Quiet(t)
  BY <1>1, <1>6, QuietEffect
<1>7. CASE Grow(t) \/ StoreVal(t)
  BY <1>7, GrowEffect, StoreValEffect DEF Goes, Lands
<1>8. CASE Finds(t)
  BY <1>1, <1>8, FindsEffect DEF Decides, Ends, Lands
<1>9. CASE RemoveEntry(t) \/ CleanupNow(t) \/ Clear(t)
  BY <1>1, <1>9, RemoveEffect, CleanupEffect, ClearEffect DEF Removing
<1>10. QED
  BY Steps, <1>4, <1>5, <1>6, <1>7, <1>8, <1>9 DEF Quiet

\* Every step keeps StaysInv.
LEMMA StaysNext == ASSUME ShapeInv, LimitInv, StaysInv, [Next]_vars PROVE StaysInv'
<1>1. ASSUME NEW u \in Call, Step(u), NEW t \in Call, Lasting(t)', At(t, "done")'
      PROVE  StaysAt(t)'
  <2>1. Moved(u) /\ op' = op
    BY <1>1, StepMoves
  <2>2. Lasting(t)
    BY <1>1, <2>1 DEF Lasting, Kind, Limited
  <2>3. CASE u = t
    BY <1>1, <2>2, <2>3, StaysSelf DEF At
  <2>4. CASE u # t
    BY <1>1, <2>1, <2>2, <2>4, StaysOther DEF StaysInv, At, Moved
  <2>5. QED
    BY <2>3, <2>4
<1>2. ASSUME Tick \/ UNCHANGED vars PROVE StaysInv'
  <2>1. tabs' = tabs /\ val' = val /\ meta' = meta /\ op' = op /\ th' = th
    BY <1>2 DEF Tick, vars, table, entry
  <2>2. \A t \in Call : Found(t)' = Found(t)
    BY <2>1, FoundSame
  <2>3. QED
    BY <2>1, <2>2 DEF StaysInv, StaysAt, Lasting, Kind, Limited, At
<1>3. QED
  BY <1>1, <1>2 DEF Next, Finished, StaysInv

\* It always holds.
LEMMA StaysAlways == Spec => []StaysInv
<1>1. ASSUME Init PROVE StaysInv
  BY <1>1 DEF Init, StaysInv, At, Locals
<1>2. QED
  BY <1>1, StaysNext, ShapeAlways, LimitAlways, PTL DEF Spec
-------------------------------------------------------------------------------
\* The value of a Store without limits stays while only reads, cleanups and
\* calls that leave a live value alone run, whatever limits the value that it
\* replaced had (StoreWithOptions, cleanupLocked).
THEOREM TypedStoresStay == Spec => []TypedStoreStays
<1>1. ASSUME ShapeInv, StaysInv PROVE TypedStoreStays
  <2>1. ASSUME NEW t \in Call, At(t, "done"), Kind(t) = "Store", ~Limited(t),
               \A u \in Call \ {t} :
                  Kind(u) \in Readers \cup Ranges \cup
                     {"CleanupNow", "LoadOrStore", "ComputeCancel", "ComputePanic"}
        PROVE  Content(op[t].key) # Nil
    <3>1. Lasting(t)
      BY <2>1 DEF Lasting, Tame, Viewers, Finders
    <3>2. StaysAt(t)
      BY <1>1, <2>1, <3>1 DEF StaysInv
    <3>3. Current[StopSlot(Current, op[t].key)] = Found(t)
      BY StopIs DEF Found, EntryAt
    <3>4. Content(op[t].key) = op[t].val
      BY <3>2, <3>3 DEF StaysAt, Content, Dead
    <3>5. op[t] \in Operations /\ op[t].kind = "Store"
      BY <1>1, <2>1, CallFacts DEF Kind
    <3>6. QED
      BY <3>4, <3>5 DEF Operations, Storing
  <2>2. QED
    BY <2>1 DEF TypedStoreStays
<1>2. QED
  BY <1>1, ShapeAlways, StaysAlways, PTL

-------------------------------------------------------------------------------
\* VisitInv.  A key has one slot in a sound table.
LEMMA OneSlot ==
    ASSUME NEW key, NEW T, Sound(key, T), NEW k \in Key, NEW i \in DOMAIN T, NEW j \in DOMAIN T,
           T[i] \in Obj, key[T[i]] = k, T[j] \in Obj, key[T[j]] = k
    PROVE  i = j
  BY Stop

\* The slot of an untouched key.
LEMMA SlotFacts ==
    ASSUME ShapeInv, NEW k \in Key, FixedOK(k), NEW g \in DOMAIN tabs
    PROVE  LET T == tabs[g]
               s == SlotOf(T, k) IN
           /\ T \in Tables /\ s \in DOMAIN T /\ s \in 0..(Size(T) - 1) /\ T[s] = k
           /\ \A j \in DOMAIN T : T[j] \in Obj /\ KeyOf(T[j]) = k => j = s /\ T[j] = k
<1> DEFINE T == tabs[g]
           s == SlotOf(T, k)
<1>1. Sound(KeyIn, T) /\ T \in Tables /\ DOMAIN T = 0..(Size(T) - 1)
  BY CurrentOK, TableSize
<1>2. \E i \in DOMAIN T : T[i] = k
  BY DEF FixedOK
<1> HIDE DEF T
<1>3. s \in DOMAIN T /\ T[s] = k
  BY <1>2 DEF SlotOf
<1> HIDE DEF s
<1>4. k \in Obj /\ \A e \in Obj : KeyIn[e] = KeyOf(e)
  BY DEF Obj, KeyIn
<1>5. KeyIn[k] = k
  BY <1>4 DEF KeyOf
<1>6. ASSUME NEW j \in DOMAIN T, T[j] \in Obj, KeyOf(T[j]) = k PROVE j = s
  <2>1. KeyIn[T[j]] = k /\ T[s] \in Obj /\ KeyIn[T[s]] = k
    BY <1>3, <1>4, <1>5, <1>6
  <2>2. QED
    BY <1>1, <1>3, <1>6, <2>1, OneSlot
<1>7. QED
  BY <1>1, <1>3, <1>6 DEF T, s

\* Whatever slot holds the key is that one.
LEMMA SlotOnly ==
    ASSUME NEW T, NEW k \in Key, Sound(KeyIn, T), NEW i \in DOMAIN T, T[i] = k
    PROVE  SlotOf(T, k) = i
<1> DEFINE s == SlotOf(T, k)
<1>1. s \in DOMAIN T /\ T[s] = k
  BY DEF SlotOf
<1> HIDE DEF s
<1>2. k \in Obj /\ KeyIn[k] = k
  BY DEF Obj, KeyIn, KeyOf
<1>3. s = i
  BY <1>1, <1>2, Stop
<1>4. QED
  BY <1>3 DEF s

\* The slots of an untouched key stay, and a new table has one.
SlotsKept(k) ==
    /\ \A g \in DOMAIN tabs : g \in DOMAIN tabs' /\ SlotOf(tabs'[g], k) = SlotOf(tabs[g], k)
    /\ \A g \in DOMAIN tabs' : \E i \in DOMAIN tabs'[g] : tabs'[g][i] = k

\* A rebuild that keeps the key.
LEMMA SlotsAdded ==
    ASSUME ShapeInv, NEW k \in Key, FixedOK(k), NEW kept, k \in kept, NEW N, Rebuilt(N, kept)
    PROVE  SlotsKept(k)
<1>1. NewTable(N) /\ \E i \in DOMAIN N : N[i] = k
  BY DEF Rebuilt, EntriesOf
<1>2. /\ DOMAIN tabs' = DOMAIN tabs \cup {Len(tabs')} /\ tabs'[Len(tabs')] = N
      /\ \A g \in DOMAIN tabs : tabs'[g] = tabs[g]
  BY <1>1, AppendFacts
<1>3. ASSUME NEW g \in DOMAIN tabs
      PROVE  g \in DOMAIN tabs' /\ SlotOf(tabs'[g], k) = SlotOf(tabs[g], k)
  BY <1>2, Zenon
<1>4. ASSUME NEW g \in DOMAIN tabs' PROVE \E i \in DOMAIN tabs'[g] : tabs'[g][i] = k
  <2>1. CASE g \in DOMAIN tabs
    BY <1>2, <2>1 DEF FixedOK
  <2>2. CASE g = Len(tabs')
    BY <1>1, <1>2, <2>2
  <2>3. QED
    BY <1>2, <2>1, <2>2
<1>5. QED
  BY <1>3, <1>4 DEF SlotsKept

\* An edit of another slot.
LEMMA SlotsBeside ==
    ASSUME ShapeInv, NEW k \in Key, FixedOK(k), op' = op, NEW i \in DOMAIN Current,
           Current[i] # k, NEW c \in Cell, EditTable(Put(Current, i, c))
    PROVE  SlotsKept(k)
<1> DEFINE U == Put(Current, i, c)
           s == SlotOf(Current, k)
<1>1. s \in DOMAIN Current /\ Current[s] = k
  BY CurrentOK, SlotFacts DEF Current
<1>2. U[s] = k /\ DOMAIN U = DOMAIN Current
  BY <1>1, CurrentOK, Edited
<1>3. EditTable(U)
  OBVIOUS
<1> HIDE DEF U, s
<1>4. /\ Sound(KeyIn, U) /\ DOMAIN tabs' = DOMAIN tabs /\ tabs'[Len(tabs)] = U
      /\ \A g \in DOMAIN tabs : g # Len(tabs) => tabs'[g] = tabs[g]
  BY <1>3, EditFacts DEF EditTable
<1>5. SlotOf(U, k) = s
  BY <1>1, <1>2, <1>4, SlotOnly
<1>6. \A g \in DOMAIN tabs : SlotOf(tabs'[g], k) = SlotOf(tabs[g], k)
  BY <1>4, <1>5 DEF s, Current
<1>7. \A g \in DOMAIN tabs' : \E j \in DOMAIN tabs'[g] : tabs'[g][j] = k
  BY <1>1, <1>2, <1>4 DEF FixedOK
<1>8. QED
  BY <1>4, <1>6, <1>7 DEF SlotsKept

\* The steps of all calls leave an untouched key in its slots.
LEMMA FixedStep ==
    ASSUME ShapeInv, NEW k \in Key, Untouched(k), FixedOK(k), NEW u \in Call, Step(u)
    PROVE  FixedOK(k)' /\ SlotsKept(k)
<1>1. /\ op' = op /\ OpsTyped /\ Kind(u) # "Clear" /\ val[k] = k /\ meta[k] = Nil
      /\ k \in Obj /\ KeyOf(k) = k
  BY StepMoves, CallFacts DEF Untouched, FixedOK, Obj, KeyOf
<1>2. ASSUME val'[k] = val[k], meta'[k] = meta[k], SlotsKept(k) PROVE FixedOK(k)'
  BY <1>1, <1>2 DEF FixedOK, SlotsKept
<1>3. ASSUME tabs' = tabs PROVE SlotsKept(k)
  BY <1>3 DEF SlotsKept, FixedOK
<1>4. k \in EntriesOf(Current) /\ ~Dead(k, th[u].start)
  BY <1>1, CurrentOK, Names DEF EntriesOf, Dead, FixedOK, Current
<1>5. ASSUME Found(u) = k, op[u].key \in Key PROVE Kind(u) \in Readers
  BY <1>1, <1>5, FoundFacts, Names DEF Untouched
<1>6. CASE Quiet(u) \/ Finds(u)
  BY <1>2, <1>3, <1>6, QuietEffect, FindsEffect DEF table, entry
<1>7. CASE Grow(u)
  <2>1. PICK N : Rebuilt(N, EntriesOf(Current))
    BY <1>7, GrowEffect
  <2>2. UNCHANGED entry
    BY <1>7, GrowEffect
  <2>3. QED
    BY <1>2, <1>4, <2>1, <2>2, SlotsAdded DEF entry
<1>8. CASE InsertEntry(u)
  <2>1. PICK i \in DOMAIN Current : Current[i] \in {Nil, Tomb} /\ EditTable(Put(Current, i, u))
    BY <1>8, InsertEffect
  <2>2. Current[i] # k /\ u \in Cell /\ u # k
    BY <1>1, <2>1, Names, TypedNamesAssumption DEF Obj, Cell
  <2>3. val' = [val EXCEPT ![u] = u] /\ meta' = [meta EXCEPT ![u] = MetaOf(u)]
    BY <1>8, InsertEffect
  <2>4. val'[k] = val[k] /\ meta'[k] = meta[k]
    BY <1>1, <2>2, <2>3 DEF ShapeInv, StateTypes
  <2>5. QED
    BY <1>1, <1>2, <2>1, <2>2, <2>4, SlotsBeside
<1>9. CASE StoreVal(u) \/ StoreMeta(u)
  <2>1. /\ th[u].ent = Found(u) /\ Kind(u) \in Storing /\ tabs' = tabs
        /\ val' = val \/ val' = [val EXCEPT ![th[u].ent] = u]
        /\ meta' = meta \/ meta' = [meta EXCEPT ![th[u].ent] = MetaOf(u)]
    BY <1>9, StoreValEffect, StoreMetaEffect DEF table
  <2>2. op[u].key \in Key /\ Kind(u) \notin Readers
    BY <1>1, <2>1, KeyFacts DEF OnKey, Storing, Readers
  <2>3. th[u].ent # k
    BY <1>5, <2>1, <2>2
  <2>4. val'[k] = val[k] /\ meta'[k] = meta[k]
    BY <1>1, <2>1, <2>3 DEF ShapeInv, StateTypes
  <2>5. QED
    BY <1>2, <1>3, <2>1, <2>4
<1>10. CASE RemoveEntry(u)
  <2>1. PICK i \in DOMAIN Current : Current[i] = Found(u) /\ EditTable(Put(Current, i, Tomb))
    BY <1>10, RemoveEffect
  <2>2. UNCHANGED entry /\ Kind(u) \in Removing /\ op[u].key \in Key
    BY <1>10, RemoveEffect
  <2>3. Current[i] # k /\ Tomb \in Cell
    BY <1>5, <2>1, <2>2 DEF Removing, Readers, Cell
  <2>4. QED
    BY <1>1, <1>2, <2>1, <2>2, <2>3, SlotsBeside DEF entry
<1>11. CASE CleanupNow(u)
  <2> DEFINE kept == {x \in EntriesOf(Current) : ~Dead(x, th[u].start)}
  <2>1. UNCHANGED entry /\ ((\E N : Rebuilt(N, kept)) \/ UNCHANGED table)
    BY <1>11, CleanupEffect
  <2>2. k \in kept
    BY <1>4
  <2> HIDE DEF kept
  <2>3. SlotsKept(k)
    BY <1>3, <2>1, <2>2, SlotsAdded DEF table
  <2>4. QED
    BY <1>2, <2>1, <2>3 DEF entry
<1>12. CASE Clear(u)
  BY <1>1, <1>12, ClearEffect
<1>13. QED
  BY Steps, <1>6, <1>7, <1>8, <1>9, <1>10, <1>11, <1>12 DEF Quiet

\* What Append does to the visits.
LEMMA VisitsAppend ==
    ASSUME NEW k, NEW t, NEW x \in Pairs, th[t].seen \in Seq(Pairs),
           th'[t].seen = Append(th[t].seen, x), op' = op
    PROVE  /\ th'[t].seen \in Seq(Pairs)
           /\ x # <<k, op[k].val>> => Visits(t, k)' = Visits(t, k)
           /\ x = <<k, op[k].val>> /\ Never(t, k) => Once(t, k)'
<1> DEFINE s == th[t].seen
           r == Append(s, x)
           p == <<k, op[k].val>>
<1>1. /\ r \in Seq(Pairs) /\ Len(r) = Len(s) + 1 /\ Len(s) \in Nat
      /\ DOMAIN r = 1..(Len(s) + 1) /\ DOMAIN s = 1..Len(s)
      /\ r[Len(s) + 1] = x /\ \A i \in 1..Len(s) : r[i] = s[i]
  OBVIOUS
<1>2. Visits(t, k) = {i \in DOMAIN s : s[i] = p}
  BY DEF Visits
<1>3. Visits(t, k)' = {i \in DOMAIN r : r[i] = p}
  BY DEF Visits
<1> HIDE DEF p, r, s
<1>4. x # p => {i \in DOMAIN r : r[i] = p} = {i \in DOMAIN s : s[i] = p}
  BY <1>1
<1>5. ASSUME x = p, {i \in DOMAIN s : s[i] = p} = {}
      PROVE  {i \in DOMAIN r : r[i] = p} = {Len(s) + 1}
  BY <1>1, <1>5
<1>6. x = p /\ Never(t, k) => Once(t, k)'
  BY <1>2, <1>3, <1>5 DEF Never, Once
<1>7. QED
  BY <1>1, <1>2, <1>3, <1>4, <1>6 DEF p, r, s

\* Without Append they stay.
LEMMA VisitsSame ==
    ASSUME NEW k, NEW t, Visits(t, k)' = Visits(t, k)
    PROVE  (Once(t, k)' <=> Once(t, k)) /\ (Never(t, k)' <=> Never(t, k))
  BY DEF Once, Never

\* Where a Range stands with respect to the slot of the key.
LEMMA PlaceFacts ==
    ASSUME ShapeInv, NEW k \in Key, FixedOK(k), NEW t \in Call, th[t].tab \in DOMAIN tabs
    PROVE  LET T == tabs[th[t].tab] IN
           /\ T \in Tables /\ DOMAIN T = 0..(Size(T) - 1) /\ Size(T) \in Nat
           /\ Place(t, k) \in 0..(Size(T) - 1) /\ T[Place(t, k)] = k
  BY SlotFacts, TableSize DEF Place

\* RangeSlot.
LEMMA VisitsScan ==
    ASSUME ShapeInv, NEW k \in Key, FixedOK(k), NEW t \in Call, Kind(t) \in Ranges,
           VisitsOK(t, k), RangeSlot(t)
    PROVE  VisitsOK(t, k)'
<1>1. PICK g, d : Scanned(t, g, d)
  BY RangeSlotEffect
<1>2. tabs' = tabs /\ op' = op /\ th[t].pc \in {"range", "visit"}
  BY RangeSlotEffect DEF table
<1> DEFINE T == tabs[g]
           s == SlotOf(T, k)
<1>3. /\ g \in DOMAIN tabs /\ d \in DOMAIN T /\ d \in Nat /\ Size(T) \in Nat
      /\ s \in 0..(Size(T) - 1) /\ T[s] = k /\ k \in Obj /\ KeyOf(k) = k
      /\ \A j \in DOMAIN T : T[j] \in Obj /\ KeyOf(T[j]) = k => j = s /\ T[j] = k
      /\ DOMAIN T = 0..(Size(T) - 1)
  BY <1>1, SlotFacts, TableSize DEF Scanned, Obj, KeyOf
<1>4. IF s < d THEN Once(t, k) ELSE Never(t, k)
  <2>1. CASE At(t, "range")
    <3>1. d = 0 /\ th[t].seen = <<>>
      BY <1>1, <2>1 DEF Scanned, At, VisitsOK
    <3>2. Never(t, k)
      BY <3>1 DEF Visits, Never
    <3> HIDE DEF s
    <3>3. ~(s < d)
      BY <1>3, <3>1
    <3>4. QED
      BY <3>2, <3>3
  <2>2. CASE At(t, "visit")
    BY <1>1, <2>2 DEF Scanned, At, VisitsOK, Seen, Place
  <2>3. QED
    BY <1>2, <2>1, <2>2 DEF At
<1>5. \A e : KeyOf(e)' = KeyOf(e)
  BY <1>2, KeysSame
<1>6. \/ T[d] \in Obj /\ Lands(t, "meta", g, d + 1, T[d], th[t].md) /\ Same(t)
      \/ T[d] \notin Obj /\ d + 1 = Size(T) /\ Ends(t) /\ Same(t)
      \/ /\ T[d] \notin Obj /\ d + 1 \in DOMAIN T
         /\ Lands(t, "visit", g, d + 1, T[d], th[t].md) /\ Same(t)
  BY <1>1 DEF Scanned
<1> HIDE DEF s, T
<1>7. th'[t].seen = th[t].seen /\ th'[t].seen \in Seq(Pairs)
  BY <1>6 DEF Same, VisitsOK
<1>8. (Once(t, k)' <=> Once(t, k)) /\ (Never(t, k)' <=> Never(t, k))
  BY <1>2, <1>7, VisitsSame DEF Visits
<1>9. CASE T[d] \in Obj /\ Lands(t, "meta", g, d + 1, T[d], th[t].md)
  <2>1. /\ th'[t].pc = "meta" /\ th'[t].tab = g /\ th'[t].d = d + 1 /\ th'[t].ent = T[d]
        /\ th'[t].d - 1 = d
    BY <1>3, <1>9 DEF Lands
  <2>2. Place(t, k)' = s
    BY <1>2, <2>1 DEF Place, s, T
  <2>3. Seen(t, k, th[t].d - 1)'
    BY <1>4, <1>8, <2>1, <2>2 DEF Seen
  <2>4. KeyOf(T[d]) = k <=> s = d
    BY <1>3, <1>9
  <2>5. KeyOf(T[d]) = k => T[d] = k
    BY <1>3, <1>9
  <2>6. KeyOf(th[t].ent)' = KeyOf(T[d])
    BY <1>2, <2>1 DEF KeyOf
  <2>7. QED
    BY <1>7, <2>1, <2>2, <2>3, <2>4, <2>5, <2>6 DEF VisitsOK, Viewing
<1>10. CASE T[d] \notin Obj /\ d + 1 = Size(T) /\ Ends(t)
  <2>1. th'[t].pc = "done" /\ s < d
    BY <1>3, <1>10 DEF Ends
  <2>2. QED
    BY <1>4, <1>7, <1>8, <2>1 DEF VisitsOK, Viewing
<1>11. CASE /\ T[d] \notin Obj /\ d + 1 \in DOMAIN T
            /\ Lands(t, "visit", g, d + 1, T[d], th[t].md)
  <2>1. th'[t].pc = "visit" /\ th'[t].tab = g /\ th'[t].d = d + 1
    BY <1>11 DEF Lands
  <2>2. s < d + 1 <=> s < d
    BY <1>3, <1>11
  <2>3. Place(t, k)' = s
    BY <1>2, <2>1 DEF Place, s, T
  <2>4. Seen(t, k, th[t].d)'
    BY <1>4, <1>8, <2>1, <2>2, <2>3 DEF Seen
  <2>5. QED
    BY <1>7, <2>1, <2>4 DEF VisitsOK, Viewing
<1>12. QED
  BY <1>6, <1>9, <1>10, <1>11

\* A Range that has passed a slot ends or goes to the next one, once it has
\* seen the key if the slot was the key's.
LEMMA VisitsContinue ==
    ASSUME ShapeInv, NEW k \in Key, FixedOK(k), NEW t \in Call, Kind(t) \in Ranges,
           th[t].pc \in Viewing, Continues(t), tabs' = tabs, op' = op,
           th'[t].seen \in Seq(Pairs),
           IF Place(t, k) <= th[t].d - 1 THEN Once(t, k)' ELSE Never(t, k)'
    PROVE  VisitsOK(t, k)'
<1> DEFINE T == tabs[th[t].tab]
           s == Place(t, k)
<1>1. th[t].tab \in DOMAIN tabs /\ th[t].d \in Nat
  BY CallFacts DEF HoldsOK, LocalTypes
<1>2. s \in 0..(Size(T) - 1) /\ DOMAIN T = 0..(Size(T) - 1) /\ Size(T) \in Nat
  BY <1>1, PlaceFacts
<1>3. \/ th[t].d = Size(T) /\ Ends(t)
      \/ th[t].d \in DOMAIN T /\ Lands(t, "visit", th[t].tab, th[t].d, th[t].ent, th[t].md)
  BY DEF Continues
<1>4. IF s <= th[t].d - 1 THEN Once(t, k)' ELSE Never(t, k)'
  OBVIOUS
<1> HIDE DEF s, T
<1>5. s <= th[t].d - 1 <=> s < th[t].d
  BY <1>1, <1>2
<1>6. CASE th[t].d = Size(T) /\ Ends(t)
  <2>1. th'[t].pc = "done" /\ s <= th[t].d - 1
    BY <1>2, <1>6 DEF Ends
  <2>2. QED
    BY <1>4, <2>1 DEF VisitsOK, Viewing
<1>7. CASE Lands(t, "visit", th[t].tab, th[t].d, th[t].ent, th[t].md)
  <2>1. th'[t].pc = "visit" /\ th'[t].tab = th[t].tab /\ th'[t].d = th[t].d
    BY <1>7 DEF Lands
  <2>2. Place(t, k)' = s
    BY <2>1 DEF Place, s
  <2>3. Seen(t, k, th[t].d)'
    BY <1>4, <1>5, <2>1, <2>2 DEF Seen
  <2>4. QED
    BY <2>1, <2>3 DEF VisitsOK, Viewing
<1>8. QED
  BY <1>3, <1>6, <1>7

\* A Range that goes on with the entry it looks at.
LEMMA VisitsStay ==
    ASSUME NEW k \in Key, NEW t \in Call, VisitsOK(t, k), th[t].pc \in Viewing,
           th'[t].pc \in Viewing, th'[t].tab = th[t].tab, th'[t].d = th[t].d,
           th'[t].ent = th[t].ent, th'[t].seen = th[t].seen, tabs' = tabs, op' = op,
           KeyOf(th[t].ent) = k => th'[t].pc \in {"meta", "val"}
    PROVE  VisitsOK(t, k)'
<1>1. Place(t, k)' = Place(t, k)
  BY DEF Place
<1>2. Visits(t, k)' = Visits(t, k)
  BY DEF Visits
<1>3. (Once(t, k)' <=> Once(t, k)) /\ (Never(t, k)' <=> Never(t, k))
  BY <1>2, VisitsSame
<1>4. KeyOf(th[t].ent)' = KeyOf(th[t].ent)
  BY DEF KeyOf
<1>5. Seen(t, k, th[t].d - 1) /\ (KeyOf(th[t].ent) = k <=> Place(t, k) = th[t].d - 1)
      /\ (KeyOf(th[t].ent) = k => th[t].ent = k) /\ th[t].seen \in Seq(Pairs)
  BY DEF VisitsOK
<1>6. Seen(t, k, th[t].d - 1)'
  BY <1>1, <1>3, <1>5 DEF Seen
<1>7. th'[t].pc \notin {"call", "range", "visit", "done"}
  BY DEF Viewing
<1>8. QED
  BY <1>1, <1>4, <1>5, <1>6, <1>7 DEF VisitsOK

\* LoadMeta finds no metadata at the key.
LEMMA VisitsLoadMeta ==
    ASSUME ShapeInv, NEW k \in Key, FixedOK(k), NEW t \in Call, VisitsOK(t, k), LoadMeta(t)
    PROVE  VisitsOK(t, k)'
<1>1. /\ tabs' = tabs /\ op' = op /\ th[t].pc = "meta" /\ th[t].pc \in Viewing
      /\ th'[t].pc = (IF MetaSeen(t) = Nil THEN "val" ELSE "limit")
      /\ th'[t].tab = th[t].tab /\ th'[t].d = th[t].d /\ th'[t].ent = th[t].ent
      /\ th'[t].seen = th[t].seen
  BY LoadMetaEffect DEF table, Lands, Same, Viewing
<1>2. ASSUME KeyOf(th[t].ent) = k PROVE th'[t].pc = "val"
  <2>1. th[t].ent = k /\ meta[k] = Nil
    BY <1>1, <1>2 DEF VisitsOK, FixedOK
  <2>2. QED
    BY <1>1, <2>1 DEF MetaSeen
<1>3. QED
  BY <1>1, <1>2, VisitsStay DEF Viewing

\* CheckLimit looks at another key.
LEMMA VisitsCheckLimit ==
    ASSUME ShapeInv, NEW k \in Key, FixedOK(k), NEW t \in Call, Kind(t) \in Ranges,
           VisitsOK(t, k), CheckLimit(t)
    PROVE  VisitsOK(t, k)'
<1>1. /\ tabs' = tabs /\ op' = op /\ th[t].pc = "limit" /\ th[t].pc \in Viewing
      /\ (Continues(t) /\ Same(t)) \/ Goes(t, "val")
  BY CheckLimitEffect DEF table, Viewing, Ranges
<1>2. KeyOf(th[t].ent) # k /\ Place(t, k) # th[t].d - 1
      /\ Seen(t, k, th[t].d - 1) /\ th[t].seen \in Seq(Pairs)
  BY <1>1 DEF VisitsOK
<1>3. CASE Goes(t, "val")
  BY <1>1, <1>2, <1>3, VisitsStay DEF Goes, Lands, Same, Viewing
<1>4. CASE Continues(t) /\ Same(t)
  <2>1. th'[t].seen = th[t].seen
    BY <1>4 DEF Same
  <2>2. (Once(t, k)' <=> Once(t, k)) /\ (Never(t, k)' <=> Never(t, k))
    BY <1>1, <2>1, VisitsSame DEF Visits
  <2>3. th[t].tab \in DOMAIN tabs /\ th[t].d \in Nat
    BY <1>1, CallFacts DEF HoldsOK, LocalTypes
  <2>4. Place(t, k) \in Nat
    BY <2>3, PlaceFacts
  <2>5. Place(t, k) <= th[t].d - 1 <=> Place(t, k) < th[t].d - 1
    BY <1>2, <2>3, <2>4
  <2>6. IF Place(t, k) <= th[t].d - 1 THEN Once(t, k)' ELSE Never(t, k)'
    BY <1>2, <2>2, <2>5 DEF Seen
  <2>7. QED
    BY <1>1, <1>2, <1>4, <2>1, <2>6, VisitsContinue
<1>5. QED
  BY <1>1, <1>3, <1>4

\* LoadVal visits the key with its value, or another key.
LEMMA VisitsLoadVal ==
    ASSUME ShapeInv, NEW k \in Key, FixedOK(k), NEW t \in Call, Kind(t) \in Ranges,
           VisitsOK(t, k), LoadVal(t)
    PROVE  VisitsOK(t, k)'
<1> DEFINE x == <<KeyOf(th[t].ent), op[val[th[t].ent]].val>>
           p == <<k, op[k].val>>
<1>1. /\ tabs' = tabs /\ op' = op /\ th[t].pc = "val" /\ th[t].pc \in Viewing
      /\ val[th[t].ent] \in Obj /\ Continues(t) /\ th'[t].seen = Append(th[t].seen, x)
  BY LoadValEffect DEF table, Viewing
<1>2. /\ th[t].seen \in Seq(Pairs) /\ Seen(t, k, th[t].d - 1)
      /\ KeyOf(th[t].ent) = k <=> Place(t, k) = th[t].d - 1
      /\ KeyOf(th[t].ent) = k => th[t].ent = k
  BY <1>1 DEF VisitsOK
<1>3. th[t].ent \in Obj /\ th[t].tab \in DOMAIN tabs /\ th[t].d \in Nat /\ OpsTyped
  BY <1>1, CallFacts DEF HoldsOK, LocalTypes
<1>4. Place(t, k) \in Nat
  BY <1>3, PlaceFacts
<1>5. x \in Pairs
  <2>1. \A o \in Obj : op[o].key \in Key \cup {Nil} /\ op[o].val \in Value \cup {Nil}
    BY <1>3 DEF OpsTyped, Operations
  <2>2. KeyOf(th[t].ent) \in Key \cup {Nil}
    BY <1>3, <2>1, KeyFacts
  <2>3. QED
    BY <1>1, <2>1, <2>2 DEF Pairs
<1>6. x = p <=> Place(t, k) = th[t].d - 1
  <2>1. th[t].ent = k => val[th[t].ent] = k
    BY DEF FixedOK
  <2>2. QED
    BY <1>2, <2>1
<1> HIDE DEF x, p
<1>7. /\ th'[t].seen \in Seq(Pairs)
      /\ x # p => Visits(t, k)' = Visits(t, k)
      /\ x = p /\ Never(t, k) => Once(t, k)'
  BY <1>1, <1>2, <1>5, VisitsAppend DEF p
<1>8. IF Place(t, k) <= th[t].d - 1 THEN Once(t, k)' ELSE Never(t, k)'
  <2>1. CASE Place(t, k) = th[t].d - 1
    <3>1. ~(Place(t, k) < th[t].d - 1) /\ Place(t, k) <= th[t].d - 1
      BY <1>3, <1>4, <2>1
    <3>2. QED
      BY <1>2, <1>6, <1>7, <2>1, <3>1 DEF Seen
  <2>2. CASE Place(t, k) # th[t].d - 1
    <3>1. Place(t, k) <= th[t].d - 1 <=> Place(t, k) < th[t].d - 1
      BY <1>3, <1>4, <2>2
    <3>2. (Once(t, k)' <=> Once(t, k)) /\ (Never(t, k)' <=> Never(t, k))
      BY <1>6, <1>7, <2>2, VisitsSame
    <3>3. QED
      BY <1>2, <3>1, <3>2 DEF Seen
  <2>3. QED
    BY <2>1, <2>2
<1>9. QED
  BY <1>1, <1>7, <1>8, VisitsContinue

\* The steps of a Range.
LEMMA VisitsSelf ==
    ASSUME ShapeInv, NEW k \in Key, FixedOK(k), NEW t \in Call, Kind(t) \in Ranges,
           VisitsOK(t, k), Step(t)
    PROVE  VisitsOK(t, k)'
<1>1. KindOK(t) /\ Kind(t) \in {"Range", "Snapshot"}
  BY CallFacts DEF Ranges
<1>2. CASE Invoke(t)
  <2>1. /\ th'[t].pc = "range" /\ th'[t].seen = th[t].seen /\ th[t].pc = "call"
    BY <1>1, <1>2, InvokeEffect DEF Finders, Readers, Ranges, Same, Invoke, At
  <2>2. QED
    BY <2>1 DEF VisitsOK, Viewing
<1>3. ASSUME Find(t) \/ Lock(t) \/ ConsumeHit(t) \/ Grow(t) \/ InsertEntry(t) \/ LockedAbsent(t)
             \/ Finds(t) \/ ComputePanics(t)
      PROVE  FALSE
  <2>1. th[t].pc \in {"find", "walk", "lock", "consume", "grow", "locked"}
    BY <1>3, FindEffect, LockEffect, GrowEffect, InsertEffect, LockedAbsentEffect, FindsEffect,
       PanicEffect, ConsumeHitEffect
  <2>2. QED
    BY <1>1, <2>1 DEF KindOK, Finders, Readers, Ranges, Inserters
<1>4. ASSUME StoreVal(t) \/ StoreMeta(t) \/ RemoveEntry(t) \/ CleanupNow(t) \/ Clear(t)
      PROVE  FALSE
  BY <1>1, <1>4, StoreValEffect, StoreMetaEffect, RemoveEffect, CleanupEffect, ClearEffect
     DEF Storing, Removing
<1>5. QED
  BY Steps, <1>2, <1>3, <1>4, VisitsScan, VisitsLoadMeta, VisitsCheckLimit, VisitsLoadVal

\* The steps of the other calls.
LEMMA VisitsOther ==
    ASSUME ShapeInv, NEW k \in Key, NEW t \in Call, Kind(t) \in Ranges, VisitsOK(t, k),
           th'[t] = th[t], op' = op, SlotsKept(k)
    PROVE  VisitsOK(t, k)'
<1>1. Visits(t, k)' = Visits(t, k)
  BY DEF Visits
<1>2. (Once(t, k)' <=> Once(t, k)) /\ (Never(t, k)' <=> Never(t, k))
  BY <1>1, VisitsSame
<1>3. KeyOf(th[t].ent)' = KeyOf(th[t].ent)
  BY DEF KeyOf
<1>4. ASSUME th[t].pc \in Viewing \cup {"visit"} PROVE Place(t, k)' = Place(t, k)
  <2>1. th[t].tab \in DOMAIN tabs
    BY <1>4, CallFacts DEF HoldsOK
  <2>2. QED
    BY <2>1 DEF Place, SlotsKept
<1>5. th[t].pc = "visit" => Seen(t, k, th[t].d)'
  BY <1>2, <1>4 DEF VisitsOK, Seen
<1>6. th[t].pc \in Viewing =>
        Seen(t, k, th[t].d - 1)' /\ (KeyOf(th[t].ent) = k <=> Place(t, k) = th[t].d - 1)'
  BY <1>2, <1>3, <1>4 DEF VisitsOK, Seen
<1>7. QED
  BY <1>2, <1>3, <1>5, <1>6 DEF VisitsOK

\* Every step keeps VisitInv.
LEMMA VisitNext == ASSUME ShapeInv, VisitInv, [Next]_vars PROVE VisitInv'
<1>1. ASSUME op' = op, NEW k \in Key, Untouched(k)' PROVE Untouched(k)
  BY <1>1 DEF Untouched, Limited, Kind
<1>2. ASSUME NEW u \in Call, Step(u), NEW k \in Key, Untouched(k)'
      PROVE  FixedOK(k)' /\ \A t \in Call : Kind(t)' \in Ranges => VisitsOK(t, k)'
  <2>1. Moved(u) /\ op' = op
    BY <1>2, StepMoves
  <2>2. Untouched(k)
    BY <1>1, <1>2, <2>1
  <2>3. FixedOK(k) /\ \A t \in Call : Kind(t) \in Ranges => VisitsOK(t, k)
    BY <2>2 DEF VisitInv
  <2>4. FixedOK(k)' /\ SlotsKept(k)
    BY <1>2, <2>2, <2>3, FixedStep
  <2>5. ASSUME NEW t \in Call, Kind(t)' \in Ranges PROVE VisitsOK(t, k)'
    <3>1. Kind(t) \in Ranges
      BY <2>1, <2>5 DEF Kind
    <3>2. CASE t = u
      BY <1>2, <2>3, <3>1, <3>2, VisitsSelf
    <3>3. CASE t # u
      BY <2>1, <2>3, <2>4, <3>1, <3>3, VisitsOther DEF Moved
    <3>4. QED
      BY <3>2, <3>3
  <2>6. QED
    BY <2>4, <2>5
<1>3. ASSUME Tick \/ UNCHANGED vars, NEW k \in Key, Untouched(k)'
      PROVE  FixedOK(k)' /\ \A t \in Call : Kind(t)' \in Ranges => VisitsOK(t, k)'
  <2>1. tabs' = tabs /\ val' = val /\ meta' = meta /\ op' = op /\ th' = th
    BY <1>3 DEF Tick, vars, table, entry
  <2>2. FixedOK(k) /\ \A t \in Call : Kind(t) \in Ranges => VisitsOK(t, k)
    BY <1>1, <1>3, <2>1 DEF VisitInv
  <2>3. FixedOK(k)' /\ SlotsKept(k)
    BY <2>1, <2>2 DEF FixedOK, SlotsKept
  <2>4. QED
    BY <2>1, <2>2, <2>3, VisitsOther DEF Kind
<1>4. QED
  BY <1>2, <1>3 DEF Next, Finished, VisitInv

\* It holds before the calls.
LEMMA VisitInit == ASSUME Init PROVE VisitInv
<1>1. PICK w \in Workloads : /\ tabs = <<w.slots>>
                             /\ OpsTyped /\ \A k \in Key : op[k] = w.first[k]
  BY InitFacts
<1>2. /\ val = [e \in Obj |-> IF e \in Key THEN e ELSE Nil]
      /\ meta = [e \in Obj |-> IF e \in Key /\ Limited(e) THEN e ELSE Nil]
      /\ th = [t \in Call |-> Locals]
  BY DEF Init
<1>3. ASSUME NEW k \in Key, Untouched(k) PROVE FixedOK(k)
  <2>1. val[k] = k /\ meta[k] = Nil
    BY <1>2, <1>3 DEF Obj, Untouched
  <2>2. \E i \in DOMAIN w.slots : w.slots[i] = k
    BY <1>1, <1>3, WorkloadsAssumption DEF Untouched
  <2>3. \A g \in DOMAIN tabs : tabs[g] = w.slots
    BY <1>1
  <2>4. QED
    BY <2>1, <2>2, <2>3 DEF FixedOK
<1>4. ASSUME NEW t \in Call, NEW k PROVE VisitsOK(t, k)
  <2>1. th[t].pc = "call" /\ th[t].seen = <<>>
    BY <1>2 DEF Locals
  <2>2. QED
    BY <2>1 DEF VisitsOK, Viewing
<1>5. QED
  BY <1>3, <1>4 DEF VisitInv

\* It always holds.
LEMMA VisitAlways == Spec => []VisitInv
  BY VisitInit, VisitNext, ShapeAlways, PTL DEF Spec
-------------------------------------------------------------------------------
\* Range and Snapshot visit a key that no call writes exactly once, with its
\* value, in whatever table they began on and whoever grows or rebuilds it
\* meanwhile (Range, growLocked, cleanupLocked).
THEOREM TypedRangesVisitOnce == Spec => []RangeVisitsOnce
<1>1. ASSUME VisitInv PROVE RangeVisitsOnce
  <2>1. ASSUME NEW t \in Call, Kind(t) \in Ranges, At(t, "done"), NEW k \in Key, Untouched(k)
        PROVE  Cardinality({i \in DOMAIN th[t].seen : th[t].seen[i] = <<k, op[k].val>>}) = 1
    <3>1. Once(t, k)
      BY <1>1, <2>1 DEF VisitInv, VisitsOK, At
    <3>2. PICK i : Visits(t, k) = {i}
      BY <3>1 DEF Once
    <3>3. Cardinality({i}) = 1
      BY FS_Singleton
    <3>4. QED
      BY <3>2, <3>3 DEF Visits
  <2>2. QED
    BY <2>1 DEF RangeVisitsOnce, Untouched
<1>2. QED
  BY <1>1, VisitAlways, PTL
-------------------------------------------------------------------------------
\* Without limits: the value in an entry, the value of a key, and the calls that
\* have taken effect.
Plain == \A o \in Obj : ~Limited(o)
Word(e) == op[val[e]].val
Stored(k) == LET e == EntryAt(KeyIn, Current, k) IN IF e = Nil THEN Nil ELSE Word(e)
Committed(t) == th[t].pc \in {"storeMeta", "done"}

\* An order of calls with the contents between them: each has the answer that
\* the contents before it give, and follows those that ended before it began.
Sight(o, v) == IF o.key = Nil THEN Nil ELSE v[o.key]
Account(ops, l, order, h) ==
    /\ order \in Seq(Call)
    /\ \A i, j \in 1..Len(order) : order[i] = order[j] => i = j
    /\ \A k \in Key : h[0][k] = ops[k].val
    /\ \A i \in 1..Len(order) : \A k \in Key :
          h[i][k] = After(ops[order[i]], k, h[i - 1][k])
    /\ \A i \in 1..Len(order) :
          l[order[i]].res = Answers(ops[order[i]], Sight(ops[order[i]], h[i - 1]))
    /\ \A i, j \in 1..Len(order) : order[i] \in l[order[j]].before => i < j
Listed(order, t) == \E i \in 1..Len(order) : order[i] = t

\* Key k had value v at a time when all calls in B had taken effect.
Known(order, h, B, k, v) ==
    \E p \in 0..Len(order) : /\ h[p][k] = v
                             /\ \A i \in 1..Len(order) : order[i] \in B => i <= p

\* When the answer of a call that ends fits an order: behind the first p calls,
\* where it leaves the contents alone, or behind all.
Fits(ops, l, m, order, h, u, p) ==
    /\ ~Listed(order, u) /\ u \notin m[u].before
    /\ \A i \in 1..Len(order) : /\ m[order[i]].res = l[order[i]].res
                                /\ m[order[i]].before = l[order[i]].before
                                /\ u \notin l[order[i]].before
    /\ \A i \in 1..Len(order) : order[i] \in m[u].before => i <= p
    /\ m[u].res = Answers(ops[u], Sight(ops[u], h[p]))
    /\ p = Len(order) \/ \A k \in Key : After(ops[u], k, h[p][k]) = h[p][k]

\* The order with it.
Joined(ops, m, order, h, u, p, o, g) ==
    /\ Account(ops, m, o, g)
    /\ \A t \in Call : Listed(o, t) <=> t = u \/ Listed(order, t)
    /\ \A k \in Key : g[Len(o)][k] = IF p = Len(order) THEN After(ops[u], k, h[p][k])
                                     ELSE h[Len(order)][k]
    /\ \A B, k, v : u \notin B /\ Known(order, h, B, k, v) => Known(o, g, B, k, v)

\* A call is put into an order: a reader anywhere, a writer at the end.
LEMMA AccountInsert ==
    ASSUME NEW ops, NEW l, NEW m, NEW order, NEW h, Account(ops, l, order, h),
           NEW u \in Call, NEW p \in 0..Len(order), Fits(ops, l, m, order, h, u, p)
    PROVE  \E o, g : Joined(ops, m, order, h, u, p, o, g)
<1> USE DEF Fits
<1> DEFINE n == Len(order)
           new == [k \in Key |-> After(ops[u], k, h[p][k])]
           o == [i \in 1..(n + 1) |-> IF i <= p THEN order[i]
                                      ELSE IF i = p + 1 THEN u ELSE order[i - 1]]
           g == [i \in 0..(n + 1) |-> IF i <= p THEN h[i]
                                      ELSE IF p = n THEN new ELSE h[i - 1]]
<1>1. n \in Nat /\ p \in Nat /\ p <= n /\ order \in Seq(Call) /\ \A i \in 1..n : order[i] \in Call
  BY DEF Account
<1>2. o \in Seq(Call) /\ Len(o) = n + 1
  <2>1. \A i \in 1..(n + 1) : o[i] \in Call
    BY <1>1
  <2>2. o \in [1..(n + 1) -> Call]
    BY <2>1
  <2> HIDE DEF o
  <2>3. QED
    BY <1>1, <2>2
<1>3. /\ \A i \in 1..p : i \in 1..n /\ i \in 1..(n + 1) /\ o[i] = order[i]
      /\ p + 1 \in 1..(n + 1) /\ o[p + 1] = u
      /\ \A i \in (p + 1)..n : i \in 1..n /\ i + 1 \in 1..(n + 1) /\ o[i + 1] = order[i]
      /\ \A i \in 1..(n + 1) : i \in 1..p \/ i = p + 1 \/ i - 1 \in (p + 1)..n
  BY <1>1
<1>4. /\ \A i \in 0..p : g[i] = h[i]
      /\ p < n => \A i \in p..n : g[i + 1] = h[i]
      /\ p = n => g[n + 1] = new
  BY <1>1
<1>5. \A k \in Key : new[k] = After(ops[u], k, h[p][k])
  OBVIOUS
<1> HIDE DEF n, new, o, g
<1> DEFINE Up(x) == IF x <= p THEN x ELSE x + 1
<1>11. ASSUME NEW i \in 1..(n + 1), i # p + 1
       PROVE  \E x \in 1..n : o[i] = order[x] /\ i = Up(x)
  <2>1. CASE i \in 1..p
    BY <2>1, <1>1, <1>3
  <2>2. CASE i - 1 \in (p + 1)..n
    <3>1. i - 1 \in 1..n /\ (i - 1) + 1 = i /\ i = Up(i - 1)
      BY <2>2, <1>1
    <3>2. o[(i - 1) + 1] = order[i - 1]
      BY <2>2, <1>3
    <3>3. QED
      BY <3>1, <3>2
  <2>3. QED
    BY <1>3, <1>11, <2>1, <2>2
<1>6. Account(ops, m, o, g)
  <2>1. \A i, j \in 1..(n + 1) : o[i] = o[j] => i = j
    <3>1. \A i \in 1..n : order[i] # u
      BY DEF Listed, n
    <3>2. \A i, j \in 1..n : order[i] = order[j] => i = j
      BY DEF Account, n
    <3>3. \A x, y \in 1..n : Up(x) = Up(y) <=> x = y
      BY <1>1
    <3> HIDE DEF Up
    <3>4. ASSUME NEW i \in 1..(n + 1), NEW j \in 1..(n + 1), o[i] = o[j] PROVE i = j
      <4>1. CASE i = p + 1 \/ j = p + 1
        BY <4>1, <1>3, <1>11, <3>1, <3>4
      <4>2. CASE i # p + 1 /\ j # p + 1
        BY <4>2, <1>11, <3>2, <3>4
      <4>3. QED
        BY <4>1, <4>2
    <3>5. QED
      BY <3>4
  <2>2. \A k \in Key : g[0][k] = ops[k].val
    BY <1>1, <1>4 DEF Account
  <2>3. ASSUME NEW i \in 1..(n + 1)
        PROVE  /\ \A k \in Key : g[i][k] = After(ops[o[i]], k, g[i - 1][k])
               /\ m[o[i]].res = Answers(ops[o[i]], Sight(ops[o[i]], g[i - 1]))
    <3>1. CASE i \in 1..p
      <4>1. i - 1 \in 0..p /\ i \in 0..p /\ i \in 1..n
        BY <3>1, <1>1
      <4>2. g[i] = h[i] /\ g[i - 1] = h[i - 1] /\ o[i] = order[i]
        BY <3>1, <4>1, <1>3, <1>4
      <4>3. QED
        BY <4>1, <4>2 DEF Account, n
    <3>2. CASE i = p + 1
      <4>1. g[i - 1] = h[p] /\ o[i] = u
        BY <3>2, <1>1, <1>3, <1>4
      <4>2. \A k \in Key : g[i][k] = After(ops[u], k, h[p][k])
        <5>1. CASE p = n
          BY <5>1, <3>2, <1>4, <1>5
        <5>2. CASE p < n
          <6>1. g[i] = h[p]
            BY <5>2, <3>2, <1>1, <1>4
          <6>2. QED
            BY <5>2, <6>1, <1>1 DEF n
        <5>3. QED
          BY <5>1, <5>2, <1>1
      <4>3. QED
        BY <4>1, <4>2
    <3>3. CASE i - 1 \in (p + 1)..n
      <4> DEFINE j == i - 1
      <4>1. p < n /\ j \in 1..n /\ j \in p..n /\ j - 1 \in p..n /\ i = j + 1 /\ j = (j - 1) + 1
        BY <3>3, <1>1
      <4>2. g[i] = h[j] /\ g[i - 1] = h[j - 1]
        BY <4>1, <1>4
      <4>3. o[i] = order[j]
        BY <3>3, <4>1, <1>3
      <4> HIDE DEF j
      <4>4. QED
        BY <4>1, <4>2, <4>3 DEF Account, n
    <3>4. QED
      BY <1>3, <3>1, <3>2, <3>3
  <2>4. ASSUME NEW i \in 1..(n + 1), NEW j \in 1..(n + 1), o[i] \in m[o[j]].before PROVE i < j
    <3>1. \A x \in 1..n : m[order[x]].before = l[order[x]].before /\ u \notin l[order[x]].before
      BY DEF n
    <3>2. \A x, y \in 1..n : order[x] \in l[order[y]].before => x < y
      BY DEF Account, n
    <3>3. \A x \in 1..n : order[x] \in m[u].before => x <= p
      BY DEF n
    <3>4. u \notin m[u].before
      OBVIOUS
    <3>5. CASE j = p + 1
      <4>1. i # p + 1 /\ o[i] \in m[u].before
        BY <2>4, <3>4, <3>5, <1>3
      <4>2. i \in 1..p \/ i - 1 \in (p + 1)..n
        BY <4>1, <1>3
      <4>3. CASE i \in 1..p
        BY <4>3, <3>5, <1>1
      <4>4. CASE i - 1 \in (p + 1)..n
        <5>1. i - 1 \in 1..n /\ o[i] = order[i - 1]
          BY <4>4, <1>1, <1>3
        <5>2. i - 1 <= p
          BY <5>1, <4>1, <3>3
        <5>3. QED
          BY <4>4, <5>2, <1>1
      <4>5. QED
        BY <4>2, <4>3, <4>4
    <3>6. CASE j # p + 1
      <4>1. PICK y \in 1..n : o[j] = order[y] /\ j = Up(y)
        BY <3>6, <1>11
      <4>2. o[i] \in l[order[y]].before
        BY <2>4, <3>1, <4>1
      <4>3. i # p + 1
        BY <4>2, <3>1, <1>3
      <4>4. PICK x \in 1..n : o[i] = order[x] /\ i = Up(x)
        BY <4>3, <1>11
      <4>5. x < y
        BY <4>2, <4>4, <3>2
      <4>6. QED
        BY <4>1, <4>4, <4>5, <1>1
    <3>7. QED
      BY <3>5, <3>6
  <2>5. QED
    BY <1>2, <2>1, <2>2, <2>3, <2>4 DEF Account
<1>7. ASSUME NEW t \in Call PROVE Listed(o, t) <=> t = u \/ Listed(order, t)
  <2>1. \A i \in 1..(n + 1) : o[i] = u \/ \E j \in 1..n : o[i] = order[j]
    BY <1>3
  <2>2. \A j \in 1..n : \E i \in 1..(n + 1) : o[i] = order[j]
    <3> SUFFICES ASSUME NEW j \in 1..n PROVE \E i \in 1..(n + 1) : o[i] = order[j]
      OBVIOUS
    <3>1. j \in 1..p \/ j \in (p + 1)..n
      BY <1>1
    <3>2. QED
      BY <3>1, <1>3
  <2>3. \E i \in 1..(n + 1) : o[i] = u
    BY <1>3
  <2>4. QED
    BY <1>2, <2>1, <2>2, <2>3 DEF Listed, n
<1>8. ASSUME NEW k \in Key
      PROVE  g[Len(o)][k] = IF p = n THEN After(ops[u], k, h[p][k]) ELSE h[n][k]
  <2>1. CASE p = n
    BY <2>1, <1>2, <1>4, <1>5
  <2>2. CASE p < n
    BY <2>2, <1>1, <1>2, <1>4
  <2>3. QED
    BY <2>1, <2>2, <1>1
<1>9. ASSUME NEW B, NEW k, NEW v, u \notin B, Known(order, h, B, k, v) PROVE Known(o, g, B, k, v)
  <2>1. PICK q \in 0..n : h[q][k] = v /\ \A i \in 1..n : order[i] \in B => i <= q
    BY <1>9 DEF Known, n
  <2> DEFINE r == IF q <= p THEN q ELSE q + 1
  <2>2. r \in 0..(n + 1) /\ g[r] = h[q]
    <3>1. CASE q <= p
      BY <3>1, <1>1, <1>4
    <3>2. CASE ~(q <= p)
      BY <3>2, <1>1, <1>4
    <3>3. QED
      BY <3>1, <3>2
  <2>3. ASSUME NEW i \in 1..(n + 1), o[i] \in B PROVE i <= r
    <3>1. i # p + 1
      BY <1>3, <1>9, <2>3
    <3>2. PICK x \in 1..n : o[i] = order[x] /\ i = Up(x)
      BY <3>1, <1>11
    <3>3. x <= q
      BY <2>1, <2>3, <3>2
    <3>4. QED
      BY <3>2, <3>3, <1>1
  <2> HIDE DEF r
  <2>4. QED
    BY <1>2, <2>1, <2>2, <2>3 DEF Known
<1>10. QED
  BY <1>6, <1>7, <1>8, <1>9 DEF n, Joined

\* The entry that a probe finds is the only one of its key in the table.
LEMMA HolderIs ==
    ASSUME NEW key, NEW T, Sound(key, T), NEW k \in Key, NEW e, e = EntryAt(key, T, k)
    PROVE  /\ e \in Obj \cup {Nil}
           /\ \A x \in Obj : x \in EntriesOf(T) /\ key[x] = k <=> x = e
<1> DEFINE i == FirstSlot(T, k, Stops(key, k))
<1>1. /\ i \in DOMAIN T
      /\ T[i] = Nil \/ (T[i] \in Obj /\ key[T[i]] = k)
      /\ \A j \in DOMAIN T : T[j] \in Obj /\ key[T[j]] = k => j = i
  BY Stop
<1>2. i \in DOMAIN T
  BY Stop
<1>3. e = T[i]
  BY DEF EntryAt
<1> HIDE DEF i
<1>4. QED
  BY <1>1, <1>2, <1>3, Names DEF EntriesOf

\* The value of a key is in the entry of the current table that has it.
StoredFacts ==
    \A k \in Key :
        \/ Stored(k) = Nil /\ \A x \in Obj : x \in EntriesOf(Current) => KeyOf(x) # k
        \/ \E e \in Obj :
             /\ e \in EntriesOf(Current) /\ KeyOf(e) = k /\ Stored(k) = Word(e)
             /\ \A x \in Obj : x \in EntriesOf(Current) /\ KeyOf(x) = k => x = e

\* That is how the table is looked up.
LEMMA StoredIs == ShapeInv => StoredFacts
<1> SUFFICES ASSUME ShapeInv, NEW k \in Key
             PROVE  \/ /\ Stored(k) = Nil
                       /\ \A x \in Obj : x \in EntriesOf(Current) => KeyOf(x) # k
                    \/ \E e \in Obj :
                         /\ e \in EntriesOf(Current) /\ KeyOf(e) = k /\ Stored(k) = Word(e)
                         /\ \A x \in Obj : x \in EntriesOf(Current) /\ KeyOf(x) = k => x = e
  BY DEF StoredFacts
<1>1. Sound(KeyIn, Current)
  BY CurrentOK
<1>2. \A x \in Obj : KeyIn[x] = KeyOf(x)
  BY DEF KeyIn
<1>3. /\ EntryAt(KeyIn, Current, k) \in Obj \cup {Nil}
      /\ \A x \in Obj : x \in EntriesOf(Current) /\ KeyIn[x] = k <=> x = EntryAt(KeyIn, Current, k)
  BY <1>1, HolderIs
<1>4. QED
  BY <1>2, <1>3, Names DEF Stored

\* After a step as well.
LEMMA StoredNext == ShapeInv' => StoredFacts'
  BY StoredIs, PTL

\* Whatever is in a table has a value.
TableWords == \A g \in DOMAIN tabs : \A i \in DOMAIN tabs[g] :
    tabs[g][i] \in Obj => Word(tabs[g][i]) # Nil

\* What a step leaves of the values and slots that a reader may come to: what
\* it changes has or had the value of its key.
Follows ==
    /\ \A e \in Obj : val[e] # Nil =>
          val'[e] = val[e] \/ (Word(e)' = Stored(KeyOf(e))' /\ Word(e)' # Nil)
    /\ TablesStay
    /\ \A g \in DOMAIN tabs : \A i \in DOMAIN tabs[g] :
          \/ tabs'[g][i] = tabs[g][i]
          \/ \E x \in Obj : /\ tabs[g][i] \notin Obj /\ tabs'[g][i] = x
                            /\ Word(x)' = Stored(KeyOf(x))'
          \/ \E x \in Obj : /\ tabs[g][i] = x /\ tabs'[g][i] \notin Obj
                            /\ Stored(KeyOf(x))' = Nil
Unchanged == \A k \in Key : Stored(k)' = Stored(k)
Writes(o) == \A k \in Key : Stored(k)' = After(o, k, Stored(k))
Good == TableWords' /\ Follows

\* A step that changes neither table nor values.
LEMMA SameStored ==
    ASSUME TableWords, op' = op, tabs' = tabs, val' = val
    PROVE  Unchanged /\ Good
<1>1. KeyIn' = KeyIn /\ Current' = Current
  BY KeysSame DEF Current
<1>2. \A k \in Key : Stored(k)' = Stored(k)
  BY <1>1 DEF Stored, Word
<1>3. TableWords'
  BY DEF TableWords, Word
<1>4. Follows
  BY DEF Follows, TablesStay
<1>5. QED
  BY <1>2, <1>3, <1>4 DEF Unchanged, Good

\* A step that replaces the table by one with some of its entries.
LEMMA NewStored ==
    ASSUME ShapeInv, TableWords, op' = op, val' = val, NEW N, NewTable(N),
           \A x \in Obj : x \in EntriesOf(N) => x \in EntriesOf(Current)
    PROVE  Good
<1>1. /\ DOMAIN tabs' = DOMAIN tabs \cup {Len(tabs')} /\ tabs'[Len(tabs')] = N
      /\ (\A g \in DOMAIN tabs : tabs'[g] = tabs[g]) /\ TablesStay
  BY AppendFacts
<1>2. Follows
  BY <1>1 DEF Follows
<1>3. ASSUME NEW g \in DOMAIN tabs', NEW i \in DOMAIN tabs'[g], NEW x \in Obj, tabs'[g][i] = x
      PROVE  Word(x)' # Nil
  <2>1. Word(x)' = Word(x)
    BY DEF Word
  <2>2. CASE g \in DOMAIN tabs
    BY <1>1, <1>3, <2>1, <2>2 DEF TableWords
  <2>3. CASE g = Len(tabs')
    <3>1. x \in EntriesOf(N)
      BY <1>1, <1>3, <2>3, Names DEF EntriesOf
    <3>2. PICK j \in DOMAIN Current : Current[j] = x
      BY <3>1 DEF EntriesOf
    <3>3. Len(tabs) \in DOMAIN tabs /\ Current = tabs[Len(tabs)]
      BY CurrentOK DEF Current
    <3>4. Word(x) # Nil
      BY <3>2, <3>3 DEF TableWords
    <3>5. QED
      BY <2>1, <3>4
  <2>4. QED
    BY <1>1, <2>2, <2>3
<1>4. TableWords'
  BY <1>3 DEF TableWords, Word
<1>5. QED
  BY <1>2, <1>4 DEF Good

\* Growth and cleanup.
LEMMA RebuiltStored ==
    ASSUME ShapeInv, ShapeInv', TableWords, op' = op, val' = val,
           NEW N, Rebuilt(N, EntriesOf(Current))
    PROVE  Unchanged /\ Good
<1>1. NewTable(N) /\ EntriesOf(N) = EntriesOf(Current) /\ Current' = N
  BY AppendFacts DEF Rebuilt
<1>2. StoredFacts /\ StoredFacts'
  BY StoredIs, StoredNext
<1>3. \A e : KeyOf(e)' = KeyOf(e) /\ Word(e)' = Word(e)
  BY KeysSame DEF Word
<1>4. ASSUME NEW k \in Key PROVE Stored(k)' = Stored(k)
  BY <1>1, <1>2, <1>3 DEF StoredFacts
<1>5. QED
  BY <1>1, <1>4, NewStored DEF Unchanged

\* Clear.
LEMMA ClearStored ==
    ASSUME ShapeInv, ShapeInv', TableWords, op' = op, val' = val,
           NEW N, NewTable(N), \A i \in DOMAIN N : N[i] = Nil
    PROVE  (\A k \in Key : Stored(k)' = Nil) /\ Good
<1>1. Current' = N /\ EntriesOf(N) = {}
  BY AppendFacts DEF EntriesOf
<1>2. StoredFacts'
  BY StoredNext
<1>3. \A k \in Key : Stored(k)' = Nil
  BY <1>1, <1>2 DEF StoredFacts
<1>4. QED
  BY <1>1, <1>3, NewStored

\* An insertion into a slot, and a removal from it.
LEMMA EditGood ==
    ASSUME ShapeInv, TableWords, op' = op, NEW i \in DOMAIN Current, NEW c \in Cell,
           EditTable(Put(Current, i, c)), \A e \in Obj : val[e] # Nil => val'[e] = val[e],
           c \in Obj => Current[i] \notin Obj /\ Word(c)' # Nil /\ Word(c)' = Stored(KeyOf(c))',
           c \notin Obj => \E x \in Obj : Current[i] = x /\ Stored(KeyOf(x))' = Nil
    PROVE  Good
<1> DEFINE U == Put(Current, i, c)
<1>1. U[i] = c /\ \A j \in DOMAIN Current : j # i => U[j] = Current[j]
  BY CurrentOK, Edited
<1> HIDE DEF U
<1>2. EditTable(U) /\ Len(tabs) \in DOMAIN tabs /\ Current = tabs[Len(tabs)]
  BY CurrentOK DEF U, Current
<1>3. /\ DOMAIN tabs' = DOMAIN tabs /\ tabs'[Len(tabs)] = U /\ TablesStay
      /\ \A g \in DOMAIN tabs : g # Len(tabs) => tabs'[g] = tabs[g]
  BY <1>2, EditFacts
<1>4. DOMAIN U = DOMAIN Current
  BY <1>2 DEF EditTable
<1>5. ASSUME NEW g \in DOMAIN tabs, NEW j \in DOMAIN tabs[g]
      PROVE  \/ tabs'[g][j] = tabs[g][j]
             \/ g = Len(tabs) /\ j = i /\ tabs[g][j] = Current[i] /\ tabs'[g][j] = c
  BY <1>1, <1>2, <1>3, <1>5
<1>6. Follows
  <2>1. ASSUME NEW g \in DOMAIN tabs, NEW j \in DOMAIN tabs[g]
        PROVE  \/ tabs'[g][j] = tabs[g][j]
               \/ \E x \in Obj : /\ tabs[g][j] \notin Obj /\ tabs'[g][j] = x
                                 /\ Word(x)' = Stored(KeyOf(x))'
               \/ \E x \in Obj : /\ tabs[g][j] = x /\ tabs'[g][j] \notin Obj
                                 /\ Stored(KeyOf(x))' = Nil
    <3>1. SUFFICES ASSUME tabs'[g][j] # tabs[g][j], tabs[g][j] = Current[i], tabs'[g][j] = c
                   PROVE  \/ \E x \in Obj : /\ tabs[g][j] \notin Obj /\ tabs'[g][j] = x
                                            /\ Word(x)' = Stored(KeyOf(x))'
                          \/ \E x \in Obj : /\ tabs[g][j] = x /\ tabs'[g][j] \notin Obj
                                            /\ Stored(KeyOf(x))' = Nil
      BY <1>5
    <3>2. CASE c \in Obj
      BY <3>1, <3>2
    <3>3. CASE c \notin Obj
      BY <3>1, <3>3
    <3>4. QED
      BY <3>2, <3>3
  <2>2. QED
    BY <1>3, <2>1 DEF Follows
<1>7. ASSUME NEW g \in DOMAIN tabs', NEW j \in DOMAIN tabs'[g], NEW x \in Obj, tabs'[g][j] = x
      PROVE  Word(x)' # Nil
  <2>1. g \in DOMAIN tabs /\ j \in DOMAIN tabs[g]
    BY <1>3, <1>7 DEF TablesStay
  <2>2. CASE x = c
    BY <2>2
  <2>3. CASE x # c
    <3>1. tabs[g][j] = x
      BY <1>5, <1>7, <2>1, <2>3
    <3>2. val[x] # Nil /\ Word(x) # Nil
      BY <2>1, <3>1 DEF TableWords, ShapeInv, TablesOK
    <3>3. QED
      BY <3>2 DEF Word
  <2>4. QED
    BY <2>2, <2>3
<1>8. TableWords'
  BY <1>7 DEF TableWords, Word
<1>9. QED
  BY <1>6, <1>8 DEF Good

\* The value that a call stores.
LEMMA StoresValue ==
    ASSUME ShapeInv, NEW t \in Call, Kind(t) \in Storing
    PROVE  op[t].key \in Key /\ op[t].val # Nil
<1>1. op[t] \in Operations /\ OpsTyped
  BY CallFacts
<1>2. op[t].val # Nil
  BY <1>1 DEF Kind, Operations
<1>3. QED
  BY <1>1, <1>2, KeyFacts DEF OnKey

\* An insertion.
LEMMA InsertStored ==
    ASSUME ShapeInv, ShapeInv', TableWords, NEW t \in Call, InsertEntry(t)
    PROVE  /\ \A k \in Key : Stored(k)' = IF k = op[t].key THEN op[t].val ELSE Stored(k)
           /\ Stored(op[t].key) = Nil /\ Good
<1>1. /\ op' = op /\ th[t].pc = "locked" /\ op[t].key \in Key /\ Found(t) = Nil
      /\ val' = [val EXCEPT ![t] = t]
      /\ Kind(t) \in {"Store", "LoadOrStore", "Swap", "ComputeUpdate"}
  BY InsertEffect
<1>2. PICK i \in DOMAIN Current : Current[i] \in {Nil, Tomb} /\ EditTable(Put(Current, i, t))
  BY InsertEffect
<1>3. op[t].val # Nil /\ t \in Obj /\ t \in Cell
  BY <1>1, StoresValue DEF Storing, Obj, Cell
<1>4. val[t] = Nil /\ val \in [Obj -> Obj \cup {Nil}]
  BY <1>1 DEF ShapeInv, TablesOK, StateTypes, At
<1>5. /\ \A e : e # t => val'[e] = val[e]
      /\ val'[t] = t
  BY <1>1, <1>3, <1>4
<1>6. Word(t)' = op[t].val /\ \A e : e # t => Word(e)' = Word(e)
  BY <1>1, <1>5 DEF Word
<1> DEFINE U == Put(Current, i, t)
<1>7. EntriesOf(U) = EntriesOf(Current) \cup {t}
  BY <1>2, <1>3, CurrentOK, Names, CountPut
<1>8. Current' = U
  <2> HIDE DEF U
  <2>1. EditTable(U)
    BY <1>2 DEF U
  <2>2. QED
    BY <2>1, EditFacts
<1> HIDE DEF U
<1>9. t \notin EntriesOf(Current)
  <2>1. \A j \in DOMAIN Current : Current[j] \in Obj => val[Current[j]] # Nil
    BY CurrentOK DEF ShapeInv, TablesOK, Current
  <2>2. QED
    BY <1>3, <1>4, <2>1 DEF EntriesOf
<1>10. StoredFacts /\ StoredFacts' /\ (\A e : KeyOf(e)' = KeyOf(e)) /\ KeyOf(t) = op[t].key
  BY <1>1, <1>3, StoredIs, StoredNext, KeysSame, CallFacts, KeyFacts
<1>11. Stored(op[t].key) = Nil
  BY <1>1 DEF Stored, Found
<1>12. ASSUME NEW k \in Key
       PROVE  Stored(k)' = IF k = op[t].key THEN op[t].val ELSE Stored(k)
  <2>1. CASE k = op[t].key
    BY <1>3, <1>6, <1>7, <1>8, <1>10, <2>1 DEF StoredFacts
  <2>2. CASE k # op[t].key
    BY <1>3, <1>6, <1>7, <1>8, <1>9, <1>10, <2>2 DEF StoredFacts
  <2>3. QED
    BY <2>1, <2>2
<1>13. Word(t)' # Nil /\ Word(t)' = Stored(KeyOf(t))'
  <2>1. Stored(op[t].key)' = op[t].val
    BY <1>1, <1>12
  <2>2. QED
    BY <1>1, <1>3, <1>6, <1>10, <2>1
<1>14. \A e \in Obj : val[e] # Nil => val'[e] = val[e]
  BY <1>4, <1>5
<1>15. Good
  BY <1>1, <1>2, <1>3, <1>13, <1>14, Names, EditGood
<1>16. QED
  BY <1>11, <1>12, <1>15

\* A value stored in the entry of its key.
LEMMA ValStored ==
    ASSUME ShapeInv, ShapeInv', TableWords, NEW t \in Call, StoreVal(t)
    PROVE  /\ \A k \in Key : Stored(k)' = IF k = op[t].key THEN op[t].val ELSE Stored(k)
           /\ Good
<1>e. PICK e \in Obj : e = th[t].ent
  BY StoreValEffect
<1>1. /\ tabs' = tabs /\ op' = op /\ e \in Obj /\ e = Found(t) /\ Kind(t) \in Storing
      /\ val' = [val EXCEPT ![e] = t]
  BY <1>e, StoreValEffect DEF table
<1>2. op[t].key \in Key /\ op[t].val # Nil /\ t # Nil
  BY <1>1, StoresValue, Names DEF Obj
<1>3. KeyOf(e) = op[t].key /\ e # Nil
  BY <1>1, <1>2, FoundFacts, Names
<1>4. val'[e] = t /\ \A x : x # e => val'[x] = val[x]
  BY <1>1 DEF ShapeInv, StateTypes
<1>5. Word(e)' = op[t].val /\ \A x : x # e => Word(x)' = Word(x)
  BY <1>1, <1>4 DEF Word
<1>6. Current' = Current /\ KeyIn' = KeyIn /\ \A x : KeyOf(x)' = KeyOf(x)
  BY <1>1, KeysSame DEF Current
<1>7. \A k : Stored(k)' = IF EntryAt(KeyIn, Current, k) = Nil THEN Nil
                          ELSE Word(EntryAt(KeyIn, Current, k))'
  BY <1>6, Zenon DEF Stored
<1>8. e = EntryAt(KeyIn, Current, op[t].key)
  BY <1>1 DEF Found
<1>9. \A k \in Key : EntryAt(KeyIn, Current, k) = e => k = op[t].key
  <2>1. Sound(KeyIn, Current) /\ KeyIn[e] = op[t].key /\ e \in Obj
    BY <1>1, <1>3, CurrentOK DEF KeyIn
  <2>2. QED
    BY <2>1, HolderIs
<1>10. ASSUME NEW k \in Key
       PROVE  Stored(k)' = IF k = op[t].key THEN op[t].val ELSE Stored(k)
  <2> DEFINE x == EntryAt(KeyIn, Current, k)
  <2>1. Stored(k) = IF x = Nil THEN Nil ELSE Word(x)
    BY DEF Stored
  <2> HIDE DEF x
  <2>2. Stored(k)' = IF x = Nil THEN Nil ELSE op'[val'[x]].val
    BY <1>6 DEF Stored, x, Word
  <2>3. CASE k = op[t].key
    <3>1. x = e
      BY <1>8, <2>3 DEF x
    <3>2. QED
      BY <1>1, <1>3, <1>4, <2>2, <2>3, <3>1
  <2>4. CASE k # op[t].key
    <3>1. x # e
      BY <1>9, <2>4 DEF x
    <3>2. QED
      BY <1>1, <1>4, <2>1, <2>2, <2>4, <3>1 DEF Word
  <2>5. QED
    BY <2>3, <2>4
<1>11. Word(e)' = Stored(KeyOf(e))' /\ Word(e)' # Nil
  <2>1. Stored(op[t].key)' = op[t].val
    BY <1>1, <1>2, <1>10
  <2>2. QED
    BY <1>1, <1>2, <1>3, <1>5, <1>6, <2>1
<1>12. Follows
  BY <1>1, <1>4, <1>11 DEF Follows, TablesStay
<1>13. TableWords'
  <2>1. ASSUME NEW x \in Obj, Word(x) # Nil PROVE Word(x)' # Nil
    BY <1>5, <1>11, <2>1
  <2>2. QED
    BY <1>1, <2>1 DEF TableWords, Word
<1>14. QED
  BY <1>10, <1>12, <1>13 DEF Good

\* What a tombstone takes away.
LEMMA TombEntries ==
    ASSUME NEW T \in Tables, NEW i \in DOMAIN T, NEW U, U = Put(T, i, Tomb), NEW x \in Obj,
           \A j \in DOMAIN T : T[j] = T[i] => j = i
    PROVE  x \in EntriesOf(U) <=> x \in EntriesOf(T) /\ x # T[i]
<1>1. /\ DOMAIN U = DOMAIN T /\ U[i] = Tomb
      /\ \A j \in DOMAIN T : j # i => U[j] = T[j]
  BY Edited DEF Cell
<1>2. x # Tomb /\ x # Nil
  BY Names
<1>3. QED
  BY <1>1, <1>2 DEF EntriesOf

\* A removal.
LEMMA RemoveStored ==
    ASSUME ShapeInv, ShapeInv', TableWords, NEW t \in Call, RemoveEntry(t)
    PROVE  /\ \A k \in Key : Stored(k)' = IF k = op[t].key THEN Nil ELSE Stored(k)
           /\ Good
<1>1. /\ op' = op /\ val' = val /\ op[t].key \in Key /\ Found(t) \in Obj
  BY RemoveEffect DEF entry
<1>2. PICK i \in DOMAIN Current : Current[i] = Found(t) /\ EditTable(Put(Current, i, Tomb))
  BY RemoveEffect
<1> DEFINE U == Put(Current, i, Tomb)
<1>e. PICK e \in Obj : e = Found(t)
  BY <1>1
<1>3. KeyOf(e) = op[t].key /\ KeyIn[e] = op[t].key
  BY <1>1, <1>e, FoundFacts, Names DEF KeyIn
<1>4. \A j \in DOMAIN Current : Current[j] = e => j = i
  BY <1>1, <1>2, <1>3, <1>e, FoundFacts
<1>5. \A x \in Obj : x \in EntriesOf(U) <=> x \in EntriesOf(Current) /\ x # e
  BY <1>2, <1>4, <1>e, CurrentOK, TombEntries
<1> HIDE DEF U
<1>6. Current' = U
  <2>1. EditTable(U)
    BY <1>2 DEF U
  <2>2. QED
    BY <2>1, EditFacts
<1>7. e \in EntriesOf(Current)
  BY <1>1, <1>2, <1>e, Names DEF EntriesOf
<1>8. e \in Obj /\ \A x : KeyOf(x)' = KeyOf(x) /\ Word(x)' = Word(x)
  BY <1>1, KeysSame DEF Word
<1>9. StoredFacts /\ StoredFacts'
  BY StoredIs, StoredNext
<1>10. ASSUME NEW k \in Key
       PROVE  Stored(k)' = IF k = op[t].key THEN Nil ELSE Stored(k)
  <2>1. CASE k = op[t].key
    <3>1. \A x \in Obj : x \in EntriesOf(Current') => KeyOf(x)' # k
      BY <1>3, <1>5, <1>6, <1>7, <1>8, <1>9, <2>1 DEF StoredFacts
    <3>2. QED
      BY <1>9, <2>1, <3>1 DEF StoredFacts
  <2>2. CASE k # op[t].key
    BY <1>3, <1>5, <1>6, <1>8, <1>9, <2>2 DEF StoredFacts
  <2>3. QED
    BY <2>1, <2>2
<1>11. Stored(KeyOf(e))' = Nil
  <2>1. Stored(op[t].key)' = Nil
    BY <1>1, <1>10
  <2>2. QED
    BY <1>1, <1>3, <1>8, <2>1
<1>12. Current[i] = e /\ Tomb \notin Obj /\ Tomb \in Cell
  BY <1>2, <1>e, Names DEF Cell
<1>13. Good
  BY <1>1, <1>2, <1>8, <1>11, <1>12, EditGood
<1>14. QED
  BY <1>10, <1>13

\* A call on one key leaves the others alone.
LEMMA AfterElsewhere ==
    ASSUME NEW o, o.kind # "Clear", NEW k, k # o.key, NEW v PROVE After(o, k, v) = v
  BY DEF After

\* Without limits nothing has metadata and nothing is dead.
LEMMA NothingLimited ==
    ASSUME ShapeInv, LimitInv, Plain
    PROVE  \A e \in Obj : meta[e] = Nil /\ MetaOf(e) = Nil /\ \A time : ~Dead(e, time)
<1>1. \A e \in Obj : meta[e] = Nil
  BY DEF ShapeInv, StateTypes, LimitInv, PairsOK, Plain
<1>2. QED
  BY <1>1 DEF Plain, MetaOf, Dead

\* What a call finds is the value of its key.
LEMMA FoundWord ==
    ASSUME ShapeInv, LimitInv, Plain, TableWords, NEW t \in Call, op[t].key \in Key
    PROVE  /\ Found(t) = Nil => Stored(op[t].key) = Nil
           /\ Found(t) # Nil => /\ Stored(op[t].key) = Word(Found(t)) /\ Stored(op[t].key) # Nil
                                /\ LiveWord(t) # Nil /\ OldValue(t) = Stored(op[t].key)
<1>1. Stored(op[t].key) = IF Found(t) = Nil THEN Nil ELSE Word(Found(t))
  BY DEF Stored, Found
<1>2. ASSUME Found(t) # Nil
      PROVE  /\ Stored(op[t].key) # Nil
             /\ LiveWord(t) # Nil /\ OldValue(t) = Stored(op[t].key)
  <2>1. Found(t) \in Obj /\ val[Found(t)] # Nil
    BY <1>2, FoundFacts
  <2>2. PICK i \in DOMAIN Current : Current[i] = Found(t)
    BY FoundFacts
  <2>3. Word(Found(t)) # Nil
    BY <2>1, <2>2, CurrentOK DEF TableWords, Current
  <2>4. LiveWord(t) = val[Found(t)]
    BY <2>1, FoundIs, NothingLimited DEF LiveWord
  <2>5. OldValue(t) = Word(Found(t))
    BY <2>1, <2>4 DEF OldValue, Word
  <2>6. QED
    BY <1>1, <1>2, <2>1, <2>3, <2>4, <2>5
<1>3. QED
  BY <1>1, <1>2

\* What a method decides on the value of its key is what it promises.
LEMMA Decided ==
    ASSUME NEW t \in Call, NEW l, NEW r, Decides(t, l, r), IsLive(t),
           NEW v, OldValue(t) = v, v # Nil
    PROVE  /\ r = Answers(op[t], v)
           /\ l = "storeVal" => After(op[t], op[t].key, v) = op[t].val
           /\ l = "remove" => After(op[t], op[t].key, v) = Nil
           /\ l = "done" => After(op[t], op[t].key, v) = v
<1> DEFINE o == op[t]
<1>1. CASE o.kind = "Store"
  BY <1>1 DEF Decides, Kind, After, Answers, Readers, Ranges
<1>2. CASE o.kind = "LoadOrStore"
  BY <1>2 DEF Decides, Kind, After, Answers, Readers, Ranges
<1>3. CASE o.kind = "Swap"
  BY <1>3 DEF Decides, Kind, After, Answers, Readers, Ranges
<1>4. CASE o.kind = "ComputeUpdate"
  BY <1>4 DEF Decides, Kind, After, Answers, Readers, Ranges
<1>5. CASE o.kind = "ComputeDelete"
  BY <1>5 DEF Decides, Kind, After, Answers, Readers, Ranges
<1>6. CASE o.kind = "ComputeCancel"
  BY <1>6 DEF Decides, Kind, After, Answers, Readers, Ranges
<1>7. CASE o.kind = "Delete"
  BY <1>7 DEF Decides, Kind, After, Answers, Readers, Ranges
<1>8. CASE o.kind = "CompareAndSwap"
  BY <1>8 DEF Decides, Kind, After, Answers, Readers, Ranges, Absent
<1>9. CASE o.kind = "CompareAndDelete"
  BY <1>9 DEF Decides, Kind, After, Answers, Readers, Ranges, Absent
<1>10. QED
  BY <1>1, <1>2, <1>3, <1>4, <1>5, <1>6, <1>7, <1>8, <1>9 DEF Decides, Kind

\* What it promises when the key is absent.
LEMMA InsertedIs ==
    ASSUME NEW t \in Call, Kind(t) \in {"Store", "LoadOrStore", "Swap", "ComputeUpdate"}
    PROVE  Inserted(t) = Answers(op[t], Nil) /\ After(op[t], op[t].key, Nil) = op[t].val
<1>1. CASE op[t].kind = "Store"
  BY <1>1 DEF Inserted, Kind, After, Answers, Readers, Ranges
<1>2. CASE op[t].kind = "LoadOrStore"
  BY <1>2 DEF Inserted, Kind, After, Answers, Readers, Ranges
<1>3. CASE op[t].kind = "Swap"
  BY <1>3 DEF Inserted, Kind, After, Answers, Readers, Ranges, Absent
<1>4. CASE op[t].kind = "ComputeUpdate"
  BY <1>4 DEF Inserted, Kind, After, Answers, Readers, Ranges
<1>5. QED
  BY <1>1, <1>2, <1>3, <1>4 DEF Kind

\* The methods that leave an absent key alone.
LEMMA AbsentIs ==
    ASSUME NEW t \in Call, op[t] \in Operations,
           Kind(t) \in {"Delete", "CompareAndSwap", "CompareAndDelete", "ComputeDelete",
                        "ComputeCancel"}
    PROVE  Absent = Answers(op[t], Nil) /\ After(op[t], op[t].key, Nil) = Nil
<1>1. Kind(t) \in {"CompareAndSwap", "CompareAndDelete"} => op[t].old # Nil
  BY DEF Operations, Kind
<1>2. CASE Kind(t) \in {"Delete", "ComputeCancel"}
  BY <1>2 DEF Kind, After, Answers, Readers, Ranges, Absent
<1>3. CASE Kind(t) = "ComputeDelete"
  BY <1>3 DEF Kind, After, Answers, Readers, Ranges, Absent
<1>4. CASE Kind(t) \in {"CompareAndSwap", "CompareAndDelete"}
  BY <1>1, <1>4 DEF Kind, After, Answers, Readers, Ranges, Absent
<1>5. QED
  BY <1>2, <1>3, <1>4

\* What a read promises.
LEMMA ReadIs ==
    ASSUME NEW t \in Call, NEW v
    PROVE  /\ Kind(t) \in Readers /\ v = Nil =>
                 Absent = Answers(op[t], v) /\ After(op[t], op[t].key, v) = v
           /\ Kind(t) \in Finders /\ v # Nil =>
                 /\ Answer(IF Kind(t) = "Has" THEN Nil ELSE v, TRUE) = Answers(op[t], v)
                 /\ After(op[t], op[t].key, v) = v
<1>1. CASE Kind(t) \in {"Load", "Peek"}
  BY <1>1 DEF Kind, After, Answers, Readers, Ranges, Absent, Finders
<1>2. CASE Kind(t) = "Has"
  BY <1>2 DEF Kind, After, Answers, Readers, Ranges, Absent, Finders
<1>3. CASE Kind(t) = "LoadOrStore"
  BY <1>3 DEF Kind, After, Answers, Readers, Ranges, Absent, Finders
<1>4. CASE Kind(t) \notin Finders
  BY <1>4 DEF Finders
<1>5. QED
  BY <1>1, <1>2, <1>3, <1>4 DEF Finders, Readers

\* What the methods without a key promise.
LEMMA SweepIs ==
    ASSUME ShapeInv, NEW t \in Call, Kind(t) \in Ranges \cup Sweepers
    PROVE  /\ op[t].key = Nil /\ \A v : Answers(op[t], v) = Answer(Nil, TRUE)
           /\ \A k \in Key : \A v : After(op[t], k, v) = IF Kind(t) = "Clear" THEN Nil ELSE v
<1>1. op[t].key = Nil
  <2>1. Kind(t) \notin OnKey
    BY DEF Ranges, Sweepers, OnKey, Storing, Readers
  <2>2. QED
    BY <2>1, CallFacts, KeyFacts
<1>2. \A v : Answers(op[t], v) = Answer(Nil, TRUE)
  BY DEF Answers, Kind, Ranges, Sweepers
<1>3. \A k \in Key : \A v : After(op[t], k, v) = IF Kind(t) = "Clear" THEN Nil ELSE v
  BY <1>1, TypedNamesAssumption DEF After, Kind
<1>4. QED
  BY <1>1, <1>2, <1>3

-------------------------------------------------------------------------------
\* What a call has decided under the mutex, and what a Range answers.
DecidedOK(t) ==
    LET k == op[t].key
        r == th[t].res IN
    /\ th[t].pc \notin {"limit", "consume"}
    /\ Kind(t) \in Ranges => r = Answer(Nil, TRUE)
    /\ th[t].pc \in {"storeVal", "remove"} => r = Answers(op[t], Stored(k))
    /\ th[t].pc = "storeVal" => After(op[t], k, Stored(k)) = op[t].val
    /\ th[t].pc = "remove" => After(op[t], k, Stored(k)) = Nil

\* An order of the calls that have taken effect ends with what is stored now.
Explained(order, h) ==
    /\ Account(op, th, order, h)
    /\ \A t \in Call : Committed(t) <=> Listed(order, t)
    /\ \A k \in Key : h[Len(order)][k] = Stored(k)

\* Since the call began, the key had each value that the table has for it, and
\* no value unless there is an entry for it ahead.
Holder(T, k, i) == T[i] \in Obj /\ KeyOf(T[i]) = k
Way(order, h, t, g, d) ==
    LET T == tabs[g]
        k == op[t].key IN
    /\ \A i \in DOMAIN T : Holder(T, k, i) => Known(order, h, th[t].before, k, Word(T[i]))
    /\ \/ Known(order, h, th[t].before, k, Nil)
       \/ \E x \in DOMAIN T : x >= d /\ Holder(T, k, ProbeSlot(T, k, x))

\* What a call without the mutex has in hand.
ReadOK(order, h, t) ==
    /\ th[t].pc \in Viewing /\ Kind(t) \notin Ranges =>
          /\ Word(th[t].ent) # Nil
          /\ Known(order, h, th[t].before, op[t].key, Word(th[t].ent))
    /\ th[t].pc = "walk" => Way(order, h, t, th[t].tab, th[t].d)

LinInv ==
    Plain =>
        /\ TableWords
        /\ \A t \in Call : DecidedOK(t)
        /\ \E order, h : Explained(order, h) /\ \A t \in Call : ReadOK(order, h, t)

\* What is stored now is known now.
LEMMA KnownNow ==
    ASSUME NEW order, NEW h, Explained(order, h), NEW B, NEW k \in Key
    PROVE  Known(order, h, B, k, Stored(k))
<1>1. order \in Seq(Call) /\ h[Len(order)][k] = Stored(k)
  BY DEF Explained, Account
<1>2. Len(order) \in 0..Len(order)
  BY <1>1
<1>3. QED
  BY <1>1, <1>2 DEF Known

\* A lookup begins in the current table.
LEMMA WayStart ==
    ASSUME ShapeInv, NEW order, NEW h, Explained(order, h), NEW t \in Call, op[t].key \in Key
    PROVE  Way(order, h, t, Len(tabs), 0)
<1> DEFINE k == op[t].key
           T == tabs[Len(tabs)]
<1>1. T = Current /\ T \in Tables /\ StoredFacts /\ DOMAIN T \subseteq Nat
  <2>1. Current \in Tables
    BY CurrentOK
  <2>2. DOMAIN Current \subseteq Nat
    BY <2>1, TableSize
  <2>3. QED
    BY <2>1, <2>2, StoredIs DEF Current
<1>2. Known(order, h, th[t].before, k, Stored(k))
  BY KnownNow
<1>3. ASSUME NEW i \in DOMAIN T, Holder(T, k, i) PROVE Word(T[i]) = Stored(k)
  <2>1. T[i] \in Obj /\ T[i] \in EntriesOf(Current) /\ KeyOf(T[i]) = k
    BY <1>1, <1>3, Names DEF Holder, EntriesOf
  <2>2. QED
    BY <1>1, <2>1 DEF StoredFacts
<1>4. CASE Stored(k) = Nil
  BY <1>2, <1>3, <1>4 DEF Way
<1>5. CASE Stored(k) # Nil
  <2>1. PICK e \in Obj : e \in EntriesOf(Current) /\ KeyOf(e) = k
    BY <1>1, <1>5 DEF StoredFacts
  <2>2. PICK i \in DOMAIN T : T[i] = e
    BY <1>1, <2>1 DEF EntriesOf
  <2>3. PICK x \in DOMAIN T : ProbeSlot(T, k, x) = i
    BY <1>1, Probes
  <2>4. x >= 0 /\ Holder(T, k, ProbeSlot(T, k, x))
    BY <1>1, <2>1, <2>2, <2>3 DEF Holder
  <2>5. QED
    BY <1>2, <1>3, <2>4 DEF Way
<1>6. QED
  BY <1>4, <1>5

\* It goes on past a slot without the key, and ends at an empty one.
LEMMA WayOn ==
    ASSUME ShapeInv, NEW order, NEW h, NEW t \in Call, op[t].key \in Key,
           NEW g \in DOMAIN tabs, NEW d \in DOMAIN tabs[g], Way(order, h, t, g, d),
           NEW i, i = ProbeSlot(tabs[g], op[t].key, d), ~Holder(tabs[g], op[t].key, i)
    PROVE  /\ Way(order, h, t, g, d + 1)
           /\ tabs[g][i] = Nil \/ d + 1 = Size(tabs[g]) =>
                 Known(order, h, th[t].before, op[t].key, Nil)
<1> DEFINE k == op[t].key
           T == tabs[g]
<1>1. T \in Tables /\ Sound(KeyIn, T) /\ DOMAIN T = 0..(Size(T) - 1) /\ Size(T) \in Nat \ {0}
  BY CurrentOK, TableSize
<1>2. CASE Known(order, h, th[t].before, k, Nil)
  BY <1>2 DEF Way
<1>3. ASSUME NEW x \in DOMAIN T, x >= d, Holder(T, k, ProbeSlot(T, k, x))
      PROVE  x >= d + 1 /\ T[i] # Nil /\ d + 1 # Size(T)
  <2>1. x # d
    BY <1>3
  <2>2. x >= d + 1 /\ d + 1 # Size(T)
    BY <1>1, <1>3, <2>1
  <2>3. T[i] # Nil
    <3> DEFINE e == T[ProbeSlot(T, k, x)]
    <3>1. e \in Obj /\ KeyIn[e] = k /\ ProbeSlot(T, k, x) \in DOMAIN T
      BY <1>1, <1>3, Probes DEF Holder, KeyIn
    <3>2. PICK y \in DOMAIN T : /\ FirstAt(T, k, Stops(KeyIn, k), y)
                                /\ ProbeSlot(T, k, y) = ProbeSlot(T, k, x)
      BY <1>1, <3>1 DEF Sound, Chained
    <3>3. y = x
      BY <1>1, <3>2, Probes
    <3>4. d \in 0..(x - 1)
      BY <1>1, <1>3, <2>1
    <3>5. T[i] \notin Stops(KeyIn, k)
      BY <3>2, <3>3, <3>4 DEF FirstAt
    <3>6. QED
      BY <3>5 DEF Stops
  <2>4. QED
    BY <2>2, <2>3
<1>4. QED
  BY <1>2, <1>3 DEF Way

-------------------------------------------------------------------------------
\* What is stored after a step is known after it.
LEMMA KnownNext ==
    ASSUME NEW order, NEW h, Explained(order, h)', NEW B, NEW k \in Key
    PROVE  Known(order, h, B, k, Stored(k)')
<1>1. order \in Seq(Call) /\ h[Len(order)][k] = Stored(k)'
  BY DEF Explained, Account
<1>2. Len(order) \in 0..Len(order)
  BY <1>1
<1>3. QED
  BY <1>1, <1>2 DEF Known

\* An order that takes in call t, at most.
Carries(t, order, h, o, g) ==
    \A B, k, v : t \notin B /\ Known(order, h, B, k, v) => Known(o, g, B, k, v)

\* A value that was known in an entry is known or replaced by one that is.
LEMMA WordKept ==
    ASSUME Follows, op' = op, NEW t, NEW order, NEW h, NEW o, NEW g, Carries(t, order, h, o, g),
           Explained(o, g)', NEW e \in Obj, val[e] # Nil, NEW k \in Key, KeyOf(e) = k,
           NEW B, t \notin B, Known(order, h, B, k, Word(e))
    PROVE  Known(o, g, B, k, Word(e)') /\ (Word(e) # Nil => Word(e)' # Nil)
<1>1. CASE val'[e] = val[e]
  BY <1>1 DEF Word, Carries
<1>2. CASE Word(e)' = Stored(KeyOf(e))' /\ Word(e)' # Nil
  <2>1. Word(e)' = Stored(k)'
    BY <1>2, KeysSame
  <2>2. QED
    BY <1>2, <2>1, KnownNext
<1>3. QED
  BY <1>1, <1>2 DEF Follows

\* The way of another call's lookup.
LEMMA WayKept ==
    ASSUME ShapeInv, Follows, op' = op, NEW t \in Call, NEW order, NEW h, NEW o, NEW g,
           Carries(t, order, h, o, g), Explained(o, g)',
           NEW u \in Call, th'[u] = th[u], t \notin th[u].before, op[u].key \in Key,
           NEW G \in DOMAIN tabs, NEW d, Way(order, h, u, G, d)
    PROVE  Way(o, g, u, G, d)'
<1>k. PICK k \in Key : k = op[u].key
  OBVIOUS
<1> DEFINE B == th[u].before
           T == tabs[G]
           U == tabs'[G]
<1>1. /\ op'[u].key = k /\ th'[u].before = B
      /\ DOMAIN U = DOMAIN T /\ T \in Tables /\ Size(U) = Size(T)
      /\ \A x : ProbeSlot(U, k, x) = ProbeSlot(T, k, x)
      /\ \A e : KeyOf(e)' = KeyOf(e)
  BY <1>k, CurrentOK, KeysSame DEF Follows, TablesStay, ProbeSlot, Size
<1>2. \A x \in DOMAIN T : ProbeSlot(T, k, x) \in DOMAIN T
  BY <1>1, Probes
<1>3. ASSUME NEW i \in DOMAIN T
      PROVE  \/ U[i] = T[i]
             \/ \E x \in Obj : /\ T[i] \notin Obj /\ U[i] = x /\ Word(x)' = Stored(KeyOf(x))'
             \/ \E x \in Obj : T[i] = x /\ U[i] \notin Obj /\ Stored(KeyOf(x))' = Nil
  BY DEF Follows
<1>4. \A i \in DOMAIN T : T[i] \in Obj => val[T[i]] # Nil
  BY DEF ShapeInv, TablesOK
<1>5. /\ \A i \in DOMAIN T : Holder(T, k, i) => Known(order, h, B, k, Word(T[i]))
      /\ \/ Known(order, h, B, k, Nil)
         \/ \E x \in DOMAIN T : x >= d /\ Holder(T, k, ProbeSlot(T, k, x))
  BY <1>k DEF Way
<1>b. t \notin B
  OBVIOUS
<1> HIDE DEF B, T, U
<1>6. ASSUME NEW i \in DOMAIN T, NEW x \in Obj, U[i] = x, KeyOf(x) = k
      PROVE  Known(o, g, B, k, Word(x)')
  <2>1. CASE T[i] = x
    <3>1. Known(order, h, B, k, Word(x)) /\ val[x] # Nil
      BY <1>4, <1>5, <1>6, <2>1 DEF Holder
    <3>2. QED
      BY <3>1, <1>6, <1>b, WordKept
  <2>2. CASE T[i] # x
    <3>1. Word(x)' = Stored(KeyOf(x))'
      BY <1>3, <1>6, <2>2
    <3>2. Word(x)' = Stored(k)'
      BY <1>1, <1>6, <3>1
    <3>3. QED
      BY <3>2, KnownNext
  <2>3. QED
    BY <2>1, <2>2
<1>7. \/ Known(o, g, B, k, Nil)
      \/ \E x \in DOMAIN T : x >= d /\ U[ProbeSlot(T, k, x)] \in Obj
                             /\ KeyOf(U[ProbeSlot(T, k, x)]) = k
  <2>1. CASE Known(order, h, B, k, Nil)
    BY <2>1, <1>b DEF Carries
  <2>2. ASSUME NEW x \in DOMAIN T, x >= d, Holder(T, k, ProbeSlot(T, k, x)) PROVE <1>7
    <3>1. PICK i \in DOMAIN T : i = ProbeSlot(T, k, x)
      BY <1>2
    <3>2. PICK e \in Obj : T[i] = e /\ KeyOf(e) = k
      BY <2>2, <3>1 DEF Holder
    <3>3. CASE U[i] = T[i]
      BY <2>2, <3>1, <3>2, <3>3
    <3>4. CASE U[i] # T[i]
      <4>1. Stored(KeyOf(e))' = Nil
        BY <1>3, <3>2, <3>4
      <4>2. Stored(k)' = Nil
        BY <1>1, <3>2, <4>1
      <4>3. QED
        BY <4>2, KnownNext
    <3>5. QED
      BY <3>3, <3>4
  <2>3. QED
    BY <1>5, <2>1, <2>2
<1>8. \A i \in DOMAIN U : U[i] \in Obj /\ KeyOf(U[i]) = k => Known(o, g, B, k, op'[val'[U[i]]].val)
  BY <1>1, <1>6 DEF Word
<1>9. \A e \in Obj : KeyOf(e) = IF e \in Key THEN e ELSE op'[e].key
  BY DEF KeyOf
<1>10. U = tabs'[G] /\ B = th[u].before
  BY DEF U, B
<1>11. QED
  BY <1>1, <1>7, <1>8, <1>9, <1>10 DEF Way, Holder, Word, KeyOf

\* What the other calls have in hand stays known, and decided.
LEMMA OthersRead ==
    ASSUME ShapeInv, Follows, op' = op, NEW t \in Call, NEW order, NEW h, NEW o, NEW g,
           Carries(t, order, h, o, g), Explained(o, g)',
           NEW u \in Call, th'[u] = th[u], t \notin th[u].before, ReadOK(order, h, u)
    PROVE  ReadOK(o, g, u)'
<1>1. KindOK(u) /\ HoldsOK(u) /\ OpsTyped /\ op'[u] = op[u]
  BY CallFacts
<1>2. Kind(u) \in Finders => op[u].key \in Key
  BY <1>1, KeyFacts DEF Finders, OnKey, Storing
<1>3. ASSUME th[u].pc \in Viewing, Kind(u) \notin Ranges
      PROVE  Known(o, g, th[u].before, op[u].key, Word(th[u].ent)') /\ Word(th[u].ent)' # Nil
  <2>1. PICK e \in Obj : e = th[u].ent /\ val[e] # Nil /\ KeyOf(e) = op[u].key
    BY <1>1, <1>3 DEF HoldsOK
  <2>2. op[u].key \in Key
    BY <1>1, <1>2, <1>3 DEF KindOK, Viewers
  <2>3. PICK k \in Key : k = op[u].key
    BY <2>2
  <2>4. PICK B : B = th[u].before
    OBVIOUS
  <2>5. Known(order, h, B, k, Word(e)) /\ Word(e) # Nil
    BY <1>3, <2>1, <2>3, <2>4 DEF ReadOK
  <2>6. Known(o, g, B, k, Word(e)') /\ Word(e)' # Nil
    BY <2>1, <2>3, <2>4, <2>5, WordKept
  <2>7. th'[u].ent = e
    BY <2>1
  <2>8. QED
    BY <2>3, <2>4, <2>6, <2>7 DEF Word
<1>4. ASSUME th[u].pc = "walk"
      PROVE  Way(o, g, u, th[u].tab, th[u].d)'
  <2>1. PICK G \in DOMAIN tabs : G = th[u].tab
    BY <1>1, <1>4 DEF HoldsOK
  <2>2. PICK d : d = th[u].d
    OBVIOUS
  <2>3. op[u].key \in Key
    BY <1>1, <1>2, <1>4 DEF KindOK
  <2>4. Way(order, h, u, G, d)
    BY <1>4, <2>1, <2>2 DEF ReadOK
  <2>5. Way(o, g, u, G, d)'
    BY <2>3, <2>4, WayKept
  <2>6. th'[u].tab = G /\ th'[u].d = d
    BY <2>1, <2>2
  <2>7. QED
    BY <2>5, <2>6
<1>5. QED
  BY <1>1, <1>3, <1>4 DEF ReadOK, Kind, Word

\* The other calls have the mutex when they have decided something.
LEMMA OthersDecided ==
    ASSUME ShapeInv, op' = op, NEW t \in Call, Unchanged \/ mu = t,
           NEW u \in Call, u # t, th'[u] = th[u], DecidedOK(u)
    PROVE  DecidedOK(u)'
<1>1. KindOK(u) /\ HoldsOK(u) /\ OpsTyped /\ op'[u] = op[u]
  BY CallFacts
<1>2. ASSUME th[u].pc \in {"storeVal", "remove"} PROVE Stored(op[u].key)' = Stored(op[u].key)
  <2>1. mu = u
    BY <1>1, <1>2 DEF HoldsOK, Held, Working
  <2>2. op[u].key \in Key
    BY <1>1, <1>2, KeyFacts DEF KindOK, Storing, Removing, OnKey
  <2>3. PICK k \in Key : k = op[u].key
    BY <2>2
  <2>4. Stored(k)' = Stored(k)
    BY <2>1 DEF Unchanged
  <2>5. op'[u].key = k
    BY <1>1, <2>3
  <2>6. QED
    BY <2>3, <2>4, <2>5
<1>3. QED
  BY <1>1, <1>2 DEF DecidedOK, Kind, After

-------------------------------------------------------------------------------
\* What a step of call t has to show.
Extends(t) ==
    \A order, h : Explained(order, h) /\ ReadOK(order, h, t) =>
        \E o, g : Explained(o, g)' /\ Carries(t, order, h, o, g) /\ ReadOK(o, g, t)'
Advances(t) ==
    /\ Moved(t) /\ op' = op /\ Good /\ (Unchanged \/ mu = t)
    /\ DecidedOK(t)' /\ Extends(t)

\* The invariant follows from that.
LEMMA LinAdvances ==
    ASSUME ShapeInv, LimitInv, LinInv, NEW t \in Call, th[t].pc # "done", Advances(t)
    PROVE  LinInv'
<1>1. Plain' = Plain
  BY DEF Advances, Plain, Limited
<1>2. CASE ~Plain
  BY <1>1, <1>2 DEF LinInv
<1>3. CASE Plain
  <2>1. PICK order, h : Explained(order, h) /\ \A u \in Call : ReadOK(order, h, u)
    BY <1>3 DEF LinInv
  <2>2. PICK o, g : Explained(o, g)' /\ Carries(t, order, h, o, g) /\ ReadOK(o, g, t)'
    BY <2>1 DEF Advances, Extends
  <2>3. \A u \in Call : u # t => th'[u] = th[u]
    BY DEF Advances, Moved
  <2>4. \A u \in Call : t \notin th[u].before
    BY DEF LimitInv, KnowsOK, At
  <2>5. \A u \in Call : ReadOK(o, g, u)'
    BY <2>1, <2>2, <2>3, <2>4, OthersRead DEF Advances, Good
  <2>6. \A u \in Call : DecidedOK(u)'
    BY <1>3, <2>3, OthersDecided DEF Advances, LinInv
  <2>7. TableWords'
    BY DEF Advances, Good
  <2>8. QED
    BY <2>2, <2>5, <2>6, <2>7 DEF LinInv
<1>4. QED
  BY <1>2, <1>3

\* A step that takes no effect.
LEMMA Silent ==
    ASSUME NEW t \in Call, Moved(t), op' = op, Unchanged, Committed(t)' <=> Committed(t),
           Committed(t) => th'[t].res = th[t].res /\ th'[t].before = th[t].before,
           NEW order, NEW h, Explained(order, h)
    PROVE  Explained(order, h)' /\ Carries(t, order, h, order, h)
<1>1. \A u \in Call : Committed(u)' <=> Committed(u)
  BY DEF Committed, Moved
<1>2. \A i \in 1..Len(order) : order[i] \in Call /\ Committed(order[i])
  BY DEF Explained, Account, Listed
<1>3. \A i \in 1..Len(order) : /\ th'[order[i]].res = th[order[i]].res
                               /\ th'[order[i]].before = th[order[i]].before
  BY <1>2 DEF Moved
<1>4. Account(op, th', order, h)
  BY <1>3 DEF Explained, Account
<1>5. QED
  BY <1>1, <1>4 DEF Explained, Unchanged, Carries

\* A call takes effect when it answers.
LEMMA Effective ==
    ASSUME LimitInv, NEW t \in Call, Moved(t), op' = op, ~Committed(t), Committed(t)',
           th'[t].before = th[t].before, NEW order, NEW h, Explained(order, h),
           NEW p \in 0..Len(order), \A i \in 1..Len(order) : order[i] \in th[t].before => i <= p,
           th'[t].res = Answers(op[t], Sight(op[t], h[p])),
           p = Len(order) \/ \A k \in Key : After(op[t], k, h[p][k]) = h[p][k],
           \A k \in Key : Stored(k)' = IF p = Len(order) THEN After(op[t], k, h[p][k])
                                       ELSE h[Len(order)][k]
    PROVE  \E o, g : Explained(o, g)' /\ Carries(t, order, h, o, g)
<1>1. Account(op, th, order, h) /\ \A u \in Call : Committed(u) <=> Listed(order, u)
  BY DEF Explained
<1>2. ~Listed(order, t) /\ \A u \in Call : t \notin th[u].before
  BY <1>1 DEF LimitInv, KnowsOK, At, Committed
<1>3. \A i \in 1..Len(order) : order[i] \in Call /\ order[i] # t
  BY <1>1, <1>2 DEF Account, Listed
<1>4. \A i \in 1..Len(order) : /\ th'[order[i]].res = th[order[i]].res
                               /\ th'[order[i]].before = th[order[i]].before
                               /\ t \notin th[order[i]].before
  BY <1>2, <1>3 DEF Moved
<1>5. PICK o, g : Joined(op, th', order, h, t, p, o, g)
  <2>1. Fits(op, th, th', order, h, t, p)
    BY <1>2, <1>4 DEF Fits
  <2>2. QED
    BY <1>1, <2>1, AccountInsert
<1>6. \A u \in Call : Committed(u)' <=> u = t \/ Listed(order, u)
  BY <1>1 DEF Moved, Committed
<1>7. \A k \in Key : g[Len(o)][k] = Stored(k)'
  BY <1>5 DEF Joined
<1>8. QED
  BY <1>5, <1>6, <1>7 DEF Joined, Explained, Carries

\* A step without effect, after which the call has in hand what it should.
LEMMA SilentStep ==
    ASSUME NEW t \in Call, Moved(t), op' = op, Unchanged, Good, DecidedOK(t)',
           Committed(t)' <=> Committed(t),
           Committed(t) => th'[t].res = th[t].res /\ th'[t].before = th[t].before,
           \A order, h : Explained(order, h) /\ ReadOK(order, h, t) => ReadOK(order, h, t)'
    PROVE  Advances(t)
<1>1. ASSUME NEW order, NEW h, Explained(order, h), ReadOK(order, h, t)
      PROVE  Explained(order, h)' /\ Carries(t, order, h, order, h) /\ ReadOK(order, h, t)'
  BY <1>1, Silent
<1>2. Extends(t)
  BY <1>1 DEF Extends
<1>3. QED
  BY <1>2 DEF Advances

\* A step with which a call takes effect on what is stored now.
LEMMA EffectNow ==
    ASSUME LimitInv, NEW t \in Call, Moved(t), op' = op, Writes(op[t]), Good,
           Unchanged \/ mu = t, th[t].pc \notin {"storeMeta", "done"},
           th'[t].pc \in {"storeMeta", "done"},
           Kind(t) \notin Ranges \/ th'[t].res = Answer(Nil, TRUE),
           th'[t].before = th[t].before, op[t].key \in Key \cup {Nil},
           th'[t].res = Answers(op[t], IF op[t].key = Nil THEN Nil ELSE Stored(op[t].key))
    PROVE  Advances(t)
<1>1. DecidedOK(t)' /\ \A o, g : ReadOK(o, g, t)'
  BY DEF DecidedOK, ReadOK, Viewing, Kind
<1>2. ASSUME NEW order, NEW h, Explained(order, h)
      PROVE  \E o, g : Explained(o, g)' /\ Carries(t, order, h, o, g)
  <2>1. PICK p \in 0..Len(order) : p = Len(order)
    <3>1. Len(order) \in Nat
      BY <1>2 DEF Explained, Account
    <3>2. QED
      BY <3>1
  <2>2. \A i \in 1..Len(order) : i <= p
    BY <2>1
  <2>3. \A k \in Key : h[p][k] = Stored(k)
    BY <1>2, <2>1 DEF Explained
  <2>4. Sight(op[t], h[p]) = IF op[t].key = Nil THEN Nil ELSE Stored(op[t].key)
    BY <2>3 DEF Sight
  <2>5. \A k \in Key : Stored(k)' = After(op[t], k, h[p][k])
    BY <2>3 DEF Writes
  <2>6. ~Committed(t) /\ Committed(t)'
    BY DEF Committed
  <2>7. QED
    BY <1>2, <2>1, <2>2, <2>4, <2>5, <2>6, Effective
<1>3. Extends(t)
  BY <1>1, <1>2 DEF Extends
<1>4. QED
  BY <1>1, <1>3 DEF Advances

\* A step with which a read takes effect on what it knows.
LEMMA EffectPast ==
    ASSUME LimitInv, TableWords, NEW t \in Call, Moved(t), op' = op, tabs' = tabs, val' = val,
           th[t].pc \notin {"storeMeta", "done"}, th'[t].pc = "done", Kind(t) \in Finders,
           th'[t].before = th[t].before, op[t].key \in Key,
           \A order, h : Explained(order, h) /\ ReadOK(order, h, t) =>
               \E v : /\ Known(order, h, th[t].before, op[t].key, v)
                      /\ th'[t].res = Answers(op[t], v) /\ After(op[t], op[t].key, v) = v
    PROVE  Advances(t)
<1>1. DecidedOK(t)' /\ \A o, g : ReadOK(o, g, t)'
  BY DEF DecidedOK, ReadOK, Viewing, Kind, Finders, Ranges, Readers
<1>2. Unchanged /\ Good
  BY SameStored
<1>3. ASSUME NEW order, NEW h, Explained(order, h), ReadOK(order, h, t)
      PROVE  \E o, g : Explained(o, g)' /\ Carries(t, order, h, o, g)
  <2>1. PICK v : /\ Known(order, h, th[t].before, op[t].key, v)
                 /\ th'[t].res = Answers(op[t], v) /\ After(op[t], op[t].key, v) = v
    BY <1>3
  <2>2. PICK p \in 0..Len(order) :
          /\ h[p][op[t].key] = v
          /\ \A i \in 1..Len(order) : order[i] \in th[t].before => i <= p
    BY <2>1 DEF Known
  <2>3. Sight(op[t], h[p]) = v
    BY <2>2, TypedNamesAssumption DEF Sight
  <2>4. op[t].kind # "Clear"
    BY DEF Kind, Finders, Readers
  <2>5. \A k \in Key : After(op[t], k, h[p][k]) = h[p][k]
    BY <2>1, <2>2, <2>4, AfterElsewhere
  <2>6. \A k \in Key : h[Len(order)][k] = Stored(k) /\ Stored(k)' = Stored(k)
    BY <1>2, <1>3 DEF Explained, Unchanged
  <2>7. \A k \in Key : Stored(k)' = IF p = Len(order) THEN After(op[t], k, h[p][k])
                                    ELSE h[Len(order)][k]
    BY <2>5, <2>6
  <2>8. ~Committed(t) /\ Committed(t)'
    BY DEF Committed
  <2>9. QED
    BY <1>3, <2>1, <2>2, <2>3, <2>5, <2>7, <2>8, Effective
<1>4. Extends(t)
  BY <1>1, <1>3 DEF Extends
<1>5. QED
  BY <1>1, <1>2, <1>4 DEF Advances

-------------------------------------------------------------------------------
\* A step that only moves the call, to a label where it has nothing in hand.
LEMMA Moves ==
    ASSUME TableWords, NEW t \in Call, Moved(t), op' = op, tabs' = tabs, val' = val,
           DecidedOK(t), th'[t].res = th[t].res,
           th[t].pc \notin {"storeMeta", "done"},
           th'[t].pc \in {"find", "range", "visit", "lock", "rebuild", "grow", "locked", "panic"}
    PROVE  Advances(t)
<1>1. Unchanged /\ Good
  BY SameStored
<1>2. DecidedOK(t)'
  BY DEF DecidedOK, Kind
<1>3. ~Committed(t) /\ ~Committed(t)' /\ \A o, g : ReadOK(o, g, t)'
  BY DEF Committed, ReadOK, Viewing
<1>4. QED
  BY <1>1, <1>2, <1>3, SilentStep

\* The invocation.
LEMMA LinInvoke ==
    ASSUME ShapeInv, TableWords, NEW t \in Call, DecidedOK(t), Invoke(t) PROVE Advances(t)
<1>1. /\ Moved(t) /\ Same(t) /\ op' = op /\ tabs' = tabs /\ val' = val
      /\ th'[t].pc \in {"find", "range", "lock"} /\ th[t].pc = "call"
  BY InvokeEffect DEF table, entry, Invoke, At
<1>2. QED
  BY <1>1, Moves DEF Same

\* The mutex, and the panic under it.
LEMMA LinLock ==
    ASSUME ShapeInv, TableWords, NEW t \in Call, DecidedOK(t), Lock(t) \/ ComputePanics(t)
    PROVE  Advances(t)
<1>1. \E p \in {"rebuild", "grow", "locked", "panic"} :
         /\ Goes(t, p) /\ op' = op /\ tabs' = tabs /\ val' = val
         /\ th[t].pc \in {"lock", "locked"}
  BY LockEffect, PanicEffect DEF table, entry
<1>2. QED
  BY <1>1, Moves DEF Goes, Lands, Same

\* Growth.
LEMMA LinGrow ==
    ASSUME ShapeInv, ShapeInv', TableWords, NEW t \in Call, DecidedOK(t), Grow(t)
    PROVE  Advances(t)
<1>1. op' = op /\ val' = val /\ Goes(t, "locked") /\ th[t].pc = "grow"
  BY GrowEffect DEF entry
<1>2. Unchanged /\ Good
  BY <1>1, GrowEffect, RebuiltStored
<1>3. DecidedOK(t)'
  BY <1>1 DEF DecidedOK, Kind, Goes, Lands, Same
<1>4. ~Committed(t) /\ ~Committed(t)' /\ Moved(t) /\ \A o, g : ReadOK(o, g, t)'
  BY <1>1 DEF Committed, ReadOK, Viewing, Goes, Lands
<1>5. QED
  BY <1>1, <1>2, <1>3, <1>4, SilentStep

\* The metadata, which takes the place of what was there.
LEMMA LinStoreMeta ==
    ASSUME ShapeInv, TableWords, NEW t \in Call, DecidedOK(t), StoreMeta(t)
    PROVE  Advances(t)
<1>1. /\ op' = op /\ val' = val /\ tabs' = tabs /\ Ends(t) /\ Same(t)
      /\ th[t].pc = "storeMeta"
  BY StoreMetaEffect DEF table
<1>2. Unchanged /\ Good
  BY <1>1, SameStored
<1>3. DecidedOK(t)'
  BY <1>1 DEF DecidedOK, Kind, Ends, Same
<1>4. /\ Committed(t) /\ Committed(t)' /\ Moved(t) /\ \A o, g : ReadOK(o, g, t)'
      /\ th'[t].res = th[t].res /\ th'[t].before = th[t].before
  BY <1>1 DEF Committed, ReadOK, Viewing, Ends, Same
<1>5. QED
  BY <1>1, <1>2, <1>3, <1>4, SilentStep

\* The end of a Range, and its way from slot to slot.
LEMMA LinRange ==
    ASSUME ShapeInv, LimitInv, TableWords, NEW t \in Call, DecidedOK(t), Kind(t) \in Ranges,
           op' = op, tabs' = tabs, val' = val, Moved(t), th[t].pc \notin {"storeMeta", "done"},
           th'[t].res = th[t].res,
           Ends(t) \/ th'[t].pc \in {"meta", "val", "visit"}
    PROVE  Advances(t)
<1>1. Unchanged /\ Good
  BY SameStored
<1>2. CASE th'[t].pc \in {"meta", "val", "visit"}
  <2>1. DecidedOK(t)' /\ \A o, g : ReadOK(o, g, t)'
    BY <1>2 DEF DecidedOK, Kind, ReadOK, Viewing
  <2>2. ~Committed(t) /\ ~Committed(t)'
    BY <1>2 DEF Committed
  <2>3. QED
    BY <1>1, <2>1, <2>2, SilentStep
<1>3. CASE Ends(t)
  <2>1. /\ op[t].key = Nil /\ \A v : Answers(op[t], v) = Answer(Nil, TRUE)
        /\ \A k \in Key : \A v : After(op[t], k, v) = v
    BY SweepIs DEF Ranges
  <2>2. Writes(op[t]) /\ th'[t].res = Answer(Nil, TRUE)
    BY <1>1, <2>1 DEF Unchanged, Writes, DecidedOK
  <2>3. QED
    BY <1>1, <1>3, <2>1, <2>2, EffectNow DEF Ends
<1>4. QED
  BY <1>2, <1>3

\* A slot of a Range.
LEMMA LinRangeSlot ==
    ASSUME ShapeInv, LimitInv, TableWords, NEW t \in Call, DecidedOK(t), RangeSlot(t)
    PROVE  Advances(t)
<1>1. /\ op' = op /\ val' = val /\ tabs' = tabs /\ Kind(t) \in Ranges
      /\ th[t].pc \in {"range", "visit"} /\ \E g, d : Scanned(t, g, d)
  BY RangeSlotEffect DEF table, entry
<1>2. Moved(t) /\ Same(t) /\ (Ends(t) \/ th'[t].pc \in {"meta", "visit"})
  BY <1>1 DEF Scanned, Lands, Ends
<1>3. QED
  BY <1>1, <1>2, LinRange DEF Same

-------------------------------------------------------------------------------
\* What a call that looks for its key knows of the way.
LEMMA WayNow ==
    ASSUME ShapeInv, NEW t \in Call, op[t].key \in Key, th[t].pc \in {"find", "walk"},
           NEW g, NEW d, ProbedAt(t, g, d),
           NEW order, NEW h, Explained(order, h), ReadOK(order, h, t)
    PROVE  Way(order, h, t, g, d)
<1>1. CASE At(t, "find")
  <2>1. g = Len(tabs) /\ d = 0
    BY <1>1 DEF ProbedAt
  <2>2. QED
    BY <2>1, WayStart
<1>2. CASE ~At(t, "find")
  <2>1. g = th[t].tab /\ d = th[t].d /\ th[t].pc = "walk"
    BY <1>2 DEF ProbedAt, At
  <2>2. QED
    BY <2>1 DEF ReadOK
<1>3. QED
  BY <1>1, <1>2

\* A probe.
LEMMA LinFind ==
    ASSUME ShapeInv, LimitInv, TableWords, NEW t \in Call, DecidedOK(t), Find(t)
    PROVE  Advances(t)
<1>1. /\ op' = op /\ val' = val /\ tabs' = tabs /\ Kind(t) \in Finders /\ op[t].key \in Key
      /\ th[t].pc \in {"find", "walk"}
  BY FindEffect DEF table, entry
<1>2. PICK g, d : ProbedAt(t, g, d)
  BY FindEffect
<1>3. Unchanged /\ Good
  BY <1>1, SameStored
<1> DEFINE T == tabs[g]
           i == ProbeSlot(T, op[t].key, d)
<1>4. /\ g \in DOMAIN tabs /\ d \in DOMAIN T /\ i \in DOMAIN T
      /\ \A order, h : Explained(order, h) /\ ReadOK(order, h, t) => Way(order, h, t, g, d)
  BY <1>1, <1>2, WayNow DEF ProbedAt
<1>5. CASE Holder(T, op[t].key, i)
  <2>1. PICK e \in Obj : e = T[i] /\ KeyOf(e) = op[t].key
    BY <1>5 DEF Holder
  <2>2. Lands(t, "meta", th[t].tab, th[t].d, e, th[t].md) /\ Same(t)
    BY <1>2, <1>5, <2>1 DEF ProbedAt, Holder
  <2>3. DecidedOK(t)' /\ ~Committed(t) /\ ~Committed(t)' /\ Moved(t)
    BY <1>1, <2>2 DEF DecidedOK, Kind, Committed, Lands, Same
  <2>4. Word(e) # Nil /\ Word(e)' = Word(e)
    BY <1>1, <1>4, <2>1 DEF TableWords, Word
  <2>5. ASSUME NEW order, NEW h, Explained(order, h), ReadOK(order, h, t)
        PROVE  ReadOK(order, h, t)'
    <3>1. Known(order, h, th[t].before, op[t].key, Word(e))
      BY <1>4, <1>5, <2>1, <2>5 DEF Way
    <3>2. /\ th'[t].ent = e /\ th'[t].before = th[t].before /\ th'[t].pc = "meta"
          /\ Word(th[t].ent)' = Word(e)
      BY <1>1, <2>2 DEF Lands, Word
    <3>3. QED
      BY <1>1, <2>4, <3>1, <3>2 DEF ReadOK
  <2>6. QED
    BY <1>1, <1>3, <2>3, <2>5, SilentStep
<1>6. ASSUME ~Holder(T, op[t].key, i), Missed(t), T[i] = Nil \/ d + 1 = Size(T)
      PROVE  Advances(t)
  <2>1. CASE Kind(t) = "LoadOrStore"
    <3>1. Goes(t, "lock")
      BY <1>6, <2>1 DEF Missed
    <3>2. QED
      BY <1>1, <3>1, Moves DEF Goes, Lands, Same
  <2>2. CASE Kind(t) # "LoadOrStore"
    <3>1. Ends(t) /\ th'[t].res = Absent /\ Kind(t) \in Readers
      BY <1>1, <1>6, <2>2 DEF Missed, Finders
    <3>2. Absent = Answers(op[t], Nil) /\ After(op[t], op[t].key, Nil) = Nil
      BY <3>1, ReadIs
    <3>3. \A order, h : Explained(order, h) /\ ReadOK(order, h, t) =>
             Known(order, h, th[t].before, op[t].key, Nil)
      BY <1>1, <1>4, <1>6, WayOn
    <3>4. QED
      BY <1>1, <3>1, <3>2, <3>3, EffectPast DEF Ends
  <2>3. QED
    BY <2>1, <2>2
<1>7. ASSUME ~Holder(T, op[t].key, i), Lands(t, "walk", g, d + 1, th[t].ent, th[t].md), Same(t)
      PROVE  Advances(t)
  <2>1. DecidedOK(t)' /\ ~Committed(t) /\ ~Committed(t)' /\ Moved(t)
    BY <1>1, <1>7 DEF DecidedOK, Kind, Committed, Lands, Same
  <2>2. ASSUME NEW order, NEW h, Explained(order, h), ReadOK(order, h, t)
        PROVE  ReadOK(order, h, t)'
    <3>1. Way(order, h, t, g, d + 1)
      BY <1>1, <1>4, <1>7, <2>2, WayOn
    <3>2. /\ th'[t].tab = g /\ th'[t].d = d + 1 /\ th'[t].pc = "walk"
          /\ th'[t].before = th[t].before /\ KeyIn' = KeyIn /\ \A e : KeyOf(e)' = KeyOf(e)
      BY <1>1, <1>7, KeysSame DEF Lands
    <3>3. Way(order, h, t, g, d + 1)'
      BY <1>1, <3>1, <3>2 DEF Way, Word, Holder, KeyOf
    <3>4. QED
      BY <3>2, <3>3 DEF ReadOK, Viewing
  <2>3. QED
    BY <1>1, <1>3, <2>1, <2>2, SilentStep
<1>8. QED
  BY <1>2, <1>5, <1>6, <1>7 DEF ProbedAt, Holder

\* The metadata pointer, which is nil.
LEMMA LinLoadMeta ==
    ASSUME ShapeInv, LimitInv, Plain, TableWords, NEW t \in Call, DecidedOK(t), LoadMeta(t)
    PROVE  Advances(t)
<1>1. /\ op' = op /\ val' = val /\ tabs' = tabs /\ Kind(t) \in Viewers /\ th[t].pc = "meta"
      /\ th[t].ent \in Obj
  BY LoadMetaEffect, CallFacts DEF table, entry, HoldsOK, Viewing
<1>2. MetaSeen(t) = Nil
  BY <1>1, NothingLimited DEF MetaSeen
<1>3. Lands(t, "val", th[t].tab, th[t].d, th[t].ent, Nil) /\ Same(t)
  BY <1>2, LoadMetaEffect
<1>4. Unchanged /\ Good
  BY <1>1, SameStored
<1>5. DecidedOK(t)' /\ ~Committed(t) /\ ~Committed(t)' /\ Moved(t)
  BY <1>1, <1>3 DEF DecidedOK, Kind, Committed, Lands, Same
<1>6. \A order, h : ReadOK(order, h, t) => ReadOK(order, h, t)'
  BY <1>1, <1>3 DEF ReadOK, Viewing, Word, Kind, Lands
<1>7. QED
  BY <1>1, <1>4, <1>5, <1>6, SilentStep

\* A value read.
LEMMA LinLoadVal ==
    ASSUME ShapeInv, LimitInv, TableWords, NEW t \in Call, DecidedOK(t), LoadVal(t)
    PROVE  Advances(t)
<1>1. /\ op' = op /\ val' = val /\ tabs' = tabs /\ Kind(t) \in Viewers /\ th[t].pc = "val"
  BY LoadValEffect DEF table, entry
<1>2. CASE Kind(t) \in Ranges
  <2>1. Continues(t) /\ th'[t].res = th[t].res
    BY <1>2, LoadValEffect
  <2>2. Moved(t) /\ (Ends(t) \/ th'[t].pc \in {"meta", "val", "visit"})
    BY <2>1 DEF Continues, Ends, Lands
  <2>3. QED
    BY <1>1, <1>2, <2>1, <2>2, LinRange
<1>3. CASE Kind(t) \notin Ranges
  <2>1. /\ Kind(t) \in Finders /\ Ends(t)
        /\ th'[t].res = Answer(IF Kind(t) = "Has" THEN Nil ELSE Word(th[t].ent), TRUE)
    BY <1>1, <1>3, LoadValEffect DEF Viewers, Word
  <2>2. op[t].key \in Key
    BY <2>1, CallFacts, KeyFacts DEF Finders, OnKey, Storing
  <2>3. ASSUME NEW order, NEW h, ReadOK(order, h, t)
        PROVE  \E v : /\ Known(order, h, th[t].before, op[t].key, v)
                      /\ th'[t].res = Answers(op[t], v) /\ After(op[t], op[t].key, v) = v
    <3>1. PICK v : v = Word(th[t].ent)
      OBVIOUS
    <3>2. v # Nil /\ Known(order, h, th[t].before, op[t].key, v)
      BY <1>1, <1>3, <2>3, <3>1 DEF ReadOK, Viewing
    <3>3. th'[t].res = Answers(op[t], v) /\ After(op[t], op[t].key, v) = v
      BY <2>1, <3>1, <3>2, ReadIs
    <3>4. QED
      BY <3>2, <3>3
  <2>4. QED
    BY <1>1, <2>1, <2>2, <2>3, EffectPast DEF Ends
<1>4. QED
  BY <1>2, <1>3
-------------------------------------------------------------------------------
\* A write to one key.
LEMMA WritesOne ==
    ASSUME NEW o, o.kind # "Clear", o.key \in Key, NEW v, v = After(o, o.key, Stored(o.key)),
           \A k \in Key : Stored(k)' = IF k = o.key THEN v ELSE Stored(k)
    PROVE  Writes(o)
  BY AfterElsewhere DEF Writes

\* An insertion.
LEMMA LinInsert ==
    ASSUME ShapeInv, ShapeInv', LimitInv, TableWords, NEW t \in Call, InsertEntry(t)
    PROVE  Advances(t)
<1>1. /\ op' = op /\ th[t].pc = "locked" /\ op[t].key \in Key /\ Ends(t)
      /\ Kind(t) \in {"Store", "LoadOrStore", "Swap", "ComputeUpdate"}
      /\ th'[t].res = Inserted(t)
  BY InsertEffect
<1>2. /\ \A k \in Key : Stored(k)' = IF k = op[t].key THEN op[t].val ELSE Stored(k)
      /\ Stored(op[t].key) = Nil /\ Good
  BY InsertStored
<1>3. Inserted(t) = Answers(op[t], Nil) /\ After(op[t], op[t].key, Nil) = op[t].val
  BY <1>1, InsertedIs
<1>4. Writes(op[t])
  BY <1>1, <1>2, <1>3, WritesOne DEF Kind
<1>5. mu = t /\ op[t].key # Nil
  BY <1>1, CallFacts, TypedNamesAssumption DEF HoldsOK, Held
<1>6. QED
  BY <1>1, <1>2, <1>3, <1>4, <1>5, EffectNow DEF Ends, Ranges

\* An absent key left alone.
LEMMA LinAbsent ==
    ASSUME ShapeInv, LimitInv, Plain, TableWords, NEW t \in Call, LockedAbsent(t)
    PROVE  Advances(t)
<1>1. /\ op' = op /\ val' = val /\ tabs' = tabs /\ th[t].pc = "locked" /\ op[t].key \in Key
      /\ Found(t) = Nil /\ Ends(t) /\ th'[t].res = Absent
      /\ Kind(t) \in {"Delete", "CompareAndSwap", "CompareAndDelete", "ComputeDelete",
                      "ComputeCancel"}
  BY LockedAbsentEffect DEF table, entry
<1>2. Stored(op[t].key) = Nil /\ op[t].key # Nil
  BY <1>1, FoundWord, TypedNamesAssumption
<1>3. Absent = Answers(op[t], Nil) /\ After(op[t], op[t].key, Nil) = Nil
  BY <1>1, AbsentIs, CallFacts
<1>4. Unchanged /\ Good
  BY <1>1, SameStored
<1>5. \A k \in Key : Stored(k)' = IF k = op[t].key THEN Nil ELSE Stored(k)
  BY <1>2, <1>4 DEF Unchanged
<1>6. Writes(op[t])
  BY <1>1, <1>2, <1>3, <1>5, WritesOne DEF Kind
<1>7. QED
  BY <1>1, <1>2, <1>3, <1>4, <1>6, EffectNow DEF Ends, Ranges

\* What a method does with the entry that it finds.
LEMMA LinFinds ==
    ASSUME ShapeInv, LimitInv, Plain, TableWords, NEW t \in Call, DecidedOK(t), Finds(t)
    PROVE  Advances(t)
<1>1. /\ op' = op /\ val' = val /\ tabs' = tabs /\ th[t].pc = "locked" /\ op[t].key \in Key
      /\ Found(t) \in Obj
  BY FindsEffect DEF table, entry
<1>2. PICK l, r : /\ Decides(t, l, r) /\ th'[t].res = r
                  /\ \/ l = "done" /\ Ends(t)
                     \/ /\ l \in {"storeVal", "remove"}
                        /\ Lands(t, l, th[t].tab, th[t].d, Found(t), th[t].md)
  BY FindsEffect
<1>k. PICK k \in Key : k = op[t].key
  BY <1>1
<1>3. PICK v : k = op[t].key /\ v = Stored(k)
  BY <1>k
<1>4. v # Nil /\ OldValue(t) = v /\ IsLive(t)
  BY <1>1, <1>3, FoundWord, Names DEF IsLive
<1>5. /\ r = Answers(op[t], v)
      /\ l = "storeVal" => After(op[t], k, v) = op[t].val
      /\ l = "remove" => After(op[t], k, v) = Nil
      /\ l = "done" => After(op[t], k, v) = v
  BY <1>2, <1>3, <1>4, Decided
<1>6. Unchanged /\ Good /\ Stored(k)' = v
  <2>1. Unchanged /\ Good
    BY <1>1, SameStored
  <2>2. QED
    BY <1>3, <2>1 DEF Unchanged
<1>7. Kind(t) \notin Ranges \cup {"Clear"} /\ op'[t] = op[t]
  BY <1>1, <1>2 DEF Decides, Ranges
<1>8. CASE l = "done"
  <2>1. Ends(t) /\ After(op[t], k, v) = v
    BY <1>2, <1>5, <1>8
  <2>2. \A x \in Key : Stored(x)' = IF x = k THEN v ELSE Stored(x)
    BY <1>3, <1>6 DEF Unchanged
  <2>3. Writes(op[t])
    BY <1>3, <1>7, <2>1, <2>2, WritesOne DEF Kind
  <2>4. op[t].key # Nil
    BY <1>1, TypedNamesAssumption
  <2>5. QED
    BY <1>1, <1>2, <1>3, <1>5, <1>6, <1>7, <2>1, <2>3, <2>4, EffectNow DEF Ends
<1>9. CASE l \in {"storeVal", "remove"}
  <2>1. Lands(t, l, th[t].tab, th[t].d, Found(t), th[t].md)
    BY <1>2, <1>9
  <2>2. /\ Moved(t) /\ th'[t].pc = l /\ ~Committed(t) /\ ~Committed(t)'
        /\ \A order, h : ReadOK(order, h, t)'
    BY <1>1, <1>9, <2>1 DEF Lands, Committed, ReadOK, Viewing
  <2>3. DecidedOK(t)'
    BY <1>2, <1>3, <1>5, <1>6, <1>7, <1>9, <2>2 DEF DecidedOK, Kind
  <2>4. QED
    BY <1>1, <1>6, <2>2, <2>3, SilentStep
<1>10. QED
  BY <1>2, <1>8, <1>9

\* The value stored in the entry that was found.
LEMMA LinStoreVal ==
    ASSUME ShapeInv, ShapeInv', LimitInv, TableWords, NEW t \in Call, DecidedOK(t), StoreVal(t)
    PROVE  Advances(t)
<1>1. /\ op' = op /\ th[t].pc = "storeVal" /\ Kind(t) \in Storing /\ Goes(t, "storeMeta")
  BY StoreValEffect
<1>2. op[t].key \in Key /\ op[t].key # Nil /\ mu = t
  BY <1>1, StoresValue, CallFacts, TypedNamesAssumption DEF HoldsOK, Held, Working
<1>3. (\A k \in Key : Stored(k)' = IF k = op[t].key THEN op[t].val ELSE Stored(k)) /\ Good
  BY ValStored
<1>4. /\ th[t].res = Answers(op[t], Stored(op[t].key))
      /\ After(op[t], op[t].key, Stored(op[t].key)) = op[t].val
  BY <1>1 DEF DecidedOK
<1>5. Kind(t) \notin Ranges \cup {"Clear"}
  BY <1>1 DEF Storing, Ranges
<1>6. Writes(op[t])
  BY <1>2, <1>3, <1>4, <1>5, WritesOne DEF Kind
<1>7. QED
  BY <1>1, <1>2, <1>3, <1>4, <1>5, <1>6, EffectNow DEF Goes, Lands, Same

\* The removal of the entry that was found.
LEMMA LinRemove ==
    ASSUME ShapeInv, ShapeInv', LimitInv, TableWords, NEW t \in Call, DecidedOK(t), RemoveEntry(t)
    PROVE  Advances(t)
<1>1. /\ op' = op /\ th[t].pc = "remove" /\ Kind(t) \in Removing /\ Ends(t) /\ Same(t)
      /\ op[t].key \in Key
  BY RemoveEffect
<1>2. op[t].key # Nil /\ mu = t
  BY <1>1, CallFacts, TypedNamesAssumption DEF HoldsOK, Held, Working
<1>3. (\A k \in Key : Stored(k)' = IF k = op[t].key THEN Nil ELSE Stored(k)) /\ Good
  BY RemoveStored
<1>4. /\ th[t].res = Answers(op[t], Stored(op[t].key))
      /\ After(op[t], op[t].key, Stored(op[t].key)) = Nil
  BY <1>1 DEF DecidedOK
<1>5. Kind(t) \notin Ranges \cup {"Clear"}
  BY <1>1 DEF Removing, Ranges
<1>6. Writes(op[t])
  BY <1>1, <1>3, <1>4, <1>5, WritesOne DEF Kind
<1>7. QED
  BY <1>1, <1>2, <1>3, <1>4, <1>5, <1>6, EffectNow DEF Ends, Same

\* Cleanup, which finds nothing dead.
LEMMA LinCleanup ==
    ASSUME ShapeInv, ShapeInv', LimitInv, Plain, TableWords, NEW t \in Call, CleanupNow(t)
    PROVE  Advances(t)
<1>1. /\ op' = op /\ val' = val /\ th[t].pc = "rebuild" /\ Kind(t) = "CleanupNow" /\ Ends(t)
      /\ th'[t].res = Answer(Nil, TRUE)
  BY CleanupEffect DEF entry
<1>2. Unchanged /\ Good
  <2>1. CASE tabs' = tabs
    BY <1>1, <2>1, SameStored
  <2>2. ASSUME NEW N, Rebuilt(N, {e \in EntriesOf(Current) : ~Dead(e, th[t].start)})
        PROVE  Unchanged /\ Good
    <3>1. EntriesOf(Current) \subseteq Obj
      <4>1. PICK n \in Nat : Current \in Table(n)
        BY CurrentOK, TableSize
      <4>2. QED
        BY <4>1 DEF EntriesOf, Table, Cell
    <3>2. {e \in EntriesOf(Current) : ~Dead(e, th[t].start)} = EntriesOf(Current)
      BY <3>1, NothingLimited
    <3>3. Rebuilt(N, EntriesOf(Current))
      BY <2>2, <3>2
    <3>4. QED
      BY <1>1, <3>3, RebuiltStored
  <2>3. QED
    BY <2>1, <2>2, CleanupEffect DEF table
<1>3. /\ op[t].key = Nil /\ \A v : Answers(op[t], v) = Answer(Nil, TRUE)
      /\ \A k \in Key : \A v : After(op[t], k, v) = v
  BY <1>1, SweepIs DEF Sweepers
<1>4. Writes(op[t])
  BY <1>2, <1>3 DEF Unchanged, Writes
<1>5. QED
  BY <1>1, <1>2, <1>3, <1>4, EffectNow DEF Ends

\* Clear.
LEMMA LinClear ==
    ASSUME ShapeInv, ShapeInv', LimitInv, TableWords, NEW t \in Call, Clear(t)
    PROVE  Advances(t)
<1>1. /\ op' = op /\ val' = val /\ th[t].pc = "rebuild" /\ Kind(t) = "Clear" /\ Ends(t)
      /\ th'[t].res = Answer(Nil, TRUE)
  BY ClearEffect DEF entry
<1>2. (\A k \in Key : Stored(k)' = Nil) /\ Good
  BY <1>1, ClearEffect, ClearStored
<1>3. /\ op[t].key = Nil /\ \A v : Answers(op[t], v) = Answer(Nil, TRUE)
      /\ \A k \in Key : \A v : After(op[t], k, v) = Nil
  BY <1>1, SweepIs DEF Sweepers
<1>4. Writes(op[t]) /\ mu = t
  BY <1>1, <1>2, <1>3, CallFacts DEF Writes, HoldsOK, Held
<1>5. QED
  BY <1>1, <1>2, <1>3, <1>4, EffectNow DEF Ends, Ranges
-------------------------------------------------------------------------------
\* The steps of the calls; without limits none looks at one.
LEMMA LinStep ==
    ASSUME ShapeInv, ShapeInv', LimitInv, LinInv, NEW t \in Call, Step(t)
    PROVE  LinInv'
<1>1. th[t].pc # "done" /\ op' = op
  BY StepMoves
<1>2. CASE ~Plain
  BY <1>1, <1>2 DEF LinInv, Plain, Limited
<1>3. CASE Plain
  <2>1. TableWords /\ DecidedOK(t)
    BY <1>3 DEF LinInv
  <2>2. ~CheckLimit(t) /\ ~ConsumeHit(t)
    BY <2>1 DEF DecidedOK, CheckLimit, ConsumeHit, At
  <2>3. Advances(t)
    BY <1>3, <2>1, <2>2, Steps, LinInvoke, LinFind, LinRangeSlot, LinLoadMeta, LinLoadVal,
       LinLock, LinGrow, LinInsert, LinAbsent, LinFinds, LinStoreVal, LinStoreMeta, LinRemove,
       LinCleanup, LinClear
  <2>4. QED
    BY <1>1, <2>3, LinAdvances
<1>4. QED
  BY <1>2, <1>3

\* The clock, and nothing.
LEMMA LinTick == ASSUME LinInv, Tick \/ UNCHANGED vars PROVE LinInv'
<1>1. op' = op /\ tabs' = tabs /\ val' = val /\ th' = th
  BY DEF Tick, vars, table, entry
<1>2. Current' = Current /\ KeyIn' = KeyIn /\ \A e : KeyOf(e)' = KeyOf(e) /\ Word(e)' = Word(e)
  BY <1>1, KeysSame DEF Current, Word
<1>3. \A k : Stored(k)' = Stored(k)
  BY <1>2 DEF Stored
<1>4. Plain' = Plain
  BY <1>1 DEF Plain, Limited
<1>5. Plain => TableWords'
  BY <1>1, <1>2 DEF LinInv, TableWords, Word
<1>6. ASSUME Plain, NEW t \in Call PROVE DecidedOK(t)'
  <2>1. DecidedOK(t)
    BY <1>6 DEF LinInv
  <2>2. PICK k : k = op[t].key
    OBVIOUS
  <2>3. Stored(k)' = Stored(k) /\ op'[t].key = k
    BY <1>1, <1>3, <2>2
  <2>4. QED
    BY <1>1, <2>1, <2>2, <2>3 DEF DecidedOK, Kind, After
<1>7. \A order, h : Explained(order, h) => Explained(order, h)'
  BY <1>1, <1>3 DEF Explained, Account, Committed
<1>8. \A order, h : \A t \in Call : ReadOK(order, h, t) => ReadOK(order, h, t)'
  BY <1>1, <1>2 DEF ReadOK, Kind, Word, Way, Holder, KeyOf
<1>9. ASSUME Plain
      PROVE  \E order, h : Explained(order, h)' /\ \A t \in Call : ReadOK(order, h, t)'
  <2>1. PICK order, h : Explained(order, h) /\ \A t \in Call : ReadOK(order, h, t)
    BY <1>9 DEF LinInv
  <2>2. QED
    BY <1>7, <1>8, <2>1, Zenon
<1>10. QED
  BY <1>4, <1>5, <1>6, <1>9 DEF LinInv

\* Every step keeps the invariant.
LEMMA LinNext ==
    ASSUME ShapeInv, ShapeInv', LimitInv, LinInv, [Next]_vars PROVE LinInv'
<1>1. ASSUME NEW t \in Call, Step(t) PROVE LinInv'
  BY <1>1, LinStep
<1>2. CASE Tick \/ UNCHANGED vars
  BY <1>2, LinTick
<1>3. QED
  BY <1>1, <1>2 DEF Next, Finished

\* Before the calls the order is empty.
LEMMA LinInit == ASSUME Init PROVE LinInv
<1>1. PICK w \in Workloads :
         tabs = <<w.slots>> /\ OpsTyped /\ \A k \in Key : op[k] = w.first[k]
  BY InitFacts
<1>2. /\ val = [e \in Obj |-> IF e \in Key THEN e ELSE Nil]
      /\ th = [t \in Call |-> Locals]
  BY DEF Init
<1>3. ShapeInv /\ StoredFacts
  BY ShapeInit, StoredIs
<1> DEFINE T == w.slots
<1>4. /\ \A k \in Key : op[k].val # Nil <=> \E i \in DOMAIN T : T[i] = k
      /\ T \in [0..(Size(T) - 1) -> Key \cup {Nil, Tomb}]
  BY <1>1, WorkloadsAssumption
<1>5. Current = T /\ tabs[1] = T /\ DOMAIN tabs = {1} /\ Len(tabs) = 1
  BY <1>1 DEF Current
<1> HIDE DEF T
<1>6. \A k \in Key : k \in Obj /\ KeyOf(k) = k /\ Word(k) = op[k].val
  BY <1>2 DEF Obj, KeyOf, Word
<1>7. \A i \in DOMAIN T : T[i] \in Obj => T[i] \in Key
  BY <1>4, Names
<1>8. ASSUME NEW k \in Key PROVE Stored(k) = op[k].val
  <2>1. k \in EntriesOf(Current) <=> op[k].val # Nil
    BY <1>4, <1>5, <1>6, Names DEF EntriesOf
  <2>2. \A e \in Obj : e \in EntriesOf(Current) /\ KeyOf(e) = k => e = k
    BY <1>5, <1>6, <1>7 DEF EntriesOf
  <2>3. QED
    BY <1>3, <1>6, <2>1, <2>2 DEF StoredFacts
<1>9. TableWords
  <2>1. ASSUME NEW i \in DOMAIN T, T[i] \in Obj PROVE Word(T[i]) # Nil
    <3>1. PICK k \in Key : T[i] = k
      BY <1>7, <2>1
    <3>2. Word(k) # Nil
      BY <1>4, <1>6, <3>1
    <3>3. QED
      BY <3>1, <3>2
  <2>2. QED
    BY <1>5, <2>1 DEF TableWords
<1>10. ASSUME NEW t \in Call
       PROVE  /\ DecidedOK(t) /\ ~Committed(t) /\ \A order, h : ReadOK(order, h, t)
  <2>1. th[t].pc = "call" /\ th[t].res = Answer(Nil, TRUE)
    BY <1>2 DEF Locals
  <2>2. QED
    BY <2>1 DEF DecidedOK, Committed, ReadOK, Viewing
<1> DEFINE h == [i \in {0} |-> [k \in Key |-> op[k].val]]
<1>11. Explained(<<>>, h)
  <2>1. <<>> \in Seq(Call) /\ Len(<<>>) = 0 /\ 1..0 = {}
    OBVIOUS
  <2>2. \A k \in Key : h[0][k] = op[k].val
    OBVIOUS
  <2> HIDE DEF h
  <2>3. Account(op, th, <<>>, h)
    BY <2>1, <2>2 DEF Account
  <2>4. QED
    BY <2>1, <2>2, <2>3, <1>8, <1>10 DEF Explained, Listed
<1> HIDE DEF h
<1>12. QED
  BY <1>9, <1>10, <1>11 DEF LinInv

\* It always holds.
LEMMA LinAlways == Spec => []LinInv
  BY LinInit, LinNext, ShapeAlways, LimitAlways, PTL DEF Spec

-------------------------------------------------------------------------------
\* The contents between the calls of an order, as Explains computes them.
Filling(order, f) ==
    f = [i \in 0..Len(order) |->
            IF i = 0 THEN [k \in Key |-> op[k].val]
            ELSE [k \in Key |-> After(op[order[i]], k, f[i - 1][k])]]
Contents(order) == CHOOSE f : Filling(order, f)
LEMMA ExplainsIs ==
    ASSUME NEW order
    PROVE  Explains(order) <=>
             /\ \A i, j \in 1..Len(order) : order[i] \in th[order[j]].before => i < j
             /\ \A i \in 1..Len(order) :
                  th[order[i]].res = Answers(op[order[i]],
                     IF op[order[i]].key = Nil THEN Nil
                     ELSE Contents(order)[i - 1][op[order[i]].key])
             /\ \A k \in Key : Contents(order)[Len(order)][k] = Content(k)
  BY Zenon DEF Explains, Contents, Filling

\* They are those of the account.
LEMMA ContentsIs ==
    ASSUME NEW order, NEW h, Account(op, th, order, h)
    PROVE  \A i \in 0..Len(order) : \A k \in Key : Contents(order)[i][k] = h[i][k]
<1> DEFINE n == Len(order)
           f == [i \in 0..n |-> [k \in Key |-> h[i][k]]]
           c == Contents(order)
<1>1. n \in Nat
  BY DEF Account
<1>2. /\ \A k \in Key : h[0][k] = op[k].val
      /\ \A i \in 1..n : \A k \in Key : h[i][k] = After(op[order[i]], k, h[i - 1][k])
  BY DEF Account
<1>3. Filling(order, f)
  <2>1. [k \in Key |-> h[0][k]] = [k \in Key |-> op[k].val]
    BY <1>2
  <2>2. ASSUME NEW i \in 1..n
        PROVE  f[i] = [k \in Key |-> After(op[order[i]], k, f[i - 1][k])]
    <3>1. i \in 0..n /\ i - 1 \in 0..n
      BY <1>1
    <3>2. \A k \in Key : f[i - 1][k] = h[i - 1][k] /\ f[i][k] = h[i][k]
      BY <3>1
    <3>3. f[i] = [k \in Key |-> h[i][k]]
      BY <3>1
    <3> HIDE DEF f
    <3>4. QED
      BY <1>2, <3>2, <3>3
  <2>3. f[0] = [k \in Key |-> h[0][k]] /\ f = [i \in 0..n |-> f[i]]
    BY <1>1
  <2> HIDE DEF f
  <2>4. ASSUME NEW i \in 0..n
        PROVE  f[i] = IF i = 0 THEN [k \in Key |-> op[k].val]
                      ELSE [k \in Key |-> After(op[order[i]], k, f[i - 1][k])]
    <3>1. i = 0 \/ i \in 1..n
      BY <1>1
    <3>2. QED
      BY <2>1, <2>2, <2>3, <3>1
  <2>5. QED
    BY <2>3, <2>4, Zenon DEF Filling
<1>4. Filling(order, c)
  BY <1>3, Zenon DEF Contents
<1> HIDE DEF f, c
<1>5. \A k \in Key : c[0][k] = op[k].val
  BY <1>1, <1>4 DEF Filling
<1>6. ASSUME NEW i \in 1..n
      PROVE  \A k \in Key : c[i][k] = After(op[order[i]], k, c[i - 1][k])
  <2>1. i \in 0..n /\ i # 0
    BY <1>1
  <2>2. c[i] = [k \in Key |-> After(op[order[i]], k, c[i - 1][k])]
    BY <1>4, <2>1 DEF Filling
  <2>3. QED
    BY <2>2
<1> DEFINE S == {i \in Nat : i <= n => \A k \in Key : c[i][k] = h[i][k]}
<1>7. 0 \in S
  BY <1>2, <1>5
<1>8. ASSUME NEW i \in Nat, i \in S PROVE i + 1 \in S
  <2>1. CASE i + 1 <= n
    <3>1. i + 1 \in 1..n /\ (i + 1) - 1 = i /\ i <= n
      BY <1>1, <2>1
    <3>2. \A k \in Key : c[i][k] = h[i][k]
      BY <1>8, <3>1
    <3>3. \A k \in Key : c[i + 1][k] = h[i + 1][k]
      BY <1>2, <1>6, <3>1, <3>2
    <3>4. QED
      BY <3>3
  <2>2. CASE ~(i + 1 <= n)
    BY <2>2
  <2>3. QED
    BY <2>1, <2>2
<1>9. Nat \subseteq S
  <2> HIDE DEF S
  <2>1. QED
    BY <1>7, <1>8, SetInduction
<1>10. QED
  BY <1>1, <1>9 DEF c

\* An order of the calls that have ended is a sequence of them.
LEMMA OrderOf ==
    ASSUME NEW S, NEW order \in Seq(Call),
           \A i, j \in 1..Len(order) : order[i] = order[j] => i = j,
           \A t \in Call : t \in S <=> Listed(order, t), S \subseteq Call
    PROVE  order \in SetToSeqs(S)
<1> DEFINE n == Len(order)
<1>1. n \in Nat /\ order \in [1..n -> Call]
  OBVIOUS
<1>2. \A i \in 1..n : order[i] \in S
  BY <1>1 DEF Listed
<1>3. order \in [1..n -> S]
  BY <1>1, <1>2
<1>4. \A t \in S : \E i \in 1..n : order[i] = t
  BY DEF Listed
<1>5. order \in Bijection(1..n, S)
  BY <1>3, <1>4 DEF Bijection, Injection, Surjection, IsInjective
<1>6. Cardinality(S) = n
  BY <1>1, <1>5, FS_CountingElements DEF ExistsBijection
<1>7. QED
  BY <1>3, <1>6 DEF SetToSeqs
-------------------------------------------------------------------------------
\* Without limits the methods of TypedMap on one key, and Clear of a shard, are
\* atomic: the calls that have ended could have run one after the other, in an
\* order that respects which ended before which began, with the same answers and
\* what is stored in the end; what Range visits is not an answer here
\* (loadVal, storeVal, findLocked, insertLocked, removeLocked, growLocked).
THEOREM TypedCallsAreLinearizable == Spec => []TypedLinearizable
<1>1. ASSUME ShapeInv, LimitInv, LinInv PROVE TypedLinearizable
  <2> SUFFICES ASSUME Quiescent, Plain
               PROVE  \E order \in SetToSeqs({t \in Call : At(t, "done")}) : Explains(order)
    BY DEF TypedLinearizable, Plain
  <2>1. PICK order, h : Explained(order, h)
    BY <1>1 DEF LinInv
  <2>2. Account(op, th, order, h) /\ order \in Seq(Call)
    BY <2>1 DEF Explained, Account
  <2>3. \A t \in Call : Committed(t) <=> At(t, "done")
    BY DEF Quiescent, Blocked, Committed, At
  <2> DEFINE S == {t \in Call : At(t, "done")}
  <2>4. order \in SetToSeqs(S)
    <3>1. S \subseteq Call /\ \A t \in Call : t \in S <=> Listed(order, t)
      BY <2>1, <2>3 DEF Explained
    <3> HIDE DEF S
    <3>2. QED
      BY <2>2, <3>1, OrderOf DEF Account
  <2>5. \A k \in Key : h[Len(order)][k] = Content(k)
    <3> SUFFICES ASSUME NEW k \in Key PROVE Stored(k) = Content(k)
      BY <2>1 DEF Explained
    <3> DEFINE e == EntryAt(KeyIn, Current, k)
    <3>1. Content(k) = IF e = Nil THEN Nil ELSE IF Dead(e, now) THEN Nil ELSE Word(e)
      BY StopIs DEF Content, EntryAt, Word
    <3>2. e \in Obj \cup {Nil}
      BY <1>1, CurrentOK, HolderIs
    <3>3. QED
      BY <1>1, <3>1, <3>2, NothingLimited DEF Stored
  <2>6. \A i \in 0..Len(order) : \A k \in Key : Contents(order)[i][k] = h[i][k]
    BY <2>2, ContentsIs
  <2>7. Len(order) \in Nat /\ \A i \in 1..Len(order) : i - 1 \in 0..Len(order) /\ order[i] \in Call
    BY <2>2
  <2>8. \A k \in Key : Contents(order)[Len(order)][k] = Content(k)
    BY <2>5, <2>6, <2>7
  <2>9. ASSUME NEW i \in 1..Len(order)
        PROVE  th[order[i]].res = Answers(op[order[i]],
                  IF op[order[i]].key = Nil THEN Nil
                  ELSE Contents(order)[i - 1][op[order[i]].key])
    <3>1. th[order[i]].res = Answers(op[order[i]], Sight(op[order[i]], h[i - 1]))
      BY <2>2 DEF Account
    <3>2. op[order[i]].key # Nil => op[order[i]].key \in Key
      BY <1>1, <2>7, CallFacts, KeyFacts
    <3>3. QED
      BY <2>6, <2>7, <3>1, <3>2 DEF Sight
  <2>10. \A i, j \in 1..Len(order) : order[i] \in th[order[j]].before => i < j
    BY <2>2 DEF Account
  <2>11. Explains(order)
    BY <2>8, <2>9, <2>10, ExplainsIs
  <2>12. QED
    BY <2>4, <2>11
<1>2. QED
  BY <1>1, ShapeAlways, LimitAlways, LinAlways, PTL
===============================================================================
