------------------------------ MODULE TypedShard ------------------------------
(***************************************************************************)
(* One shard of TypedMap (typedmap.go, typedmap_ext.go): calls on several  *)
(* keys, the writers under the shard's mutex, the readers without it.      *)
(*                                                                         *)
(* An entry is two words, the value and the pointer to its metadata.  A    *)
(* writer that replaces a value stores the one, then the other; a reader   *)
(* loads them in the opposite order, from an entry that may meanwhile have *)
(* left the table, in a table that may have been replaced.                 *)
(*                                                                         *)
(* A call creates at most one entry, one value and one metadata record,    *)
(* which carry its name; those that were there before the calls carry the  *)
(* name of their key.  What a writer reads under the mutex, except hits    *)
(* and time, only it can change, so it is read in one step; the counters   *)
(* and the unlock are joined with the store before them.                   *)
(***************************************************************************)
EXTENDS PowersOfTwo, SequencesExt

CONSTANTS
    Call, Key,
    Nil, Tomb,  \* the nil pointer, and m.tomb
    Value,
    Hash,       \* the hash of each key
    MinSlots,   \* the smallest table: 8
    Workloads,  \* what may happen: [slots: the table before the calls,
                \* first: the operation that left each key, ops: the calls,
                \* now: the time at which they begin]
    MaxTime     \* the bound of the clock

ASSUME TypedNamesAssumption ==
    /\ Call \cap Key = {} /\ Nil # Tomb /\ {Nil, Tomb} \cap (Call \cup Key) = {}
    /\ Nil \notin Value
ASSUME HashAssumption == Hash \in [Key -> Nat]
ASSUME MinSlotsAssumption == MinSlots >= 4 /\ IsPowerOfTwo(MinSlots)

\* The methods that look at a key, store a value at it, and the others on a
\* key; those on the whole map.  Limits come with EntryOptions.
Readers == {"Load", "Peek", "Has"}
Storing == {"Store", "LoadOrStore", "Swap", "CompareAndSwap", "ComputeUpdate"}
OnKey == Readers \cup Storing \cup
    {"Delete", "CompareAndDelete", "ComputeDelete", "ComputeCancel", "ComputePanic"}
Ranges == {"Range", "Snapshot"}
Operations ==
    {o \in [kind : OnKey \cup Ranges \cup {"Clear", "CleanupNow"}, key : Key \cup {Nil},
            val : Value \cup {Nil}, old : Value \cup {Nil}, hits : Nat, ttl : Nat] :
        /\ o.key # Nil <=> o.kind \in OnKey
        /\ o.val # Nil <=> o.kind \in Storing
        /\ o.old # Nil <=> o.kind \in {"CompareAndSwap", "CompareAndDelete"}
        /\ o.hits > 0 \/ o.ttl > 0 => o.kind \in Storing \ {"ComputeUpdate"}}

\* A table, and the slots that a probe for key k visits.
Size(T) == Cardinality(DOMAIN T)
ProbeSlot(T, k, d) == (Hash[k] + d) % Size(T)

\* The table before the calls has a free slot and the keys with a value, each
\* in one slot, where the probe for it stops.
ASSUME WorkloadsAssumption ==
    /\ MaxTime \in Nat
    /\ \A w \in Workloads :
        LET T == w.slots IN
        /\ w.ops \subseteq Operations /\ w.now \in 0..MaxTime
        /\ w.first \in [Key -> Operations]
        /\ \A k \in Key : w.first[k].key = k /\ (w.first[k].val # Nil <=> \E i \in DOMAIN T : T[i] = k)
        /\ Size(T) \in Nat /\ T \in [0..(Size(T) - 1) -> Key \cup {Nil, Tomb}]
        /\ \E i \in DOMAIN T : T[i] = Nil
        /\ \A i \in DOMAIN T : T[i] \in Key =>
              \E d \in DOMAIN T :
                 /\ ProbeSlot(T, T[i], d) = i
                 /\ \A c \in 0..(d - 1) : T[ProbeSlot(T, T[i], c)] \notin {Nil, T[i]}

VARIABLES
    tabs,       \* the tables so far; the last one is current
    cnt,        \* count and tombstones of the current table
    val,        \* the value word of each entry, named by who stored it
    meta,       \* entry.meta: a metadata record or Nil
    hits,       \* typedMeta.hits of each record
    exp,        \* typedMeta.expireAt of each record, 0 without a TTL
    hasMeta,    \* m.hasMeta
    mu,         \* the owner of the mutex
    now,        \* the wall clock
    op,         \* what each call does, and what stored the first values
    th          \* the locals of each call

table == <<tabs, cnt>>
entry == <<val, meta>>
limits == <<hits, exp, hasMeta>>
vars == <<table, entry, limits, mu, now, op, th>>

Obj == Call \cup Key
Operation(kind, k, v) == [kind |-> kind, key |-> k, val |-> v, old |-> Nil, hits |-> 0, ttl |-> 0]

Kind(t) == op[t].kind
KeyOf(e) == IF e \in Key THEN e ELSE op[e].key
At(t, l) == th[t].pc = l
\* A call that has ended keeps its answer and what it answered from.
Tidy(l) == IF l.pc # "done" THEN l
           ELSE [l EXCEPT !.tab = 0, !.d = 0, !.ent = Nil, !.md = Nil, !.has = FALSE]
\* The locals with some fields replaced.
With(l, r) == [f \in DOMAIN l |-> IF f \in DOMAIN r THEN r[f] ELSE l[f]]
Set(t, r) == th' = [th EXCEPT ![t] = Tidy(With(@, r))]
Goto(t, l) == Set(t, [pc |-> l])
Answer(v, b) == [val |-> v, ok |-> b]
Absent == Answer(Nil, FALSE)
Return(t, r) == Set(t, [pc |-> "done", res |-> r])
-------------------------------------------------------------------------------
\* typedMeta: newTypedMeta allocates a record only for a limit.
Limited(m) == op[m].hits > 0 \/ op[m].ttl > 0
Expired(m, time) == exp[m] > 0 /\ time >= exp[m]
DeadForView(m, time) == Expired(m, time) \/ (op[m].hits > 0 /\ hits[m] <= 0)
Dead(e, time) == meta[e] # Nil /\ DeadForView(meta[e], time)

Current == tabs[Len(tabs)]
Empty(n) == [i \in 0..(n - 1) |-> Nil]
IsEntry(e) == e \notin {Nil, Tomb}
IsKey(T, k, i) == IsEntry(T[i]) /\ KeyOf(T[i]) = k
\* The first slot it visits that holds something in S.
FirstSlot(T, k, S) ==
    ProbeSlot(T, k, CHOOSE d \in DOMAIN T :
        /\ T[ProbeSlot(T, k, d)] \in S
        /\ \A c \in 0..(d - 1) : T[ProbeSlot(T, k, c)] \notin S)

\* Where the loops of the writers stop: at the key or at an empty slot.
StopSlot(T, k) == FirstSlot(T, k, {Nil} \cup {e \in Obj : KeyOf(e) = k})
\* Where they insert: at the first tombstone before that, if there is one.
InsertSlot(T, k) == FirstSlot(T, k, {Nil, Tomb})

\* Copying the entries in kept to a new table, in the order of the slots.
Rehash(T, n, kept) ==
    LET place(N, e) == [N EXCEPT ![FirstSlot(N, KeyOf(e), {Nil})] = e]
        copied[i \in 0..Size(T)] ==
            IF i = 0 THEN Empty(n)
            ELSE IF T[i - 1] \in kept
            THEN place(copied[i - 1], T[i - 1])
            ELSE copied[i - 1]
    IN copied[Size(T)]

EntriesOf(T) == {T[i] : i \in DOMAIN T} \ {Nil, Tomb}
Live(T) == Cardinality({i \in DOMAIN T : IsEntry(T[i])})
Tombstones(T) == Cardinality({i \in DOMAIN T : T[i] = Tomb})

TargetTypedSlots(slots, live) ==
    LET required == NextPowerOfTwo(MaxInt(MinSlots, live * 2)) IN
    IF required > slots THEN MaxInt(slots * 4, required) ELSE required

\* table.Store of a new table, with its counters.
Install(T) ==
    /\ tabs' = Append(tabs, T)
    /\ cnt' = [live |-> Live(T), tomb |-> 0]
-------------------------------------------------------------------------------
\* The methods that insert an absent key, and grow a full table before.
Inserters ==
    {"Store", "LoadOrStore", "Swap", "ComputeUpdate", "ComputeDelete", "ComputeCancel",
     "ComputePanic"}

\* A call begins: newTypedMeta starts the TTL, hasMeta is set before anything
\* is stored.  Range looks at hasMeta once, CleanupNow and Range at the clock.
Invoke(t) ==
    /\ At(t, "call")
    /\ Set(t, [pc |-> IF Kind(t) \in Readers \cup {"LoadOrStore"} THEN "find"
                      ELSE IF Kind(t) \in Ranges THEN "range" ELSE "lock",
               has |-> hasMeta \/ Kind(t) = "Snapshot", start |-> now,
               before |-> {u \in Call : At(u, "done")}])
    /\ exp' = [exp EXCEPT ![t] = IF op[t].ttl > 0 THEN now + op[t].ttl ELSE 0]
    /\ hasMeta' = (hasMeta \/ Limited(t))
    /\ UNCHANGED <<table, entry, hits, mu, now, op>>

\* LoadOrStore goes on under the mutex where the others answer "absent".
Miss(t) == IF Kind(t) = "LoadOrStore" THEN Goto(t, "lock") ELSE Return(t, Absent)

\* Mutant: a lookup that takes a tombstone for the end of the chain.
FindStopsAtTomb(t) ==
    /\ th[t].pc \in {"find", "walk"}
    /\ LET g == IF At(t, "find") THEN Len(tabs) ELSE th[t].tab
           d == IF At(t, "find") THEN 0 ELSE th[t].d
           T == tabs[g]
           i == ProbeSlot(T, op[t].key, d) IN
        IF IsKey(T, op[t].key, i) THEN Set(t, [pc |-> "meta", ent |-> T[i]])
        ELSE IF ~IsEntry(T[i]) \/ d + 1 = Size(T) THEN Miss(t)
        ELSE Set(t, [pc |-> "walk", tab |-> g, d |-> d + 1])
    /\ UNCHANGED <<table, entry, limits, mu, now, op>>

\* find, outside the mutex: one slot of the table that was current when it
\* began.
Find(t) ==
    /\ th[t].pc \in {"find", "walk"}
    /\ LET g == IF At(t, "find") THEN Len(tabs) ELSE th[t].tab
           d == IF At(t, "find") THEN 0 ELSE th[t].d
           T == tabs[g]
           i == ProbeSlot(T, op[t].key, d) IN
        IF IsKey(T, op[t].key, i) THEN Set(t, [pc |-> "meta", ent |-> T[i]])
        ELSE IF T[i] = Nil \/ d + 1 = Size(T) THEN Miss(t)
        ELSE Set(t, [pc |-> "walk", tab |-> g, d |-> d + 1])
    /\ UNCHANGED <<table, entry, limits, mu, now, op>>

\* Range, Snapshot, Len and Stats go through all slots instead.
NextSlot(t) == IF th[t].d = Size(tabs[th[t].tab]) THEN "done" ELSE "visit"

\* Mutant: the table pointer is loaded again for every slot.
RangeSlotReloads(t) ==
    /\ th[t].pc \in {"range", "visit"}
    /\ LET g == Len(tabs)
           d == IF At(t, "range") THEN 0 ELSE th[t].d
           e == tabs[g][d] IN
        Set(t, [tab |-> g, d |-> d + 1, ent |-> e,
                pc |-> IF IsEntry(e) THEN "meta"
                       ELSE IF d + 1 = Size(tabs[g]) THEN "done" ELSE "visit"])
    /\ UNCHANGED <<table, entry, limits, mu, now, op>>

RangeSlot(t) ==
    /\ th[t].pc \in {"range", "visit"}
    /\ LET g == IF At(t, "range") THEN Len(tabs) ELSE th[t].tab
           d == IF At(t, "range") THEN 0 ELSE th[t].d
           e == tabs[g][d] IN
        Set(t, [tab |-> g, d |-> d + 1, ent |-> e,
                pc |-> IF IsEntry(e) THEN "meta"
                       ELSE IF d + 1 = Size(tabs[g]) THEN "done" ELSE "visit"])
    /\ UNCHANGED <<table, entry, limits, mu, now, op>>

\* The metadata pointer, which Load and Range ignore while hasMeta is unset.
LoadMeta(t) ==
    /\ At(t, "meta")
    /\ LET looks == CASE Kind(t) = "Load" -> hasMeta
                      [] Kind(t) \in Ranges -> th[t].has
                      [] OTHER -> TRUE
           md == IF looks THEN meta[th[t].ent] ELSE Nil IN
        Set(t, [pc |-> IF md = Nil THEN "val" ELSE "limit", md |-> md])
    /\ UNCHANGED <<table, entry, limits, mu, now, op>>

\* Mutant: a Load of an entry with metadata only counts hits.
CheckLimitNoClock(t) ==
    /\ At(t, "limit")
    /\ Goto(t, IF Kind(t) = "Load" /\ op[th[t].md].hits > 0 THEN "consume" ELSE "val")
    /\ UNCHANGED <<table, entry, limits, mu, now, op>>

\* deadForView, or the clock alone in Load, which then takes a hit.
CheckLimit(t) ==
    /\ At(t, "limit")
    /\ LET md == th[t].md IN
        \/ /\ Kind(t) = "Load" /\ Expired(md, now) /\ Return(t, Absent)
        \/ /\ Kind(t) = "Load" /\ ~Expired(md, now)
           /\ Goto(t, IF op[md].hits > 0 THEN "consume" ELSE "val")
        \/ /\ Kind(t) \in Ranges
           /\ Goto(t, IF DeadForView(md, th[t].start) THEN NextSlot(t) ELSE "val")
        \/ /\ Kind(t) \notin Ranges \cup {"Load"}
           /\ IF DeadForView(md, now) THEN Miss(t) ELSE Goto(t, "val")
    /\ UNCHANGED <<table, entry, limits, mu, now, op>>

\* Mutant: the test looks at the hits before the subtraction.
ConsumeHitLate(t) ==
    /\ At(t, "consume")
    /\ hits' = [hits EXCEPT ![th[t].md] = @ - 1]
    /\ IF hits[th[t].md] < 0 THEN Return(t, Absent) ELSE Goto(t, "val")
    /\ UNCHANGED <<table, entry, exp, hasMeta, mu, now, op>>

\* md.hits.Add(-1), which may go below 0.
ConsumeHit(t) ==
    /\ At(t, "consume")
    /\ hits' = [hits EXCEPT ![th[t].md] = @ - 1]
    /\ IF hits[th[t].md] - 1 < 0 THEN Return(t, Absent) ELSE Goto(t, "val")
    /\ UNCHANGED <<table, entry, exp, hasMeta, mu, now, op>>

\* loadVal.  Has does not need it.
LoadVal(t) ==
    /\ At(t, "val")
    /\ LET w == val[th[t].ent] IN
        IF Kind(t) \in Ranges
        THEN Set(t, [pc |-> NextSlot(t),
                     seen |-> Append(th[t].seen, <<KeyOf(th[t].ent), op[w].val>>)])
        ELSE Set(t, [pc |-> "done", word |-> w,
                     res |-> Answer(IF Kind(t) = "Has" THEN Nil ELSE op[w].val, TRUE)])
    /\ UNCHANGED <<table, entry, limits, mu, now, op>>
-------------------------------------------------------------------------------
\* mu.Lock, and growLocked before an insertion that could fill the table.
Full(T) == (cnt.live + cnt.tomb + 1) * 4 >= Size(T) * 3

Lock(t) ==
    /\ At(t, "lock")
    /\ mu = Nil
    /\ mu' = t
    /\ Goto(t, CASE Kind(t) \in {"Clear", "CleanupNow"} -> "rebuild"
                 [] Kind(t) \in Inserters /\ Full(Current) -> "grow"
                 [] OTHER -> "locked")
    /\ UNCHANGED <<table, entry, limits, now, op>>

Grow(t) ==
    /\ At(t, "grow")
    /\ Install(Rehash(Current, TargetTypedSlots(Size(Current), cnt.live), EntriesOf(Current)))
    /\ Goto(t, "locked")
    /\ UNCHANGED <<entry, limits, mu, now, op>>

Unlock(t, r) == mu' = Nil /\ Return(t, r)

\* The loops under the mutex end at the key's entry or at an empty slot.
LockedEntry(t) == Current[StopSlot(Current, op[t].key)]

\* The key has no entry: Store, LoadOrStore, Swap and Compute insert one, the
\* value and the metadata in place before the slot is set.
Inserted(t) ==
    CASE Kind(t) = "Store" -> Answer(Nil, TRUE)
      [] Kind(t) = "LoadOrStore" -> Answer(op[t].val, FALSE)
      [] Kind(t) = "Swap" -> Absent
      [] Kind(t) = "ComputeUpdate" -> Answer(op[t].val, TRUE)

InsertEntry(t) ==
    /\ At(t, "locked")
    /\ Kind(t) \in {"Store", "LoadOrStore", "Swap", "ComputeUpdate"}
    /\ LockedEntry(t) = Nil
    /\ val' = [val EXCEPT ![t] = t]
    /\ meta' = [meta EXCEPT ![t] = IF Limited(t) THEN t ELSE Nil]
    /\ LET i == InsertSlot(Current, op[t].key) IN
        /\ tabs' = [tabs EXCEPT ![Len(tabs)][i] = t]
        /\ cnt' = [live |-> cnt.live + 1,
                   tomb |-> cnt.tomb - (IF Current[i] = Tomb THEN 1 ELSE 0)]
    /\ Unlock(t, Inserted(t))
    /\ UNCHANGED <<limits, now, op>>

\* The others leave an absent key alone.
LockedAbsent(t) ==
    /\ At(t, "locked")
    /\ Kind(t) \notin {"Store", "LoadOrStore", "Swap", "ComputeUpdate", "ComputePanic"}
    /\ LockedEntry(t) = Nil
    /\ Unlock(t, Absent)
    /\ UNCHANGED <<table, entry, limits, now, op>>

\* The key has an entry: its live value, if any, decides what a method does
\* next and answers.
LiveWord(t) == IF Dead(LockedEntry(t), now) THEN Nil ELSE val[LockedEntry(t)]
OldValue(t) == IF LiveWord(t) = Nil THEN Nil ELSE op[LiveWord(t)].val
IsLive(t) == LiveWord(t) # Nil

Then(t, l, r) ==
    /\ Set(t, [pc |-> l, ent |-> LockedEntry(t), word |-> LiveWord(t), res |-> r])
    /\ mu' = IF l = "done" THEN Nil ELSE mu
    /\ UNCHANGED <<table, entry, limits, now, op>>

Holding(t, kinds) == At(t, "locked") /\ Kind(t) \in kinds /\ LockedEntry(t) # Nil

FoundStore(t) == Holding(t, {"Store"}) /\ Then(t, "storeVal", Answer(Nil, TRUE))

FoundLoadOrStore(t) ==
    /\ Holding(t, {"LoadOrStore"})
    /\ IF IsLive(t) THEN Then(t, "done", Answer(OldValue(t), TRUE))
       ELSE Then(t, "storeVal", Answer(op[t].val, FALSE))

FoundSwap(t) == Holding(t, {"Swap"}) /\ Then(t, "storeVal", Answer(OldValue(t), IsLive(t)))

\* Compute, by what the caller's function decides.
FoundCompute(t) ==
    \/ Holding(t, {"ComputeUpdate"}) /\ Then(t, "storeVal", Answer(op[t].val, TRUE))
    \/ Holding(t, {"ComputeDelete"}) /\ Then(t, "remove", Answer(OldValue(t), FALSE))
    \/ Holding(t, {"ComputeCancel"}) /\ Then(t, "done", Answer(OldValue(t), IsLive(t)))

\* The caller's function panics, with or without an entry.  Unlock is not
\* deferred: the mutex stays locked.
ComputePanics(t) ==
    /\ At(t, "locked") /\ Kind(t) = "ComputePanic"
    /\ Goto(t, "panic")
    /\ UNCHANGED <<table, entry, limits, mu, now, op>>

FoundDelete(t) == Holding(t, {"Delete"}) /\ Then(t, "remove", Answer(OldValue(t), IsLive(t)))

FoundCompareAndSwap(t) ==
    /\ Holding(t, {"CompareAndSwap"})
    /\ IF OldValue(t) = op[t].old THEN Then(t, "storeVal", Answer(Nil, TRUE))
       ELSE Then(t, "done", Absent)

FoundCompareAndDelete(t) ==
    /\ Holding(t, {"CompareAndDelete"})
    /\ IF OldValue(t) = op[t].old THEN Then(t, "remove", Answer(Nil, TRUE))
       ELSE Then(t, "done", Absent)

\* storeVal on an entry that readers may hold, and then its metadata.
StoreVal(t) ==
    /\ At(t, "storeVal")
    /\ val' = [val EXCEPT ![th[t].ent] = t]
    /\ Goto(t, "storeMeta")
    /\ UNCHANGED <<table, meta, limits, mu, now, op>>

\* Mutant: a plain Store leaves the metadata of the value it replaces.
StoreMetaKeeps(t) ==
    /\ At(t, "storeMeta")
    /\ meta' = [meta EXCEPT ![th[t].ent] = IF Limited(t) THEN t ELSE @]
    /\ Unlock(t, th[t].res)
    /\ UNCHANGED <<table, val, limits, now, op>>

StoreMeta(t) ==
    /\ At(t, "storeMeta")
    /\ meta' = [meta EXCEPT ![th[t].ent] = IF Limited(t) THEN t ELSE Nil]
    /\ Unlock(t, th[t].res)
    /\ UNCHANGED <<table, val, limits, now, op>>

\* Mutant: the slot of a removed entry is emptied, which ends the chain there.
RemoveEntryToNil(t) ==
    /\ At(t, "remove")
    /\ tabs' = [tabs EXCEPT ![Len(tabs)][StopSlot(Current, op[t].key)] = Nil]
    /\ cnt' = [cnt EXCEPT !.live = @ - 1]
    /\ Unlock(t, th[t].res)
    /\ UNCHANGED <<entry, limits, now, op>>

\* The slot becomes a tombstone; the entry itself is left as it is.
RemoveEntry(t) ==
    /\ At(t, "remove")
    /\ tabs' = [tabs EXCEPT ![Len(tabs)][StopSlot(Current, op[t].key)] = Tomb]
    /\ cnt' = [live |-> cnt.live - 1, tomb |-> cnt.tomb + 1]
    /\ Unlock(t, th[t].res)
    /\ UNCHANGED <<entry, limits, now, op>>

\* CleanupNow rebuilds a shard with a tombstone or an entry that was dead at
\* the time it began; Clear installs an empty table of the same size.
CleanupNow(t) ==
    /\ At(t, "rebuild")
    /\ Kind(t) = "CleanupNow"
    /\ IF \E i \in DOMAIN Current :
            \/ Current[i] = Tomb
            \/ IsEntry(Current[i]) /\ Dead(Current[i], th[t].start)
       THEN Install(Rehash(Current, TargetTypedSlots(Size(Current), cnt.live),
                           {e \in EntriesOf(Current) : ~Dead(e, th[t].start)}))
       ELSE UNCHANGED table
    /\ Unlock(t, Answer(Nil, TRUE))
    /\ UNCHANGED <<entry, limits, now, op>>

Clear(t) ==
    /\ At(t, "rebuild")
    /\ Kind(t) = "Clear"
    /\ Install(Empty(Size(Current)))
    /\ Unlock(t, Answer(Nil, TRUE))
    /\ UNCHANGED <<entry, limits, now, op>>
-------------------------------------------------------------------------------
Locals == [pc |-> "call", tab |-> 0, d |-> 0, ent |-> Nil, md |-> Nil, word |-> Nil,
           has |-> FALSE, res |-> Answer(Nil, TRUE), seen |-> <<>>, start |-> 0, before |-> {}]

Init ==
    /\ \E w \in Workloads : \E f \in [Call -> w.ops] :
        /\ tabs = <<w.slots>>
        /\ now = w.now
        /\ op = [o \in Obj |-> IF o \in Key THEN w.first[o] ELSE f[o]]
    /\ cnt = [live |-> Live(Current), tomb |-> Tombstones(Current)]
    /\ val = [e \in Obj |-> IF e \in Key THEN e ELSE Nil]
    /\ meta = [e \in Obj |-> IF e \in Key /\ Limited(e) THEN e ELSE Nil]
    /\ hits = [m \in Obj |-> op[m].hits]
    /\ exp = [m \in Obj |-> IF m \in Key THEN op[m].ttl ELSE 0]
    /\ hasMeta = \E k \in Key : Limited(k)
    /\ mu = Nil
    /\ th = [t \in Call |-> Locals]

Tick ==
    /\ now < MaxTime
    /\ now' = now + 1
    /\ UNCHANGED <<table, entry, limits, mu, op, th>>

\* The calls have all ended, or wait for the mutex of one that has unwound.
Blocked(t) == At(t, "lock") /\ mu # Nil /\ At(mu, "panic")
Quiescent == \A t \in Call : th[t].pc \in {"done", "panic"} \/ Blocked(t)
Finished == Quiescent /\ UNCHANGED vars

Step(t) ==
    \/ Invoke(t) \/ Find(t) \/ RangeSlot(t) \/ LoadMeta(t) \/ CheckLimit(t) \/ ConsumeHit(t)
    \/ LoadVal(t) \/ Lock(t) \/ Grow(t) \/ InsertEntry(t) \/ LockedAbsent(t)
    \/ FoundStore(t) \/ FoundLoadOrStore(t) \/ FoundSwap(t) \/ FoundCompute(t) \/ ComputePanics(t)
    \/ FoundDelete(t) \/ FoundCompareAndSwap(t) \/ FoundCompareAndDelete(t)
    \/ StoreVal(t) \/ StoreMeta(t) \/ RemoveEntry(t) \/ CleanupNow(t) \/ Clear(t)

Next == (\E t \in Call : Step(t)) \/ Tick \/ Finished

Spec == Init /\ [][Next]_vars
-------------------------------------------------------------------------------
\* In every table, current or replaced, a key has at most one slot, a probe
\* for it stops there, and some slot is empty, so that the unbounded loops of
\* the writers end; outside the mutex count and tombstones are exact.
TypedTablesSound ==
    /\ \A g \in DOMAIN tabs : LET T == tabs[g] IN
        /\ \E i \in DOMAIN T : T[i] = Nil
        /\ \A i \in DOMAIN T : IsEntry(T[i]) => StopSlot(T, KeyOf(T[i])) = i
    /\ mu = Nil => cnt = [live |-> Live(Current), tomb |-> Tombstones(Current)]

\* The value of key k: Nil when it is absent or dead.
Content(k) ==
    LET e == Current[StopSlot(Current, k)] IN
    IF e = Nil THEN Nil ELSE IF Dead(e, now) THEN Nil ELSE op[val[e]].val

\* What each method promises, one call at a time, on keys without limits: the
\* content it leaves at a key and the answer it gives.
After(o, k, v) ==
    IF o.kind = "Clear" THEN Nil ELSE IF k # o.key THEN v
    ELSE CASE o.kind \in Readers \cup {"ComputeCancel"} -> v
           [] o.kind \in {"Store", "Swap", "ComputeUpdate"} -> o.val
           [] o.kind = "LoadOrStore" -> IF v = Nil THEN o.val ELSE v
           [] o.kind = "CompareAndSwap" -> IF v = o.old THEN o.val ELSE v
           [] o.kind = "CompareAndDelete" -> IF v = o.old THEN Nil ELSE v
           [] o.kind \in {"Delete", "ComputeDelete"} -> Nil

Answers(o, v) ==
    CASE o.kind \in {"Store", "Clear", "CleanupNow"} \cup Ranges -> Answer(Nil, TRUE)
      [] o.kind \in {"Load", "Peek", "Delete", "Swap", "ComputeCancel"} -> Answer(v, v # Nil)
      [] o.kind = "Has" -> Answer(Nil, v # Nil)
      [] o.kind = "LoadOrStore" -> Answer(IF v = Nil THEN o.val ELSE v, v # Nil)
      [] o.kind = "ComputeUpdate" -> Answer(o.val, TRUE)
      [] o.kind = "ComputeDelete" -> Answer(v, FALSE)
      [] o.kind \in {"CompareAndSwap", "CompareAndDelete"} -> Answer(Nil, v = o.old)

\* The calls could have run one after the other, in an order that respects
\* which ended before which began, with the same answers and final content.
Explains(order) ==
    LET n == Len(order)
        content[i \in 0..n] ==
            IF i = 0 THEN [k \in Key |-> op[k].val]
            ELSE [k \in Key |-> After(op[order[i]], k, content[i - 1][k])] IN
    /\ \A i, j \in 1..n : order[i] \in th[order[j]].before => i < j
    /\ \A i \in 1..n : th[order[i]].res = Answers(op[order[i]],
            IF op[order[i]].key = Nil THEN Nil ELSE content[i - 1][op[order[i]].key])
    /\ \A k \in Key : content[n][k] = Content(k)

\* Without limits every method that acts on one key, and Clear, are atomic,
\* although readers take no lock, walk replaced tables, and pass slots that are
\* given to other keys behind them.  Range, Snapshot, Len and Stats are no
\* snapshots of a shard: they answer nothing here (RangeVisitsOnce).
\* A Compute whose function panics, and the writers that wait for its mutex,
\* change nothing, and readers go on.
TypedLinearizable ==
    Quiescent /\ (\A o \in Obj : ~Limited(o)) =>
        \E order \in SetToSeqs({t \in Call : At(t, "done")}) : Explains(order)

\* Whether a call began after the call or the history that stored w had ended.
Since(t, w) == w \in Key \cup th[t].before

\* A value stored with a hit limit is answered to at most that many of the
\* Loads that begin after the Store has returned: the value a Load answers is
\* never older than the metadata it paid to (StoreWithHits).
TypedHitBudget ==
    \A w \in Obj : op[w].hits > 0 =>
        Cardinality({t \in Call : /\ Kind(t) = "Load" /\ At(t, "done")
                                  /\ th[t].word = w /\ Since(t, w)}) <= op[w].hits

\* No call that began after the Store had returned and after the TTL elapsed
\* answers from the value, as a read, a previous value or a comparison.
TypedNoExpiredAnswer ==
    \A t \in Call : LET w == th[t].word IN
        /\ At(t, "done") /\ w # Nil /\ Kind(t) \notin {"Store", "ComputeUpdate"}
        /\ th[t].res.ok /\ exp[w] > 0 /\ Since(t, w)
        => th[t].start < exp[w]

\* Once a Store without limits has returned the key is present, whatever
\* limits the value before it had and however reads use them up, unless a
\* later call removes or limits it.
TypedStoreStays ==
    \A t \in Call :
        /\ Quiescent /\ At(t, "done") /\ Kind(t) = "Store" /\ ~Limited(t)
        /\ \A u \in Call \ {t} :
             Kind(u) \in Readers \cup Ranges \cup {"CleanupNow", "LoadOrStore", "ComputeCancel",
                                              "ComputePanic"}
        => Content(op[t].key) # Nil

\* Range and Snapshot visit a key that no call writes exactly once, with its
\* value, across growth and cleanup of the table.
RangeVisitsOnce ==
    \A t \in Call : Kind(t) \in Ranges /\ At(t, "done") =>
        \A k \in Key :
            /\ op[k].val # Nil /\ ~Limited(k)
            /\ \A u \in Call : Kind(u) # "Clear" /\ (op[u].key = k => Kind(u) \in Readers)
            => Cardinality({i \in DOMAIN th[t].seen : th[t].seen[i] = <<k, op[k].val>>}) = 1
===============================================================================
