------------------------------ MODULE ProbeTable ------------------------------
(***************************************************************************)
(* The open-addressing table of a shard with several keys (map.go: the     *)
(* probe loops of store, storeNewBundle, swap and loadOrStoreSlow,         *)
(* findEntry and the lookups inlined in Load, Peek and Has, delete,        *)
(* resizeAt, insertClone, clear).                                          *)
(*                                                                         *)
(* A writer probes the slots; a lookup probes the control words, which are *)
(* set one step after the slot, and stops at the first that is 0.  An      *)
(* entry stands for its key; tombs holds the keys whose entry in the       *)
(* current table has no value.  What happens to the values is ShardKey's   *)
(* subject, so replacing a live value leaves this state alone.             *)
(*                                                                         *)
(* Replaced tables are kept: a lookup may still be walking one.            *)
(***************************************************************************)
EXTENDS Sizing, Sequences, FiniteSets

CONSTANTS
    Thread, Key, Nil,
    Fp,             \* the fingerprint of each key: the top bits of its hash
    Sizes,          \* the table sizes that occur
    Probe(_, _, _), \* Probe(n, k, d): the d-th slot key k tries in n slots
    Calls,          \* what threads do: a set of <<operation, key>>
    MaxTables,      \* how many tables a behaviour may go through
    MaxCalls        \* how many calls each thread makes

Slots(n) == 0..(n - 1)

ASSUME KeysAssumption == Nil \notin Key /\ Nil \notin Thread
ASSUME FpAssumption == Fp \in [Key -> Nat \ {0}]
ASSUME SizesAssumption == Sizes \subseteq Nat \ {0} /\ MinTableSlots \in Sizes
\* A probe sequence meets every slot once: (hash + d) & mask, d below n.
ASSUME ProbeAssumption ==
    \A n \in Sizes, k \in Key :
        /\ \A d \in Slots(n) : Probe(n, k, d) \in Slots(n)
        /\ \A i \in Slots(n) : \E d \in Slots(n) : Probe(n, k, d) = i
        /\ \A d, e \in Slots(n) : Probe(n, k, d) = Probe(n, k, e) => d = e
ASSUME CallsAssumption ==
    Calls \subseteq ({"insert", "delete", "lookup"} \X Key)
                    \cup {<<"cleanup", Nil>>, <<"clear", Nil>>}

VARIABLES
    tabs,   \* the tables so far; the last one is current
    tombs,  \* the keys that are tombstones in the current table
    cnt,    \* live, used and tombstones
    gate,   \* the writers inside, and the owner of the resize bit
    fresh,  \* the table a rebuild is filling
    next,   \* the next slot of the current table that it copies
    th,     \* the locals of each thread
    exc     \* for the properties: what excuses each lookup so far

vars == <<tabs, tombs, cnt, gate, fresh, next, th, exc>>

NewTable(n) == [n |-> n, slot |-> [i \in Slots(n) |-> Nil], ctrl |-> [i \in Slots(n) |-> 0]]
Current == tabs[Len(tabs)]
InTable(T, k) == \E i \in Slots(T.n) : T.slot[i] = k

Idle == [pc |-> "idle", op |-> "", key |-> Nil, gen |-> 1, d |-> 0, min |-> 0,
         again |-> FALSE, calls |-> 0]

Init ==
    /\ tabs = <<NewTable(MinTableSlots)>>
    /\ tombs = {}
    /\ cnt = [live |-> 0, used |-> 0, tomb |-> 0]
    /\ gate = [writers |-> {}, owner |-> Nil]
    /\ fresh = NewTable(MinTableSlots) /\ next = 0
    /\ th = [t \in Thread |-> Idle]
    /\ exc = [t \in Thread |-> {}]

At(t, l) == th[t].pc = l
Goto(t, l) == th' = [th EXCEPT ![t].pc = l]
Finish(t) == th' = [th EXCEPT ![t] = [Idle EXCEPT !.calls = th[t].calls]]
\* The slot the thread looks at.
Here(t, n) == Probe(n, th[t].key, th[t].d)
Enter(t) == gate.owner = Nil /\ gate' = [gate EXCEPT !.writers = @ \cup {t}]
Leave(t) == gate' = [gate EXCEPT !.writers = @ \ {t}]

\* What excuses a lookup for missing its key: at some moment since it began
\* the key had no published entry in the current table, or an insertion had
\* set its slot and not yet its control word.
Published(T, k) == \E i \in Slots(T.n) : T.slot[i] = k /\ T.ctrl[i] # 0
Excuses(t) ==
    IF th[t].op # "lookup" THEN {}
    ELSE {x \in {"absent", "unfinished"} :
            \/ x = "absent" /\ ~Published(Current, th[t].key)
            \/ x = "unfinished" /\ \E u \in Thread : At(u, "publish")}
Watch == exc' = [t \in Thread |->
    Excuses(t)' \cup IF th'[t].op = "lookup" THEN exc[t] ELSE {}]
-------------------------------------------------------------------------------
\* A call begins; where it goes depends on the operation.
First == [insert |-> "begin", delete |-> "begin", lookup |-> "find",
          cleanup |-> "resize", clear |-> "clear"]

Start(t) ==
    /\ At(t, "idle") /\ th[t].calls < MaxCalls
    /\ \E c \in Calls :
        th' = [th EXCEPT ![t] =
            [pc |-> First[c[1]], op |-> c[1], key |-> c[2], gen |-> Len(tabs), d |-> 0,
             min |-> cnt.live, again |-> FALSE, calls |-> th[t].calls + 1]]
    /\ UNCHANGED <<tabs, tombs, cnt, gate, fresh, next>>
    /\ Watch

\* beginWrite and table.Load.
Begin(t) ==
    /\ At(t, "begin")
    /\ Enter(t)
    /\ th' = [th EXCEPT ![t].pc = IF th[t].op = "insert" THEN "probe" ELSE "find",
                        ![t].gen = Len(tabs), ![t].d = 0, ![t].again = FALSE]
    /\ UNCHANGED <<tabs, tombs, cnt, fresh, next>>
    /\ Watch

\* The table is full: leave, resize and start again.
NextSlot(t, n, full) ==
    IF th[t].d + 1 < n THEN th' = [th EXCEPT ![t].d = @ + 1] ELSE Goto(t, full)

\* A writer's look at one slot: nil, its own key, or another key.
ProbeSlot(t) ==
    /\ At(t, "probe")
    /\ LET k == th[t].key
           s == Current.slot[Here(t, Current.n)] IN
        \/ /\ s = Nil
           /\ Goto(t, "cas")
           /\ UNCHANGED <<tombs, cnt>>
        \/ /\ s = k
           /\ tombs' = tombs \ {k}
           /\ cnt' = IF k \in tombs
                     THEN [cnt EXCEPT !.live = @ + 1, !.tomb = @ - 1] ELSE cnt
           /\ Goto(t, "end")
        \/ /\ s # Nil /\ s # k
           /\ NextSlot(t, Current.n, "full")
           /\ UNCHANGED <<tombs, cnt>>
    /\ UNCHANGED <<tabs, gate, fresh, next>>
    /\ Watch

\* Mutant: the slot is stored without comparing it with nil.
InsertBlind(t) ==
    /\ At(t, "cas")
    /\ tabs' = [tabs EXCEPT ![Len(tabs)].slot[Here(t, Current.n)] = th[t].key]
    /\ Goto(t, "publish")
    /\ UNCHANGED <<tombs, cnt, gate, fresh, next>>
    /\ Watch

\* The CompareAndSwap of the slot; the loser leaves and probes again.
Insert(t) ==
    /\ At(t, "cas")
    /\ IF Current.slot[Here(t, Current.n)] = Nil
       THEN /\ tabs' = [tabs EXCEPT ![Len(tabs)].slot[Here(t, Current.n)] = th[t].key]
            /\ Goto(t, "publish")
       ELSE Goto(t, "retry") /\ UNCHANGED tabs
    /\ UNCHANGED <<tombs, cnt, gate, fresh, next>>
    /\ Watch

Retry(t) ==
    /\ At(t, "retry")
    /\ Leave(t)
    /\ Goto(t, "begin")
    /\ UNCHANGED <<tabs, tombs, cnt, fresh, next>>
    /\ Watch

\* ctrlStore, then the counters: an insertion resizes if used, as it left it,
\* has reached growAt.
Publish(t) ==
    /\ At(t, "publish")
    /\ tabs' = [tabs EXCEPT ![Len(tabs)].ctrl[Here(t, Current.n)] = Fp[th[t].key]]
    /\ cnt' = [cnt EXCEPT !.live = @ + 1, !.used = @ + 1]
    /\ Goto(t, IF cnt.used + 1 >= GrowAt(Current.n) THEN "endGrow" ELSE "leave")
    /\ UNCHANGED <<tombs, gate, fresh, next>>
    /\ Watch

\* endWrite.  An insertion that has to grow the table asks for one entry more;
\* the other writes look at the whole state of the table.
EndWrite(t) ==
    /\ th[t].pc \in {"end", "endGrow"}
    /\ Leave(t)
    /\ IF At(t, "endGrow") \/ ShouldResize(Current.n, cnt.used, cnt.live)
       THEN th' = [th EXCEPT ![t].pc = "resize",
                             ![t].min = cnt.live + IF At(t, "endGrow") THEN 1 ELSE 0]
       ELSE Finish(t)
    /\ UNCHANGED <<tabs, tombs, cnt, fresh, next>>
    /\ Watch

Full(t) ==
    /\ At(t, "full")
    /\ Leave(t)
    /\ th' = [th EXCEPT ![t].pc = "resize", ![t].min = cnt.live + 1, ![t].again = TRUE]
    /\ UNCHANGED <<tabs, tombs, cnt, fresh, next>>
    /\ Watch
-------------------------------------------------------------------------------
\* findEntry: one control word at a time.  A lookup walks the table it loaded,
\* which may have been replaced; delete walks it inside the gate.
Missed(t) == Goto(t, IF th[t].op = "lookup" THEN "missed" ELSE "leave")

\* Mutant: a lookup that gives up at the first entry that is not its own.
FindEntryGivesUp(t) ==
    /\ At(t, "find")
    /\ LET T == tabs[th[t].gen]
           i == Here(t, T.n) IN
        IF T.ctrl[i] = Fp[th[t].key] /\ T.slot[i] = th[t].key
        THEN Goto(t, "found") ELSE Missed(t)
    /\ UNCHANGED <<tabs, tombs, cnt, gate, fresh, next>>
    /\ Watch

FindEntry(t) ==
    /\ At(t, "find")
    /\ LET T == tabs[th[t].gen]
           i == Here(t, T.n) IN
        \/ T.ctrl[i] = 0 /\ Missed(t)
        \/ T.ctrl[i] = Fp[th[t].key] /\ T.slot[i] = th[t].key /\ Goto(t, "found")
        \/ /\ T.ctrl[i] # 0
           /\ T.ctrl[i] # Fp[th[t].key] \/ T.slot[i] # th[t].key
           /\ IF th[t].d + 1 < T.n THEN th' = [th EXCEPT ![t].d = @ + 1] ELSE Missed(t)
    /\ UNCHANGED <<tabs, tombs, cnt, gate, fresh, next>>
    /\ Watch

\* Mutant: a second delete of the same key counts again.
FoundDeleteTwice(t) ==
    /\ At(t, "found") /\ th[t].op = "delete"
    /\ tombs' = tombs \cup {th[t].key}
    /\ cnt' = [cnt EXCEPT !.live = @ - 1, !.tomb = @ + 1]
    /\ Goto(t, "end")
    /\ UNCHANGED <<tabs, gate, fresh, next>>
    /\ Watch

\* delete empties the entry, which stays in its slot.
FoundDelete(t) ==
    /\ At(t, "found") /\ th[t].op = "delete"
    /\ IF th[t].key \in tombs
       THEN Goto(t, "leave") /\ UNCHANGED <<tombs, cnt>>
       ELSE /\ tombs' = tombs \cup {th[t].key}
            /\ cnt' = [cnt EXCEPT !.live = @ - 1, !.tomb = @ + 1]
            /\ Goto(t, "end")
    /\ UNCHANGED <<tabs, gate, fresh, next>>
    /\ Watch

LeaveWrite(t) ==
    /\ At(t, "leave")
    /\ Leave(t)
    /\ Finish(t)
    /\ UNCHANGED <<tabs, tombs, cnt, fresh, next>>
    /\ Watch

EndLookup(t) ==
    /\ th[t].op = "lookup" /\ th[t].pc \in {"found", "missed"}
    /\ Finish(t)
    /\ UNCHANGED <<tabs, tombs, cnt, gate, fresh, next>>
    /\ Watch
-------------------------------------------------------------------------------
\* resizeAt returns, and a writer that met a full table starts again.
AfterResize(t) == IF th[t].again THEN Goto(t, "begin") ELSE Finish(t)

\* The bit is taken, or the attempt is given up: because another thread has
\* it, because the word moved, or because cleanup finds nothing to do.  What
\* needsCleanup says, which deletions and limits set, is left open.
ResizeTry(t) ==
    /\ At(t, "resize")
    /\ \/ /\ gate.owner = Nil /\ Len(tabs) < MaxTables
          /\ gate' = [gate EXCEPT !.owner = t]
          /\ Goto(t, "drain")
       \/ /\ \/ gate.owner # Nil
             \/ \E u \in Thread \ {t} : ~At(u, "idle")
             \/ /\ th[t].op = "cleanup" /\ cnt.tomb = 0
                /\ ~ShouldShrink(Current.n, cnt.live)
             \/ Len(tabs) = MaxTables
          /\ AfterResize(t)
          /\ UNCHANGED gate
    /\ UNCHANGED <<tabs, tombs, cnt, fresh, next>>
    /\ Watch

ClearTry(t) ==
    /\ At(t, "clear")
    /\ IF Len(tabs) = MaxTables
       THEN Finish(t) /\ UNCHANGED gate
       ELSE /\ gate.owner = Nil
            /\ gate' = [gate EXCEPT !.owner = t]
            /\ Goto(t, "drain")
    /\ UNCHANGED <<tabs, tombs, cnt, fresh, next>>
    /\ Watch

Kept(i) == Current.slot[i] # Nil /\ Current.slot[i] \notin tombs
Live == Cardinality({i \in Slots(Current.n) : Kept(i)})

\* The writers are gone: stop if a resize is not needed any more, or build an
\* empty table of the new size.
Drained(t) ==
    /\ At(t, "drain")
    /\ gate.writers = {}
    /\ LET force == th[t].op = "cleanup"
           size == TargetSlotCount(Current.n, MaxInt(Live, MaxInt(th[t].min, 1)),
                                   cnt.used, cnt.tomb, force) IN
        \/ /\ th[t].op \notin {"cleanup", "clear"}
           /\ ~ShouldResize(Current.n, cnt.used, cnt.live)
           /\ Goto(t, "release")
           /\ UNCHANGED <<fresh, next>>
        \/ /\ th[t].op = "clear"
           /\ fresh' = NewTable(MinTableSlots) /\ next' = Current.n
           /\ Goto(t, "copy")
        \/ /\ th[t].op # "clear"
           /\ force \/ ShouldResize(Current.n, cnt.used, cnt.live)
           /\ size \in Sizes
           /\ fresh' = NewTable(size) /\ next' = 0
           /\ Goto(t, "copy")
    /\ UNCHANGED <<tabs, tombs, cnt, gate>>
    /\ Watch

\* insertClone: the first nil slot that the key's probe meets.
InsertClone(k) ==
    \E d \in Slots(fresh.n) :
        /\ fresh.slot[Probe(fresh.n, k, d)] = Nil
        /\ \A e \in 0..(d - 1) : fresh.slot[Probe(fresh.n, k, e)] # Nil
        /\ fresh' = [fresh EXCEPT !.slot[Probe(fresh.n, k, d)] = k,
                                  !.ctrl[Probe(fresh.n, k, d)] = Fp[k]]

\* The rebuild copies the entries that have a value.
Copy(t) ==
    /\ At(t, "copy") /\ next < Current.n
    /\ next' = next + 1
    /\ IF Kept(next) THEN InsertClone(Current.slot[next]) ELSE UNCHANGED fresh
    /\ UNCHANGED <<tabs, tombs, cnt, gate, th>>
    /\ Watch

\* table.Store and the counters.
Replace(t) ==
    /\ At(t, "copy") /\ next = Current.n
    /\ tabs' = Append(tabs, fresh)
    /\ tombs' = {}
    /\ LET n == IF th[t].op = "clear" THEN 0 ELSE Live IN
        cnt' = [live |-> n, used |-> n, tomb |-> 0]
    /\ Goto(t, "release")
    /\ UNCHANGED <<gate, fresh, next>>
    /\ Watch

Release(t) ==
    /\ At(t, "release")
    /\ gate' = [gate EXCEPT !.owner = Nil]
    /\ AfterResize(t)
    /\ UNCHANGED <<tabs, tombs, cnt, fresh, next>>
    /\ Watch
-------------------------------------------------------------------------------
Step(t) ==
    \/ Start(t) \/ Begin(t) \/ ProbeSlot(t) \/ Insert(t) \/ Retry(t) \/ Publish(t)
    \/ EndWrite(t) \/ Full(t) \/ FindEntry(t) \/ FoundDelete(t) \/ LeaveWrite(t)
    \/ EndLookup(t) \/ ResizeTry(t) \/ ClearTry(t) \/ Drained(t) \/ Copy(t)
    \/ Replace(t) \/ Release(t)

Next ==
    \/ \E t \in Thread : Step(t)
    \/ /\ \A t \in Thread : At(t, "idle") /\ th[t].calls = MaxCalls
       /\ UNCHANGED vars

Spec == Init /\ [][Next]_vars
-------------------------------------------------------------------------------
\* No key has two entries in one table, however insertions of it race.
UniqueKey(T) ==
    \A i, j \in Slots(T.n) : T.slot[i] # Nil /\ T.slot[i] = T.slot[j] => i = j

\* The slots a key's probe passes before its own are all taken.
Unbroken(T) ==
    \A k \in Key, d \in Slots(T.n) :
        T.slot[Probe(T.n, k, d)] = k =>
            \A e \in 0..(d - 1) : T.slot[Probe(T.n, k, e)] # Nil

\* In every table, current, replaced or being filled, keys are unique and
\* probe chains unbroken: a second insertion of a key finds the first.
TablesSound ==
    /\ \A g \in 1..Len(tabs) : UniqueKey(tabs[g]) /\ Unbroken(tabs[g])
    /\ UniqueKey(fresh) /\ Unbroken(fresh)

\* A lookup by control words, on a table that rebuilds may replace under it,
\* misses a key only if at some moment since it began the key was absent from the
\* current table, or some thread was between the CompareAndSwap of a slot and the
\* store of its control word.  A replaced table is no excuse.
LookupNeedsExcuse == \A t \in Thread : At(t, "missed") => exc[t] # {}

\* Once every thread is idle the counters agree with the current table.
CountersExact ==
    (\A t \in Thread : At(t, "idle")) =>
        LET keys == {k \in Key : InTable(Current, k)} IN
        /\ tombs \subseteq keys
        /\ cnt = [live |-> Cardinality(keys \ tombs), used |-> Cardinality(keys),
                  tomb |-> Cardinality(tombs)]
===============================================================================
