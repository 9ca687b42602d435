------------------------------ MODULE EntryState ------------------------------
(***************************************************************************)
(* One key of a Map, as the shard that owns it sees it (map.go,            *)
(* fastcell.go): the slot of the current table that the key probes to, the *)
(* entry in that slot, the value boxes the entry has pointed to, the       *)
(* shard's counters and its write gate.                                    *)
(*                                                                         *)
(* Each element of Call is one call of an exported method on this key, by  *)
(* a goroutine of its own.  A call publishes at most one entry and one     *)
(* box, so the call also names them; Zero names the entry and the box of a *)
(* call that ended before the behaviour starts.                            *)
(*                                                                         *)
(* A step is one access to shared memory, except that these are joined:    *)
(* loading the table with the slot (a replaced table no longer changes);   *)
(* entering the gate with the probe that follows; loading entry.value with *)
(* the clock and the box's limits (a CompareAndSwap on entry.value follows *)
(* wherever it matters, and no box is published twice); a retry loop       *)
(* around one atomic word with its successful round; inside the gate, a    *)
(* CompareAndSwap with the counters that follow it, which are only added   *)
(* to there, so that they commute with every other step (a rebuild, which  *)
(* overwrites them, waits for the writer); and the leaving of the gate, or *)
(* the release of its resize bit, with the step before it, since leaving   *)
(* earlier never stops another call.  Outside the gate the counters have   *)
(* steps of their own.  The other keys of the shard are abstracted away:   *)
(* whether the table has to grow or shrink, and whether a writer of        *)
(* another key moves the state word, are free choices.  The gate is        *)
(* WriteGate, which ResizeGate implements.                                 *)
(***************************************************************************)
EXTENDS Integers, FiniteSets, TLC

CONSTANTS
    Call,       \* the calls
    Zero,       \* the call before them, with its entry and its box
    Nil,        \* the nil pointer, and the absent value
    Dead,       \* &deadMarker
    Value,      \* the values callers store
    TypeOf,     \* their dynamic types: the typ word of the interface
    Bytes,      \* the bytes a cloner reports for each value
    Faulty,     \* the values at which EqualForMap or the cloner may panic
    Workloads,  \* what may happen: [first: the operations of Zero,
                \* ops: those of the calls, now: the time at which they begin,
                \* noClone: whether the map is built without WithValueCloner]
    MaxTime     \* the bound of the clock

ASSUME NamesAssumption ==
    /\ Zero \notin Call
    /\ Nil \notin Call \cup {Zero} \cup Value
    /\ Dead \notin Value \cup {Nil}
ASSUME ClonerAssumption == Bytes \in [Value -> Nat] /\ Faulty \subseteq Value

\* Only the methods with options in their names apply limits.
Methods == {"Load", "Peek", "Has", "Range", "Store", "StoreWithOptions", "Swap", "SwapWithOptions",
            "LoadOrStore", "LoadOrStoreWithOptions", "Delete", "CompareAndDelete",
            "CompareAndSwap", "CompareAndSwapWithOptions", "Clear", "CleanupNow"}
Limiting == {"StoreWithOptions", "SwapWithOptions", "LoadOrStoreWithOptions",
             "CompareAndSwapWithOptions"}
Operations ==
    {o \in [kind : Methods, val : Value \cup {Nil}, old : Value \cup {Nil}, hits : Nat, ttl : Nat] :
        o.kind \in Limiting \/ (o.hits = 0 /\ o.ttl = 0)}
ASSUME WorkloadsAssumption ==
    /\ MaxTime \in Nat
    /\ \A w \in Workloads :
         w.first \cup w.ops \subseteq Operations /\ w.now \in 0..MaxTime /\ w.noClone \in BOOLEAN

VARIABLES
    slot,       \* the key's slot in the current table: an entry or Nil
    ctrl,       \* whether the control word of that slot is set
    value,      \* entry.value of each entry: a box or Nil
    data,       \* valueBox.data of each box
    hits,       \* valueMeta.hits of each box, 0 without a limit
    exp,        \* valueMeta.expiresAt of each box, 0 without a TTL
    cnt,        \* the shard's counters and its needsCleanup flag
    gate,       \* the writers inside, and the owner of the resize bit
    now,        \* the wall clock
    noClone,    \* m.noClone, fixed by New
    op,         \* what each call does
    th,         \* the locals of each call
    gap         \* a call has missed the entry between its slot and its ctrl,
                \* or a Has has found a claimed box

shared == <<slot, ctrl, value, data, hits, exp, cnt, gate>>
config == <<noClone, op>>
vars == <<shared, now, config, th, gap>>

Obj == Call \cup {Zero}

\* The operations: a method, the value it stores, the value it compares with
\* and the EntryOptions it applies.
Plain(kind, v) == [kind |-> kind, val |-> v, old |-> Nil, hits |-> 0, ttl |-> 0]
Limited(kind, v, h, ttl) ==
    [kind |-> kind, val |-> v, old |-> Nil, hits |-> h, ttl |-> ttl]
Compare(kind, v, w) == [kind |-> kind, val |-> w, old |-> v, hits |-> 0, ttl |-> 0]

Kind(t) == op[t].kind
Unlimited == \A b \in Obj : op[b].hits = 0 /\ op[b].ttl = 0
-------------------------------------------------------------------------------
\* valueBox: newValueBox, newSimpleBox and newClonedBox allocate meta only
\* for a limit or for tracked bytes.
BytesOf(b) == IF noClone \/ op[b].val = Nil THEN 0 ELSE Bytes[op[b].val]
HasMeta(b) == op[b].hits > 0 \/ op[b].ttl > 0 \/ BytesOf(b) > 0
IsSimple(b) == ~HasMeta(b)
Typ(b) == TypeOf[op[b].val]
Expired(b) == exp[b] > 0 /\ now >= exp[b]
Depleted(b) == hits[b] < 0
RequiresCleanup(b) == exp[b] > 0 \/ hits[b] # 0
SameShape(b, c) == IsSimple(b) /\ IsSimple(c) /\ Typ(b) = Typ(c)

\* findEntry and the inlined lookups of the methods: they stop at a control
\* word that is 0.  The writers probe the slots themselves.
Found == IF ctrl THEN slot ELSE Nil
MissedInGap == ~ctrl /\ slot # Nil
-------------------------------------------------------------------------------
\* The locals of a call: where it is, the entry, the box and the data word it
\* holds, where it goes after clearIfMatch, what the rebuild has counted, and
\* for the properties whether readEntryConsumeHit has loaded a second box, and
\* the calls that had ended when it began.
Locals ==
    [pc |-> "call", ent |-> Nil, box |-> Nil, word |-> Nil, ok |-> "done",
     bad |-> "done", again |-> FALSE, n |-> 0, by |-> 0, nc |-> FALSE, at |-> 0,
     res |-> [val |-> Nil, ok |-> TRUE], start |-> 0, before |-> {}]

\* A call that is done with its entry keeps its answer and, where limits
\* matter to it, the box it answered from.
Tidy(l) ==
    IF l.pc \notin {"done", "resize", "maybeResize"} THEN l
    ELSE [l EXCEPT !.ent = Nil, !.word = Nil, !.ok = "done", !.bad = "done",
                   !.n = 0, !.by = 0, !.nc = FALSE, !.at = 0,
                   !.box = IF Unlimited THEN Nil ELSE @]

\* The locals with some fields replaced.
With(l, r) == [f \in DOMAIN l |-> IF f \in DOMAIN r THEN r[f] ELSE l[f]]
Set(t, r) == th' = [th EXCEPT ![t] = Tidy(With(@, r))]
Goto(t, l) == Set(t, [pc |-> l])
At(t, l) == th[t].pc = l

Answer(v, b) == [val |-> v, ok |-> b]
Absent == Answer(Nil, FALSE)
Return(t, r) == Set(t, [pc |-> "done", res |-> r])

\* The gate, as WriteGate describes it.
Enter(t) == gate.owner = Nil /\ gate' = [gate EXCEPT !.writers = @ \cup {t}]
Leave(t) == gate' = [gate EXCEPT !.writers = @ \ {t}]

\* endWrite on the paths that return without looking at the table, and
\* endWrite with a resize after it, if the table has grown full or sparse.
LeaveWith(t, r) == Leave(t) /\ Return(t, r)
EndWith(t, r) ==
    /\ Leave(t)
    /\ \E l \in {"done", "resize"} : Set(t, [pc |-> l, res |-> r])

\* Adding to the counters: live, used, tombstones, valueBytes; and setting
\* needsCleanup, which only a rebuild or Clear resets.
Count(dl, du, dt, db, nc) ==
    cnt' = [live |-> cnt.live + dl, used |-> cnt.used + du,
            tomb |-> cnt.tomb + dt, bytes |-> cnt.bytes + db,
            needs |-> cnt.needs \/ nc]

\* CompareAndSwap on entry.value: taken only if the entry still points to b.
PointsTo(t, b) == value[th[t].ent] = b
Point(t, b) == value' = [value EXCEPT ![th[t].ent] = b]
-------------------------------------------------------------------------------
\* clearIfMatch, called where a box is found expired or depleted: by readers
\* too, outside the gate.  The caller goes on at ok or at bad.
ToClear(t, b, good, bad, r) ==
    Set(t, [pc |-> "clear", box |-> b, ok |-> good, bad |-> bad, res |-> r])

ClearIfMatch(t) ==
    /\ At(t, "clear")
    /\ IF PointsTo(t, th[t].box)
       THEN Point(t, Nil) /\ Goto(t, "clearCount")
       ELSE UNCHANGED value /\ Goto(t, th[t].bad)
    /\ UNCHANGED <<slot, ctrl, data, hits, exp, cnt, gate, now, config, gap>>

ClearCount(t) ==
    /\ At(t, "clearCount")
    /\ Count(-1, 0, 1, -BytesOf(th[t].box), TRUE)
    /\ Goto(t, th[t].ok)
    /\ UNCHANGED <<slot, ctrl, value, data, hits, exp, gate, now, config, gap>>

\* A writer that has cleared the entry leaves.
EndWrite(t) ==
    /\ At(t, "end")
    /\ EndWith(t, th[t].res)
    /\ UNCHANGED <<slot, ctrl, value, data, hits, exp, cnt, now, config, gap>>

\* maybeResize, after a read has cleared the entry.
MaybeResize(t) ==
    /\ At(t, "maybeResize")
    /\ \E l \in {"done", "resize"} : Goto(t, l)
    /\ UNCHANGED <<shared, now, config, gap>>
===============================================================================
