------------------------------- MODULE ShardKey -------------------------------
(***************************************************************************)
(* All methods of Map on one key, called concurrently: EntryReads,         *)
(* EntryWrites and EntryRebuild on the state of EntryState, with the wall  *)
(* clock.  The properties say what the documentation of Map says of its    *)
(* methods, for every interleaving of the calls.                           *)
(***************************************************************************)
EXTENDS EntryReads, EntryWrites, EntryRebuild, SequencesExt

\* Zero has left the map empty, left a tombstone, or left its value there.
FirstLeaves(k) ==
    /\ slot = IF k = "Clear" THEN Nil ELSE Zero
    /\ ctrl = (k # "Clear")
    /\ value = [e \in Obj |-> IF e = Zero /\ k \notin {"Clear", "Delete"} THEN Zero ELSE Nil]
    /\ cnt = [live |-> IF k \in {"Clear", "Delete"} THEN 0 ELSE 1,
              used |-> IF k = "Clear" THEN 0 ELSE 1,
              tomb |-> IF k = "Delete" THEN 1 ELSE 0,
              bytes |-> IF k \in {"Clear", "Delete"} THEN 0 ELSE BytesOf(Zero),
              needs |-> k = "Delete" \/ op[Zero].hits > 0 \/ op[Zero].ttl > 0]

Init ==
    /\ \E w \in Workloads :
        /\ op \in {[b \in Obj |-> IF b = Zero THEN o ELSE f[b]] : o \in w.first, f \in [Call -> w.ops]}
        /\ now = w.now
        /\ noClone = w.noClone
    /\ data = [b \in Obj |-> op[b].val]
    /\ hits = [b \in Obj |-> op[b].hits]
    /\ exp = [b \in Obj |-> IF b = Zero THEN op[b].ttl ELSE 0]
    /\ FirstLeaves(Kind(Zero))
    /\ gate = [writers |-> {}, owner |-> Nil]
    /\ th = [t \in Call |-> Locals]
    /\ gap = FALSE

\* Where each method starts.
Starts == [
    Load |-> "find", Peek |-> "find", Has |-> "find", Range |-> "find",
    Store |-> IF noClone THEN "fast" ELSE "find2",
    Swap |-> IF noClone THEN "fast" ELSE "put",
    StoreWithOptions |-> "put", SwapWithOptions |-> "put",
    LoadOrStore |-> "los1", LoadOrStoreWithOptions |-> "los2",
    Delete |-> "gateFind", CompareAndDelete |-> "gateFind",
    CompareAndSwap |-> "preFind", CompareAndSwapWithOptions |-> "gateFind",
    Clear |-> "clearAll", CleanupNow |-> "cleanup"]

\* A call begins.  newValueBox starts the TTL here, except in loadOrStoreSlow.
Invoke(t) ==
    /\ At(t, "call")
    /\ Set(t, [pc |-> Starts[Kind(t)], start |-> now,
               before |-> {u \in Call : Unlimited /\ At(u, "done")}])
    /\ exp' = [exp EXCEPT ![t] =
        IF op[t].ttl > 0 /\ Kind(t) \notin LoadOrStores THEN now + op[t].ttl ELSE 0]
    /\ UNCHANGED <<slot, ctrl, value, data, hits, cnt, gate, now, config, gap>>

Step(t) ==
    \/ ClearIfMatch(t) \/ ClearCount(t) \/ EndWrite(t) \/ MaybeResize(t)
    \/ ReadStep(t) \/ WriteStep(t) \/ RebuildStep(t)

Tick ==
    /\ now < MaxTime
    /\ now' = now + 1
    /\ UNCHANGED <<shared, config, th, gap>>

AllDone == \A t \in Call : At(t, "done")

\* A call that has unwound inside the gate is waited for by whoever owns the
\* resize bit, and the owner by the writers.
Blocked(t) ==
    /\ \E u \in gate.writers : At(u, "panic")
    /\ \/ th[t].pc \in {"drain", "clearDrain"}
       \/ /\ th[t].pc \in {"put", "gateFind", "clearAll"} /\ gate.owner # Nil
          /\ th[gate.owner].pc \in {"drain", "clearDrain"}
Quiescent == \A t \in Call : th[t].pc \in {"done", "panic"} \/ Blocked(t)

\* The calls have all ended, or wait for one that has unwound in the gate.
Finished == Quiescent /\ UNCHANGED vars

Next == (\E t \in Call : Invoke(t) \/ Step(t)) \/ Tick \/ Finished

Spec == Init /\ [][Next]_vars

\* A goroutine inside a call keeps running; none need begin one.
FairSpec == Spec /\ \A t \in Call : WF_vars(Step(t))
-------------------------------------------------------------------------------
TypeOK ==
    /\ slot \in Obj \cup {Nil} /\ ctrl \in BOOLEAN
    /\ value \in [Obj -> Obj \cup {Nil}]
    /\ data \in [Obj -> Value \cup {Dead, Nil}]
    /\ hits \in [Obj -> Int] /\ exp \in [Obj -> Nat]
    /\ gate.writers \subseteq Call /\ gate.owner \in Call \cup {Nil}
    /\ now \in 0..MaxTime
    /\ ctrl => slot # Nil

\* The value a lookup would find: Nil when the key is absent.
Content ==
    IF InSlot = Nil THEN Nil
    ELSE IF data[InSlot] = Dead \/ Depleted(InSlot) THEN Nil ELSE data[InSlot]

\* What each method promises, one call at a time, on values without limits:
\* the content it leaves and the answer it gives.
After(o, v) ==
    CASE o.kind \in {"Store", "Swap"} -> o.val
      [] o.kind = "LoadOrStore" -> IF v = Nil THEN o.val ELSE v
      [] o.kind = "CompareAndSwap" -> IF v = o.old THEN o.val ELSE v
      [] o.kind = "CompareAndDelete" -> IF v = o.old THEN Nil ELSE v
      [] o.kind \in {"Delete", "Clear"} -> Nil
      [] o.kind \in Readers \cup {"CleanupNow"} -> v

Answers(o, v) ==
    CASE o.kind \in {"Store", "Clear", "CleanupNow"} -> Answer(Nil, TRUE)
      [] o.kind \in {"Load", "Peek", "Range", "Delete", "Swap"} -> Answer(v, v # Nil)
      [] o.kind = "Has" -> Answer(Nil, v # Nil)
      [] o.kind = "LoadOrStore" -> Answer(IF v = Nil THEN o.val ELSE v, v # Nil)
      [] o.kind \in {"CompareAndSwap", "CompareAndDelete"} -> Answer(Nil, v = o.old)

\* The content before Zero's successors.
First == IF Kind(Zero) \in {"Clear", "Delete"} THEN Nil ELSE op[Zero].val

\* The calls could have run one after the other, in an order that respects
\* which ended before which began, with the same answers and final content.
Explains(order) ==
    LET n == Len(order)
        content[i \in 0..n] ==
            IF i = 0 THEN First ELSE After(op[order[i]], content[i - 1]) IN
    /\ \A i, j \in 1..n : order[i] \in th[order[j]].before => i < j
    /\ \A i \in 1..n : th[order[i]].res = Answers(op[order[i]], content[i - 1])
    /\ content[n] = Content

\* Every method of Map is atomic: the answers of concurrent calls on values
\* without limits are those of some sequential order of them.  A call that
\* unwinds, or that others keep out of the gate, has no effect; one that hangs
\* in the resize after its write has it.
Linearizable ==
    Unlimited /\ Quiescent =>
        \E order \in SetToSeqs({t \in Call : th[t].pc \in {"done", "drain"}}) : Explains(order)

\* The same, when no lookup missed the entry between the CompareAndSwap of
\* its slot and the store of its control word, and no Has found a box that a
\* removal had claimed: Has alone does not look at the data word.
LinearizableOutsideGap == gap \/ Linearizable

\* What a call leaves of the content v it comes upon; a CompareAndSwap that has
\* answered true leaves its value.
Leaves(t, v) ==
    IF Kind(t) # "CompareAndSwap" THEN After(op[t], v)
    ELSE IF th[t].res.ok THEN op[t].val ELSE v

\* From place p to place q of an order the key kept one box: its data word may
\* have been replaced by values of its type, and then claimed.
OneBox(content, p, q) ==
    /\ \A i \in p..(q - 1) : content[i] = Nil => content[i + 1] = Nil
    /\ \A i \in p..q : content[i] # Nil => TypeOf[content[i]] = TypeOf[content[p]]

\* The same as Explains, but a Swap that answers a value, and a CompareAndSwap
\* that answers true, may do so for an older content, of a moment since the
\* call began, if the key has kept the box since.
ExplainsByBox(order) ==
    LET n == Len(order)
        content[i \in 0..n] == IF i = 0 THEN First ELSE Leaves(order[i], content[i - 1])
        MayLookBack(t, p, q) ==
            /\ Kind(t) \in {"Swap", "CompareAndSwap"} /\ th[t].res.ok
            /\ \A i \in 1..n : order[i] \in th[t].before => i <= p
            /\ OneBox(content, p, q) IN
    /\ \A i, j \in 1..n : order[i] \in th[order[j]].before => i < j
    /\ \A j \in 1..n : \E p \in 0..(j - 1) :
         /\ p = j - 1 \/ MayLookBack(order[j], p, j - 1)
         /\ th[order[j]].res = Answers(op[order[j]], content[p])
    /\ content[n] = Content

\* What is left of atomicity on every workload without limits, also where a
\* Swap or a CompareAndSwap looks at the data word and replaces the pointer
\* (replaceOrRevive, compareAndSwap): the one thing that can come in between
\* is a change of that word, never another replacement of the box, and nobody
\* else's answer and not the final content suffer from it.
LinearizableByBox ==
    Unlimited /\ Quiescent /\ ~gap =>
        \E order \in SetToSeqs({t \in Call : th[t].pc \in {"done", "drain"}}) :
            ExplainsByBox(order)

\* Once no call is in progress the counters behind Len and Stats agree with
\* the table, whatever rebuilds and Clears overwrote them in between, as long
\* as no entry has a limit.
CountersExact ==
    Unlimited /\ Quiescent =>
        /\ cnt.live = IF InSlot # Nil THEN 1 ELSE 0
        /\ cnt.used = IF slot # Nil THEN 1 ELSE 0
        /\ cnt.tomb = cnt.used - cnt.live
-------------------------------------------------------------------------------
\* A box stored with a hit limit is answered to at most that many Loads,
\* whatever races for its last hit (EntryOptions.Hits, StoreWithHits).
HitBudget ==
    \A b \in Obj : op[b].hits > 0 =>
        Cardinality({t \in Call : /\ Kind(t) = "Load" /\ At(t, "done")
                                  /\ th[t].res.ok /\ th[t].box = b}) <= op[b].hits

\* No method answers from a box that had expired before the call began: not
\* as a read, a removal, a previous value or a successful comparison.  The
\* exception is a Load of a hit-limited box that is replaced under it: the
\* loop of readEntryConsumeHit takes the box it finds then and does not look
\* at its TTL.
NoExpiredAnswer ==
    \A t \in Call : LET b == th[t].box IN
        /\ At(t, "done") /\ th[t].res.ok /\ b # Nil /\ ~th[t].again
        /\ Kind(t) \notin {"Store", "StoreWithOptions"} /\ exp[b] > 0
        => th[t].start < exp[b]

\* An entry that can expire or run out of hits is never forgotten by the
\* cleaner: needsCleanup is set, so cleanup does not skip its shard, however
\* rebuilds that reset the flag interleave with the writers that set it.
CleanupNotForgotten ==
    AllDone /\ InSlot # Nil /\ RequiresCleanup(InSlot) => cnt.needs

\* Len is never negative; Snapshot allocates with it as a capacity.
LenNotNegative == cnt.live >= 0

\* consumeHit "is only called for boxes that carry hit metadata, so b.meta
\* is non-nil" (its comment).
ConsumeHitHasMeta == \A t \in Call : At(t, "consume") => HasMeta(th[t].box)

\* Once Store has returned the key is present, unless another call removed
\* it or limited its life.
StoreStays ==
    /\ AllDone
    /\ \E t \in Call : Kind(t) = "Store"
    /\ \A t \in Call : Kind(t) \in Readers \cup {"Store", "LoadOrStore", "CleanupNow"}
    => Content # Nil

\* Every call returns: the retry loops, the waits for the resize bit and the
\* waits for writers all end once the other calls take their steps, unless a
\* call has unwound inside the gate.
CallsReturn ==
    \A t \in Call : ~At(t, "call") ~> th[t].pc \in {"done", "panic"} \/ Blocked(t)
===============================================================================
