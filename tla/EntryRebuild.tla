------------------------------ MODULE EntryRebuild ------------------------------
(***************************************************************************)
(* resizeAt, from a write or a read that found the table full or sparse    *)
(* and from CleanupNow, and Clear, as they treat the key of EntryState.    *)
(* The gate keeps the writers out while a rebuild runs; it does not keep   *)
(* out the reads that clear an entry, nor the stores outside the gate.     *)
(***************************************************************************)
EXTENDS EntryState

\* cleanup skips a shard with nothing to collect.
CleanupStart(t) ==
    /\ At(t, "cleanup")
    /\ \/ Goto(t, "resize")
       \/ ~cnt.needs /\ cnt.tomb = 0 /\ Goto(t, "done")
    /\ UNCHANGED <<shared, now, config, gap>>

\* resizeAt gives up when the bit is set, or when the word moved under its
\* CompareAndSwap, which a writer of any key of the shard can cause.
\* CleanupNow passes the time at which it began, a resize the time at which
\* it is called.
ResizeTry(t) ==
    /\ At(t, "resize")
    /\ \/ Goto(t, "done") /\ UNCHANGED gate
       \/ /\ gate.owner = Nil
          /\ gate' = [gate EXCEPT !.owner = t]
          /\ Set(t, [pc |-> "drain",
                     at |-> IF Kind(t) = "CleanupNow" THEN th[t].start ELSE now])
    /\ UNCHANGED <<slot, ctrl, value, data, hits, exp, cnt, now, config, gap>>

Release == gate' = [gate EXCEPT !.owner = Nil]

\* What a pass over the table does with the entry: drop it when it has no
\* box, when its box had expired at the time given, or when it is depleted.
Kept(t, b) == b # Nil /\ ~(exp[b] > 0 /\ th[t].at >= exp[b]) /\ ~Depleted(b)
InSlot == IF slot = Nil THEN Nil ELSE value[slot]

\* The writers are gone.  A resize that is no longer needed stops here; the
\* others make the first pass, which counts.
Drained(t) ==
    /\ At(t, "drain")
    /\ gate.writers = {}
    /\ \/ Kind(t) # "CleanupNow" /\ Release /\ Goto(t, "done")
       \/ /\ LET kept == Kept(t, InSlot) IN
                Set(t, [pc |-> "rebuild", n |-> IF kept THEN 1 ELSE 0,
                        by |-> IF kept THEN BytesOf(InSlot) ELSE 0,
                        nc |-> InSlot # Nil /\ RequiresCleanup(InSlot)])
          /\ UNCHANGED gate
    /\ UNCHANGED <<slot, ctrl, value, data, hits, exp, cnt, now, config, gap>>

\* The second pass, which copies the entry itself, and table.Store.
Rebuild(t) ==
    /\ At(t, "rebuild")
    /\ LET kept == Kept(t, InSlot) IN
        slot' = (IF kept THEN slot ELSE Nil) /\ ctrl' = kept
    /\ Goto(t, "rebuildCount")
    /\ UNCHANGED <<value, data, hits, exp, cnt, gate, now, config, gap>>

\* The counters are overwritten with what the first pass counted.
RebuildCount(t) ==
    /\ At(t, "rebuildCount")
    /\ cnt' = [live |-> th[t].n, used |-> th[t].n, tomb |-> 0,
               bytes |-> th[t].by, needs |-> th[t].nc]
    /\ Release /\ Goto(t, "done")
    /\ UNCHANGED <<slot, ctrl, value, data, hits, exp, now, config, gap>>
-------------------------------------------------------------------------------
\* Clear retries until the bit is its own, waits for the writers, and then
\* installs an empty table.
ClearAcquire(t) ==
    /\ At(t, "clearAll")
    /\ gate.owner = Nil
    /\ gate' = [gate EXCEPT !.owner = t]
    /\ Goto(t, "clearDrain")
    /\ UNCHANGED <<slot, ctrl, value, data, hits, exp, cnt, now, config, gap>>

\* Mutant: the new table keeps the control words of the old one.
ClearTableKeepsCtrl(t) ==
    /\ At(t, "clearDrain")
    /\ gate.writers = {}
    /\ slot' = Nil
    /\ Set(t, [pc |-> "rebuildCount", n |-> 0, by |-> 0, nc |-> FALSE])
    /\ UNCHANGED <<ctrl, value, data, hits, exp, cnt, gate, now, config, gap>>

ClearTable(t) ==
    /\ At(t, "clearDrain")
    /\ gate.writers = {}
    /\ slot' = Nil /\ ctrl' = FALSE
    /\ Set(t, [pc |-> "rebuildCount", n |-> 0, by |-> 0, nc |-> FALSE])
    /\ UNCHANGED <<value, data, hits, exp, cnt, gate, now, config, gap>>

RebuildStep(t) ==
    \/ CleanupStart(t) \/ ResizeTry(t) \/ Drained(t) \/ Rebuild(t) \/ RebuildCount(t)
    \/ ClearAcquire(t) \/ ClearTable(t)
===============================================================================
