------------------------------ MODULE EntryReads ------------------------------
(***************************************************************************)
(* Load (and Get), Peek, Has and the visit of one slot by Range, on the    *)
(* key of EntryState.  No read enters the gate, so a rebuild, Clear and    *)
(* every writer may run between any two of these steps; the entry a read   *)
(* holds may have left the table.                                          *)
(***************************************************************************)
EXTENDS EntryState

Readers == {"Load", "Peek", "Has", "Range"}

\* The lookup by control word.
ReadFind(t) ==
    /\ At(t, "find")
    /\ gap' = (gap \/ MissedInGap)
    /\ IF Found = Nil
       THEN Return(t, Absent)
       ELSE Set(t, [pc |-> IF Kind(t) = "Range" THEN "simple" ELSE "read",
                    ent |-> Found])
    /\ UNCHANGED <<shared, now, config>>

\* entry.loadSimple, which Range tries before readEntry.
RangeSimple(t) ==
    /\ At(t, "simple")
    /\ LET b == value[th[t].ent] IN
        Set(t, [pc |-> IF b # Nil /\ IsSimple(b) THEN "simpleVal" ELSE "read", box |-> b])
    /\ UNCHANGED <<shared, now, config, gap>>

RangeSimpleVal(t) ==
    /\ At(t, "simpleVal")
    /\ LET d == data[th[t].box] IN
        IF d = Dead THEN Goto(t, "read") ELSE Return(t, Answer(d, TRUE))
    /\ UNCHANGED <<shared, now, config, gap>>

\* Has answers from the box alone, be it claimed or not.
HasBox(t, b) ==
    /\ Set(t, [pc |-> "done", box |-> b,
               res |-> Answer(Nil, IsSimple(b) \/ (~Expired(b) /\ ~Depleted(b)))])
    /\ gap' = (gap \/ (IsSimple(b) /\ data[b] = Dead))

\* A box with metadata and no TTL, as Load, Peek and readEntry treat it.
LimitedBox(t, b) ==
    \/ /\ hits[b] > 0 /\ Kind(t) = "Load"
       /\ Set(t, [pc |-> "consume", box |-> b, bad |-> "reload"])
    \/ /\ hits[b] = 0 \/ (hits[b] > 0 /\ Kind(t) # "Load")
       /\ Set(t, [pc |-> "val", box |-> b])
    \/ /\ Depleted(b) /\ Kind(t) = "Peek"
       /\ Return(t, Absent)
    \/ /\ Depleted(b) /\ Kind(t) # "Peek"
       /\ ToClear(t, b, "maybeResize", "done", Absent)

\* The first look at the box: Load, Peek and Has, and readEntry for Range.
ReadBox(t) ==
    /\ At(t, "read")
    /\ LET b == value[th[t].ent] IN
        \/ b # Nil /\ Kind(t) = "Has" /\ HasBox(t, b)
        \/ /\ \/ b = Nil /\ Return(t, Absent)
              \/ b # Nil /\ Kind(t) # "Has" /\ IsSimple(b) /\ Set(t, [pc |-> "val", box |-> b])
              \/ b # Nil /\ Kind(t) # "Has" /\ HasMeta(b) /\ exp[b] = 0 /\ LimitedBox(t, b)
              \/ b # Nil /\ Kind(t) # "Has" /\ exp[b] > 0 /\ Goto(t, "slow")
           /\ UNCHANGED gap
    /\ UNCHANGED <<shared, now, config>>

\* liveVal: a claimed box reads as absent.
ReadVal(t) ==
    /\ At(t, "val")
    /\ LET d == data[th[t].box] IN
        Return(t, IF d = Dead THEN Absent ELSE Answer(d, TRUE))
    /\ UNCHANGED <<shared, now, config, gap>>

\* Mutant: the last hit leaves 0, which means no limit, instead of -1.
NextHitsZero(h) == h - 1

\* consumeHit: the last hit leaves -1, so that 0 keeps meaning "no limit".
NextHits(h) == IF h = 1 THEN -1 ELSE h - 1

\* consumeHit with what its two callers do next.  A box without meta has no
\* hit counter to load: the goroutine panics.
ConsumeHit(t) ==
    /\ At(t, "consume")
    /\ LET b == th[t].box
           got == Answer(data[b], TRUE) IN
        \/ IsSimple(b) /\ Goto(t, "panic") /\ UNCHANGED hits
        \/ HasMeta(b) /\ hits[b] = 0 /\ Return(t, got) /\ UNCHANGED hits
        \/ /\ hits[b] > 0
           /\ hits' = [hits EXCEPT ![b] = NextHits(@)]
           /\ IF NextHits(hits[b]) < 0
              THEN ToClear(t, b, "maybeResize", "maybeResize", got)
              ELSE Return(t, got)
        \/ /\ Depleted(b)
           /\ ToClear(t, b, "maybeResize", th[t].bad, Absent)
           /\ UNCHANGED hits
    /\ UNCHANGED <<slot, ctrl, value, data, exp, cnt, gate, now, config, gap>>

\* readEntryConsumeHit lost the race to clear: it takes whatever box is there,
\* with no look at its limits.
ConsumeReload(t) ==
    /\ At(t, "reload")
    /\ LET b == value[th[t].ent] IN
        IF b = Nil THEN Return(t, Absent)
        ELSE Set(t, [pc |-> "consume", box |-> b, again |-> TRUE])
    /\ UNCHANGED <<shared, now, config, gap>>

\* Mutant: readEntrySlow that does not look at the clock.
ReadSlowStale(t) ==
    /\ At(t, "slow")
    /\ LET b == value[th[t].ent] IN
        \/ b = Nil /\ Return(t, Absent)
        \/ b # Nil /\ Set(t, [pc |-> "val", box |-> b])
    /\ UNCHANGED <<shared, now, config, gap>>

\* One round of readEntrySlow, the loop for boxes with a TTL.
ReadSlow(t) ==
    /\ At(t, "slow")
    /\ LET b == value[th[t].ent] IN
        \/ b = Nil /\ Return(t, Absent)
        \/ /\ b # Nil /\ ~Expired(b) /\ Kind(t) = "Load" /\ HasMeta(b)
           /\ Set(t, [pc |-> "consume", box |-> b, bad |-> "slow"])
        \/ /\ b # Nil /\ ~Expired(b) /\ ~Depleted(b) /\ (IsSimple(b) \/ Kind(t) # "Load")
           /\ Set(t, [pc |-> "val", box |-> b])
        \/ /\ b # Nil /\ (Expired(b) \/ (Depleted(b) /\ Kind(t) # "Load"))
           /\ ToClear(t, b, "maybeResize", "slow", Absent)
    /\ UNCHANGED <<shared, now, config, gap>>

ReadStep(t) ==
    \/ ReadFind(t) \/ RangeSimple(t) \/ RangeSimpleVal(t) \/ ReadBox(t)
    \/ ReadVal(t) \/ ConsumeHit(t) \/ ConsumeReload(t) \/ ReadSlow(t)
===============================================================================
