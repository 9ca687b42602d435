------------------------------ MODULE EntryWrites ------------------------------
(***************************************************************************)
(* The writing methods on the key of EntryState: Store with its two        *)
(* lookups outside the gate, StoreWithOptions, Swap, LoadOrStore, Delete,  *)
(* CompareAndSwap and CompareAndDelete, down to insertFresh,               *)
(* storeNewBundle, replaceOrRevive and loadOrStoreCurrent.                 *)
(***************************************************************************)
EXTENDS EntryState

Swaps == {"Swap", "SwapWithOptions"}
LoadOrStores == {"LoadOrStore", "LoadOrStoreWithOptions"}
Removals == {"Delete", "CompareAndDelete"}

-------------------------------------------------------------------------------
\* Store and Swap of a map without a cloner first look for a live simple box
\* of the same type, to replace its data word in place.
AfterFast(t) == IF Kind(t) = "Store" THEN "find2" ELSE "put"

FastFind(t) ==
    /\ At(t, "fast")
    /\ IF Found = Nil THEN Goto(t, AfterFast(t))
       ELSE Set(t, [pc |-> "fastBox", ent |-> Found])
    /\ UNCHANGED <<shared, now, config, gap>>

FastBox(t) ==
    /\ At(t, "fastBox")
    /\ LET b == value[th[t].ent] IN
        IF b # Nil /\ SameShape(b, t)
        THEN Set(t, [pc |-> "swapData", box |-> b])
        ELSE Goto(t, AfterFast(t))
    /\ UNCHANGED <<shared, now, config, gap>>

\* Mutant: a plain store of the data word, which revives a claimed box.
SwapDataBlind(t) ==
    /\ At(t, "swapData")
    /\ data' = [data EXCEPT ![th[t].box] = op[t].val]
    /\ Return(t, Answer(IF Kind(t) = "Swap" THEN data[th[t].box] ELSE Nil, TRUE))
    /\ UNCHANGED <<slot, ctrl, value, hits, exp, cnt, gate, now, config, gap>>

\* swapData: nothing is published into a claimed box.
SwapData(t) ==
    /\ At(t, "swapData")
    /\ LET b == th[t].box IN
        IF data[b] = Dead
        THEN Goto(t, AfterFast(t)) /\ UNCHANGED data
        ELSE /\ data' = [data EXCEPT ![b] = op[t].val]
             /\ Return(t, Answer(IF Kind(t) = "Swap" THEN data[b] ELSE Nil, TRUE))
    /\ UNCHANGED <<slot, ctrl, value, hits, exp, cnt, gate, now, config, gap>>

\* Store's second lookup: replace the whole box, still outside the gate.
InlineFind(t) ==
    /\ At(t, "find2")
    /\ IF Found = Nil THEN Goto(t, "put")
       ELSE Set(t, [pc |-> "inlineBox", ent |-> Found])
    /\ UNCHANGED <<shared, now, config, gap>>

InlineBox(t) ==
    /\ At(t, "inlineBox")
    /\ LET b == value[th[t].ent] IN
        IF b # Nil /\ exp[b] = 0 /\ ~Depleted(b)
        THEN Set(t, [pc |-> "inlineCAS", box |-> b])
        ELSE Goto(t, "put")
    /\ UNCHANGED <<shared, now, config, gap>>

InlineCAS(t) ==
    /\ At(t, "inlineCAS")
    /\ IF PointsTo(t, th[t].box)
       THEN Point(t, t) /\ Goto(t, "inlineCount")
       ELSE UNCHANGED value /\ Goto(t, "put")
    /\ UNCHANGED <<slot, ctrl, data, hits, exp, cnt, gate, now, config, gap>>

InlineCount(t) ==
    /\ At(t, "inlineCount")
    /\ Count(0, 0, 0, BytesOf(t) - BytesOf(th[t].box), FALSE)
    /\ Goto(t, "done")
    /\ UNCHANGED <<slot, ctrl, value, data, hits, exp, gate, now, config, gap>>
-------------------------------------------------------------------------------
\* store, storeNewBundle, swap and loadOrStoreSlow: enter the gate and probe
\* the slots, not the control words.
PutProbe(t) ==
    /\ At(t, "put")
    /\ Enter(t)
    /\ IF slot = Nil THEN Goto(t, "insert")
       ELSE Set(t, [pc |-> IF Kind(t) \in LoadOrStores THEN "scan" ELSE "replace",
                    ent |-> slot])
    /\ UNCHANGED <<slot, ctrl, value, data, hits, exp, cnt, now, config, gap>>

\* loadOrStoreSlow builds its box, and starts its TTL, only when it needs it.
NewBox(t) == exp' = [exp EXCEPT ![t] =
    IF Kind(t) \in LoadOrStores /\ op[t].ttl > 0 THEN now + op[t].ttl ELSE @]

\* The CompareAndSwap of the slot in insertFresh, storeNewBundle and
\* loadOrStoreSlow; whoever loses it leaves the gate and starts again.
Insert(t) ==
    /\ At(t, "insert")
    /\ NewBox(t)
    /\ IF slot = Nil
       THEN slot' = t /\ value' = [value EXCEPT ![t] = t] /\ Goto(t, "publish") /\ UNCHANGED gate
       ELSE UNCHANGED <<slot, value>> /\ Leave(t) /\ Goto(t, "put")
    /\ UNCHANGED <<ctrl, data, hits, cnt, now, config, gap>>

\* What a call answers when it stored its value into an absent key.
Stored(t) ==
    IF Kind(t) \in LoadOrStores THEN Answer(op[t].val, FALSE)
    ELSE Answer(Nil, Kind(t) \notin Swaps)

\* Mutant: an insertion that forgets to set needsCleanup.
PublishNoFlag(t) ==
    /\ At(t, "publish")
    /\ ctrl' = TRUE
    /\ Count(1, 1, 0, BytesOf(t), FALSE)
    /\ EndWith(t, Stored(t))
    /\ UNCHANGED <<slot, value, data, hits, exp, now, config, gap>>

\* ctrlStore: only now do the lookups find the entry.
Publish(t) ==
    /\ At(t, "publish")
    /\ ctrl' = TRUE
    /\ Count(1, 1, 0, BytesOf(t), RequiresCleanup(t))
    /\ EndWith(t, Stored(t))
    /\ UNCHANGED <<slot, value, data, hits, exp, now, config, gap>>
-------------------------------------------------------------------------------
\* One round of replaceOrRevive.  The previous value is read here and the box
\* replaced later.
ReplaceOrRevive(t) ==
    /\ At(t, "replace")
    /\ LET b == value[th[t].ent] IN
        \/ b = Nil /\ Goto(t, "revive")
        \/ /\ b # Nil /\ (Expired(b) \/ Depleted(b))
           /\ ToClear(t, b, "replace", "replace", th[t].res)
        \/ /\ b # Nil /\ ~Expired(b) /\ ~Depleted(b)
           /\ Set(t, [pc |-> "replaceCAS", box |-> b, word |-> data[b]])
    /\ UNCHANGED <<shared, now, config, gap>>

\* Where replaceOrRevive and loadOrStoreCurrent go on after a lost race.
Again(t) == IF Kind(t) \in LoadOrStores THEN "current" ELSE "replace"

\* Mutant: a revival that leaves the tombstone counted.
ReviveKeepsTombstone(t) ==
    /\ At(t, "revive")
    /\ IF PointsTo(t, Nil)
       THEN Point(t, t) /\ Count(1, 0, 0, BytesOf(t), RequiresCleanup(t)) /\ EndWith(t, Stored(t))
       ELSE UNCHANGED <<value, cnt, gate>> /\ Goto(t, Again(t))
    /\ UNCHANGED <<slot, ctrl, data, hits, exp, now, config, gap>>

Revive(t) ==
    /\ At(t, "revive")
    /\ IF PointsTo(t, Nil)
       THEN Point(t, t) /\ Count(1, 0, -1, BytesOf(t), RequiresCleanup(t)) /\ EndWith(t, Stored(t))
       ELSE UNCHANGED <<value, cnt, gate>> /\ Goto(t, Again(t))
    /\ UNCHANGED <<slot, ctrl, data, hits, exp, now, config, gap>>

\* What a call answers when it replaced a box: a Swap the value it had read,
\* unless the box was claimed.
Replaced(t) ==
    IF Kind(t) \in Swaps /\ th[t].word # Dead THEN Answer(th[t].word, TRUE)
    ELSE IF Kind(t) = "CompareAndSwap" \/ Kind(t) = "CompareAndSwapWithOptions"
    THEN Answer(Nil, TRUE)
    ELSE Stored(t)

\* The CompareAndSwap from the box that was looked at to the call's own; a
\* call that loses it looks again.
ReplaceBox(t, again) ==
    /\ IF PointsTo(t, th[t].box)
       THEN /\ Point(t, t)
            /\ Count(0, 0, 0, BytesOf(t) - BytesOf(th[t].box), RequiresCleanup(t))
            /\ EndWith(t, Replaced(t))
       ELSE UNCHANGED <<value, cnt, gate>> /\ Goto(t, again)
    /\ UNCHANGED <<slot, ctrl, data, hits, exp, now, config, gap>>

\* Mutant: a lost race is retried with the box that was loaded before it.
ReplaceCASNoReload(t) == At(t, "replaceCAS") /\ ReplaceBox(t, "replaceCAS")

\* Mutant: the new box is stored, not compared and swapped.
ReplaceCASBlind(t) ==
    /\ At(t, "replaceCAS")
    /\ Point(t, t)
    /\ Count(0, 0, 0, BytesOf(t) - BytesOf(th[t].box), RequiresCleanup(t))
    /\ EndWith(t, Replaced(t))
    /\ UNCHANGED <<slot, ctrl, data, hits, exp, now, config, gap>>

ReplaceCAS(t) == At(t, "replaceCAS") /\ ReplaceBox(t, Again(t))
-------------------------------------------------------------------------------
\* LoadOrStore looks for a plain live value before it enters the gate, once
\* itself ("los1") and once in loadOrStoreDeferred ("los2").
AfterLookup(t) == IF th[t].ok = "los1" THEN "los2" ELSE "put"

LookupFind(t) ==
    /\ th[t].pc \in {"los1", "los2"}
    /\ IF Found = Nil
       THEN Goto(t, IF At(t, "los1") THEN "los2" ELSE "put")
       ELSE Set(t, [pc |-> "losBox", ent |-> Found, ok |-> th[t].pc])
    /\ UNCHANGED <<shared, now, config, gap>>

LookupBox(t) ==
    /\ At(t, "losBox")
    /\ LET b == value[th[t].ent] IN
        IF b # Nil /\ exp[b] = 0 /\ hits[b] = 0
        THEN Set(t, [pc |-> "losVal", box |-> b])
        ELSE Goto(t, AfterLookup(t))
    /\ UNCHANGED <<shared, now, config, gap>>

LookupVal(t) ==
    /\ At(t, "losVal")
    /\ LET d == data[th[t].box] IN
        IF d = Dead THEN Goto(t, AfterLookup(t)) ELSE Return(t, Answer(d, TRUE))
    /\ UNCHANGED <<shared, now, config, gap>>

\* The scan of the entry in loadOrStoreSlow ("scan") and, once the new box is
\* built, in loadOrStoreCurrent ("current").
Scan(t) ==
    /\ th[t].pc \in {"scan", "current"}
    /\ LET b == value[th[t].ent]
           first == At(t, "scan")
           miss == IF first THEN "build" ELSE "revive" IN
        \/ b = Nil /\ Goto(t, miss)
        \/ /\ b # Nil /\ (Expired(b) \/ Depleted(b))
           /\ ToClear(t, b, IF first THEN "build" ELSE "current", th[t].pc, th[t].res)
        \/ /\ b # Nil /\ ~Expired(b) /\ ~Depleted(b)
           /\ Set(t, [pc |-> "scanVal", box |-> b,
                      ok |-> IF first THEN "build" ELSE "replaceCAS"])
    /\ UNCHANGED <<shared, now, config, gap>>

\* A live value is answered; a claimed box is replaced like an absent one.
ScanVal(t) ==
    /\ At(t, "scanVal")
    /\ LET d == data[th[t].box] IN
        IF d = Dead THEN Goto(t, th[t].ok) /\ UNCHANGED gate
        ELSE LeaveWith(t, Answer(d, TRUE))
    /\ UNCHANGED <<slot, ctrl, value, data, hits, exp, cnt, now, config, gap>>

BuildBox(t) ==
    /\ At(t, "build")
    /\ NewBox(t)
    /\ Goto(t, "current")
    /\ UNCHANGED <<slot, ctrl, value, data, hits, cnt, gate, now, config, gap>>
-------------------------------------------------------------------------------
\* delete and compareAndDelete, and compareAndSwap: enter the gate and find
\* the entry by control word.
GateFind(t) ==
    /\ At(t, "gateFind")
    /\ gap' = (gap \/ MissedInGap)
    /\ IF Found = Nil
       THEN gate.owner = Nil /\ LeaveWith(t, Absent)
       ELSE Enter(t) /\ Set(t, [pc |-> "match", ent |-> Found])
    /\ UNCHANGED <<slot, ctrl, value, data, hits, exp, cnt, now, config>>

\* One round of the loops of delete, compareAndDelete and compareAndSwap.
\* delete claims a simple box without looking at its value.
MatchBox(t) ==
    /\ At(t, "match")
    /\ LET b == value[th[t].ent] IN
        \/ b = Nil /\ LeaveWith(t, Absent)
        \/ /\ b # Nil /\ (Expired(b) \/ Depleted(b))
           /\ ToClear(t, b, "end", "match", Absent)
           /\ UNCHANGED gate
        \/ /\ b # Nil /\ ~Expired(b) /\ ~Depleted(b)
           /\ Set(t, [box |-> b, pc |-> IF Kind(t) = "Delete" /\ IsSimple(b)
                                        THEN "claim" ELSE "matchVal"])
           /\ UNCHANGED gate
    /\ UNCHANGED <<slot, ctrl, value, data, hits, exp, cnt, now, config, gap>>

\* liveData and the comparison; the data word is kept for the step after.
MatchVal(t) ==
    /\ At(t, "matchVal")
    /\ LET b == th[t].box
           d == data[b]
           next == IF Kind(t) \in Removals
                   THEN IF IsSimple(b) THEN "claim" ELSE "unlink"
                   ELSE IF SameShape(b, t) THEN "replaceData" ELSE "casBox" IN
        IF d = Dead \/ (Kind(t) # "Delete" /\ d # op[t].old)
        THEN LeaveWith(t, Absent)
        ELSE Set(t, [pc |-> next, word |-> d]) /\ UNCHANGED gate
    /\ UNCHANGED <<slot, ctrl, value, data, hits, exp, cnt, now, config, gap>>

\* claim takes any live word; claimData only the word that was compared.
Claim(t) ==
    /\ At(t, "claim")
    /\ LET b == th[t].box
           mine == IF Kind(t) = "Delete" THEN data[b] # Dead ELSE data[b] = th[t].word IN
        \/ /\ mine
           /\ data' = [data EXCEPT ![b] = Dead]
           /\ Set(t, [pc |-> "unlink", word |-> data[b]])
           /\ UNCHANGED gate
        \/ /\ ~mine /\ Kind(t) = "Delete"
           /\ LeaveWith(t, Absent)
           /\ UNCHANGED data
        \/ /\ ~mine /\ Kind(t) # "Delete"
           /\ Goto(t, "match")
           /\ UNCHANGED <<data, gate>>
    /\ UNCHANGED <<slot, ctrl, value, hits, exp, cnt, now, config, gap>>

\* The entry loses its box.  A claimed box was removed by its claim, whoever
\* unlinks it; another box is removed only by the CompareAndSwap itself.
Unlink(t) ==
    /\ At(t, "unlink")
    /\ LET removed == Answer(IF Kind(t) = "Delete" THEN th[t].word ELSE Nil, TRUE) IN
        \/ /\ PointsTo(t, th[t].box)
           /\ Point(t, Nil)
           /\ Count(-1, 0, 1, -BytesOf(th[t].box), TRUE)
           /\ EndWith(t, removed)
        \/ /\ ~PointsTo(t, th[t].box) /\ IsSimple(th[t].box)
           /\ EndWith(t, removed)
           /\ UNCHANGED <<value, cnt>>
        \/ /\ ~PointsTo(t, th[t].box) /\ HasMeta(th[t].box)
           /\ Goto(t, "match")
           /\ UNCHANGED <<value, cnt, gate>>
    /\ UNCHANGED <<slot, ctrl, data, hits, exp, now, config, gap>>
-------------------------------------------------------------------------------
\* CompareAndSwap answers without the gate where the value differs already.
PreFind(t) ==
    /\ At(t, "preFind")
    /\ gap' = (gap \/ MissedInGap)
    /\ IF Found = Nil THEN Return(t, Absent)
       ELSE Set(t, [pc |-> "preBox", ent |-> Found])
    /\ UNCHANGED <<shared, now, config>>

PreBox(t) ==
    /\ At(t, "preBox")
    /\ LET b == value[th[t].ent] IN
        \/ b = Nil /\ Return(t, Absent)
        \/ b # Nil /\ (exp[b] > 0 \/ Depleted(b)) /\ Goto(t, "gateFind")
        \/ b # Nil /\ exp[b] = 0 /\ ~Depleted(b) /\ Set(t, [pc |-> "preVal", box |-> b])
    /\ UNCHANGED <<shared, now, config, gap>>

PreVal(t) ==
    /\ At(t, "preVal")
    /\ IF data[th[t].box] = op[t].old THEN Goto(t, "gateFind") ELSE Return(t, Absent)
    /\ UNCHANGED <<shared, now, config, gap>>

\* replaceData: at exactly the word that was compared.
ReplaceData(t) ==
    /\ At(t, "replaceData")
    /\ LET b == th[t].box IN
        IF data[b] = th[t].word
        THEN /\ data' = [data EXCEPT ![b] = op[t].val]
             /\ EndWith(t, Answer(Nil, TRUE))
        ELSE UNCHANGED <<data, gate>> /\ Goto(t, "match")
    /\ UNCHANGED <<slot, ctrl, value, hits, exp, cnt, now, config, gap>>

\* A box of another shape is replaced as a whole.
SwapBox(t) == At(t, "casBox") /\ ReplaceBox(t, "match")

-------------------------------------------------------------------------------
\* The caller's EqualForMap panics in a comparison, or the cloner in
\* loadOrStoreSlow.  endWrite is not deferred: a writer that unwinds inside the
\* gate stays in it.
UserPanics(t) ==
    /\ \/ /\ th[t].pc \in {"preVal", "matchVal"} /\ op[t].old \in Faulty
          /\ data[th[t].box] # Dead
       \/ /\ th[t].pc \in {"insert", "build"} /\ Kind(t) \in LoadOrStores
          /\ ~noClone /\ op[t].val \in Faulty
    /\ Goto(t, "panic")
    /\ UNCHANGED <<shared, now, config, gap>>

WriteStep(t) ==
    \/ FastFind(t) \/ FastBox(t) \/ SwapData(t)
    \/ InlineFind(t) \/ InlineBox(t) \/ InlineCAS(t) \/ InlineCount(t)
    \/ PutProbe(t) \/ Insert(t) \/ Publish(t)
    \/ ReplaceOrRevive(t) \/ Revive(t) \/ ReplaceCAS(t)
    \/ LookupFind(t) \/ LookupBox(t) \/ LookupVal(t) \/ Scan(t) \/ ScanVal(t) \/ BuildBox(t)
    \/ GateFind(t) \/ MatchBox(t) \/ MatchVal(t) \/ Claim(t) \/ Unlink(t)
    \/ PreFind(t) \/ PreBox(t) \/ PreVal(t) \/ ReplaceData(t) \/ SwapBox(t)
    \/ UserPanics(t)
===============================================================================
