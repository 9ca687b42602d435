---------------------------- MODULE ShardKeyProofs ----------------------------
(***************************************************************************)
(* Theorems about ShardKey, for any number of concurrent calls on the key, *)
(* any operations and any clock: its types, the counters behind Len, the   *)
(* hit limits, the TTLs and the needsCleanup flag; and, for the workloads  *)
(* that are Orderly, that the methods are linearizable.                    *)
(*                                                                         *)
(* The inductive invariant says, for each call, where it can be, what it   *)
(* holds there and whether it is inside the gate (CallOK), and of the      *)
(* shared state what the limits of a box are (LimitsOK), that a box is     *)
(* stored only by the call that made it, at the end of its work            *)
(* (Published), and how counters, hits and the flag stand while a call is  *)
(* between two of its steps (CountOK, BudgetOK, FlagOK).                   *)
(*                                                                         *)
(* Linearizability needs three more: what a call knows of the box it holds *)
(* (TraceInv); where a key is to stay present, that it does (StaysInv);    *)
(* and that there is an order of the calls that have taken effect in which *)
(* each has the answer it has given or will give (LinInv).                 *)
(***************************************************************************)
EXTENDS ShardKey, InductionFacts, FiniteSetTheorems, TLAPS

Fields == {"pc", "ent", "box", "word", "ok", "bad", "again", "n", "by", "nc", "at", "res",
           "start", "before"}

\* The kinds of methods.
Storing == {"Store", "StoreWithOptions"}
Putters == Storing \cup Swaps \cup LoadOrStores
Matchers == Removals \cup {"CompareAndSwap", "CompareAndSwapWithOptions"}
Sweepers == {"Clear", "CleanupNow"}

\* The locals of a call are typed.
LocalTypes(t) ==
    /\ DOMAIN th[t] = Fields
    /\ th[t].ent \in Obj \cup {Nil} /\ th[t].box \in Obj \cup {Nil}
    /\ th[t].start \in Nat /\ th[t].again \in BOOLEAN /\ th[t].nc \in BOOLEAN
    /\ th[t].n \in Int /\ th[t].by \in Int

\* Which methods come to a label; where clearIfMatch returns to.
KindOK(t) ==
    LET k == Kind(t)
        pc == th[t].pc IN
    /\ pc \in {"find", "simple", "simpleVal", "read", "val", "consume", "reload", "slow",
               "maybeResize"} => k \in Readers
    /\ pc \in {"simple", "simpleVal"} => k = "Range"
    /\ pc \in {"consume", "reload"} => k = "Load"
    /\ pc \in {"fast", "fastBox", "swapData"} => k \in {"Store", "Swap"}
    /\ pc \in {"find2", "inlineBox", "inlineCAS", "inlineCount"} => k = "Store"
    /\ pc \in {"put", "insert", "publish", "revive", "replaceCAS"} => k \in Putters
    /\ pc = "replace" => k \in Putters \ LoadOrStores
    /\ pc \in {"los1", "los2", "losBox", "losVal", "scan", "current", "scanVal", "build"} =>
         k \in LoadOrStores
    /\ pc \in {"preFind", "preBox", "preVal", "gateFind", "match", "matchVal", "claim", "unlink",
               "replaceData", "casBox", "end"} => k \in Matchers
    /\ pc = "cleanup" => k = "CleanupNow"
    /\ pc \in {"clearAll", "clearDrain"} => k = "Clear"
    /\ k \in Sweepers => th[t].box = Nil

ClearPath(k, good, bad) ==
    \/ /\ k \in Readers /\ good = "maybeResize"
       /\ bad \in {"maybeResize", "done", "slow"} \/ (bad = "reload" /\ k = "Load")
    \/ k \in Putters \ LoadOrStores /\ good = "replace" /\ bad = "replace"
    \/ k \in LoadOrStores /\ good = "build" /\ bad = "scan"
    \/ k \in LoadOrStores /\ good = "current" /\ bad = "current"
    \/ k \in Matchers /\ good = "end" /\ bad = "match"
PathsOK(t) ==
    LET k == Kind(t)
        pc == th[t].pc IN
    /\ pc \in {"consume", "reload"} => th[t].bad \in {"reload", "slow"}
    /\ pc = "scanVal" => th[t].ok \in {"build", "replaceCAS"}
    /\ pc \in {"clear", "clearCount"} => ~Unlimited /\ ClearPath(k, th[t].ok, th[t].bad)

\* What a call holds.
HoldsOK(t) ==
    /\ th[t].pc \in {"simple", "simpleVal", "read", "val", "consume", "reload", "slow",
                     "fastBox", "swapData", "inlineBox", "inlineCAS", "losBox", "losVal",
                     "preBox", "preVal", "clear", "clearCount"} =>
         th[t].ent \in Obj
    /\ th[t].pc \in {"simpleVal", "val", "consume", "swapData", "inlineCAS", "inlineCount",
                     "replaceCAS", "losVal", "scanVal", "matchVal", "claim", "unlink",
                     "replaceData", "casBox", "preVal", "clear", "clearCount"} =>
         th[t].box \in Obj

\* The labels inside the gate at which the call works on an entry.
Working == {"replace", "revive", "replaceCAS", "scan", "current", "scanVal", "build", "match",
            "matchVal", "claim", "unlink", "replaceData", "casBox", "end"}
Clearing == {"clear", "clearCount"}

\* Inside the gate a call works on the entry in the slot; a rebuild has the
\* table for itself.
GateOK(t) ==
    /\ (th[t].pc \in Working \/ (th[t].pc \in Clearing /\ Kind(t) \notin Readers)) =>
        t \in gate.writers /\ slot # Nil /\ th[t].ent = slot
    /\ th[t].pc = "insert" => t \in gate.writers
    /\ th[t].pc = "publish" => t \in gate.writers /\ slot = t
    /\ th[t].pc \in {"drain", "clearDrain", "rebuild", "rebuildCount"} => gate.owner = t
    /\ th[t].pc \in {"rebuild", "rebuildCount"} => gate.writers = {}

\* The labels of a call that has looked at the limits of its box, and of one
\* that has its answer.
Checked == {"val", "simpleVal", "swapData", "losVal", "scanVal", "matchVal", "claim", "unlink",
            "replaceData", "casBox", "replaceCAS"}
Ending == {"end", "maybeResize", "resize", "drain", "rebuild", "rebuildCount", "done"}

\* The box had not expired when the call began.
Fresh(t) == th[t].box # Nil /\ exp[th[t].box] > 0 => th[t].start < exp[th[t].box]
FreshOK(t) ==
    /\ th[t].start <= now
    /\ th[t].pc \in Checked \/ (th[t].pc = "consume" /\ ~th[t].again) => Fresh(t)
    /\ /\ th[t].pc \in Ending \/ (th[t].pc \in Clearing /\ Kind(t) \notin Putters)
       /\ th[t].res.ok /\ ~th[t].again /\ Kind(t) \notin Storing
       => Fresh(t)

\* A Load reads without consuming a hit only where there is no hit limit.
LoadOK(t) == Kind(t) = "Load" /\ th[t].pc = "val" => op[th[t].box].hits = 0

CallOK(t) ==
    LocalTypes(t) /\ KindOK(t) /\ PathsOK(t) /\ HoldsOK(t) /\ GateOK(t) /\ FreshOK(t) /\ LoadOK(t)
-------------------------------------------------------------------------------
\* The types of the variables.
StateTypes ==
    /\ TypeOK
    /\ th = [t \in Call |-> th[t]]
    /\ op \in [Obj -> Operations]
    /\ noClone \in BOOLEAN
    /\ gate \in [writers : SUBSET Call, owner : Call \cup {Nil}]
    /\ cnt \in [live : Int, used : Int, tomb : Int, bytes : Int, needs : BOOLEAN]

\* A box has a TTL or a hit counter only if the call that made it asked for
\* one, and the counter of a limited box is never 0, which means no limit.
LimitsOK ==
    \A b \in Obj :
        /\ op[b].ttl = 0 => exp[b] = 0
        /\ op[b].hits = 0 => hits[b] = 0
        /\ op[b].hits > 0 => hits[b] # 0

\* A call stores its box as its last act on the entry.
Post == {"publish", "inlineCount", "resize", "drain", "rebuild", "rebuildCount", "done"}
Published == \A e \in Obj, b \in Call : value[e] = b => th[b].pc \in Post

\* The Loads that were answered from a box.
Counted(t, b) ==
    /\ Kind(t) = "Load" /\ th[t].box = b /\ th[t].res.ok
    /\ th[t].pc \in Clearing \cup Ending
AnsweredFrom(b) == {t \in Call : Counted(t, b)}
Budget(b) ==
    /\ IsFiniteSet(AnsweredFrom(b))
    /\ Cardinality(AnsweredFrom(b)) + (IF hits[b] > 0 THEN hits[b] ELSE 0) <= op[b].hits
BudgetOK == \A b \in Obj : op[b].hits > 0 => Budget(b)

\* The box in the slot needs cleaning.
Due == InSlot # Nil /\ RequiresCleanup(InSlot)
FlagOK ==
    /\ Due => cnt.needs \/ (InSlot \in Call /\ At(InSlot, "publish"))
    /\ \A t \in Call : th[t].pc \in {"rebuild", "rebuildCount"} /\ Due => th[t].nc

\* An insertion whose counters are still to be added, and a rebuild whose
\* counters are still to be stored.
One(p) == IF p THEN 1 ELSE 0
Inserting == \E t \in Call : At(t, "publish")
Recounting == \E t \in Call : At(t, "rebuildCount")
CountOK ==
    /\ cnt.tomb = cnt.used - cnt.live
    /\ ~Recounting =>
        /\ cnt.live + One(Inserting) = One(InSlot # Nil)
        /\ cnt.used + One(Inserting) = One(slot # Nil)
    /\ \A t \in Call : th[t].pc \in {"rebuild", "rebuildCount"} => th[t].n = One(InSlot # Nil)
    /\ \A t \in Call : At(t, "rebuildCount") => th[t].n = One(slot # Nil)

Inv ==
    /\ StateTypes
    /\ \A t \in Call : CallOK(t)
    /\ LimitsOK
    /\ Published
    /\ BudgetOK
    /\ FlagOK
    /\ Unlimited => CountOK

-------------------------------------------------------------------------------
\* What Set makes of the locals of t: at p, with the entry e and the box b, and
\* the way back from clearIfMatch; and of a call that is done with its entry.
Moved(t) ==
    /\ th' = [u \in Call |-> th'[u]]
    /\ \A u \in Call \ {t} : th'[u] = th[u]
    /\ DOMAIN th'[t] = Fields
Arrives(t, p, e, b, o, x) ==
    /\ Moved(t)
    /\ th'[t].pc = p /\ th'[t].ent = e /\ th'[t].box = b /\ th'[t].ok = o /\ th'[t].bad = x
    /\ th'[t].start = th[t].start /\ th'[t].n = th[t].n /\ th'[t].by = th[t].by
    /\ th'[t].nc = th[t].nc
SameAnswer(t) == th'[t].res = th[t].res /\ th'[t].again = th[t].again
Goes(t, p) == Arrives(t, p, th[t].ent, th[t].box, th[t].ok, th[t].bad) /\ SameAnswer(t)
Ends(t, p, r) ==
    /\ Moved(t)
    /\ th'[t].pc = p /\ th'[t].ent = Nil /\ th'[t].n = 0 /\ th'[t].by = 0 /\ th'[t].nc = FALSE
    /\ th'[t].box = IF Unlimited THEN Nil ELSE th[t].box
    /\ th'[t].start = th[t].start /\ th'[t].again = th[t].again /\ th'[t].res = r

Tidying == {"done", "resize", "maybeResize"}
HasLocals(t) == th = [u \in Call |-> th[u]] /\ DOMAIN th[t] = Fields

\* Goto, Return and ToClear, in these terms.
LEMMA GotoGoes ==
    ASSUME NEW t \in Call, HasLocals(t), NEW p, p \notin Tidying, Goto(t, p)
    PROVE  Goes(t, p)
  BY DEF HasLocals, Tidying, Goto, Set, With, Tidy, Goes, Arrives, SameAnswer, Moved, Fields

\* A call that answers is done with its entry.
LEMMA ReturnEnds ==
    ASSUME NEW t \in Call, HasLocals(t), NEW p \in Tidying, NEW r,
           Set(t, [pc |-> p, res |-> r])
    PROVE  Ends(t, p, r)
  BY DEF HasLocals, Tidying, Set, With, Tidy, Ends, Moved, Fields

\* A call that has its answer already ends with it.
LEMMA GotoEnds ==
    ASSUME NEW t \in Call, HasLocals(t), NEW p \in Tidying, Goto(t, p)
    PROVE  Ends(t, p, th[t].res)
  BY DEF HasLocals, Tidying, Goto, Set, With, Tidy, Ends, Moved, Fields

\* A call goes to clear an entry, and keeps its answer for later.
LEMMA ToClearArrives ==
    ASSUME NEW t \in Call, HasLocals(t), NEW b, NEW o, NEW x, NEW r, ToClear(t, b, o, x, r)
    PROVE  /\ Arrives(t, "clear", th[t].ent, b, o, x)
           /\ th'[t].res = r /\ th'[t].again = th[t].again
  BY DEF HasLocals, ToClear, Set, With, Tidy, Arrives, Moved, Fields
-------------------------------------------------------------------------------
\* What a step of t may do to the gate.
GateStep(t) ==
    \/ UNCHANGED gate
    \/ Enter(t)
    \/ Leave(t)
    \/ gate.owner = Nil /\ gate' = [gate EXCEPT !.owner = t]
    \/ gate.owner = t /\ Release

\* What it may do to the state that the other calls rely on.
Beside(t) ==
    /\ th' = [u \in Call |-> th'[u]]
    /\ \A u \in Call \ {t} : th'[u] = th[u]
    /\ UNCHANGED config
    /\ GateStep(t)
    /\ slot' = slot \/ slot = Nil \/ gate.writers = {}
    /\ now' = now \/ now' = now + 1
    /\ exp' \in [Obj -> Nat]
    /\ \A b \in Obj : exp'[b] = exp[b] \/ exp'[b] = 0 \/ exp'[b] > now

\* A call keeps its part of the invariant through the steps of the others:
\* the gate shuts out rebuilds while it works on the entry in the slot, and
\* writers while it rebuilds.
LEMMA OthersKeep ==
    ASSUME Inv, NEW t \in Call, Beside(t), NEW u \in Call, u # t
    PROVE  CallOK(u)'
<1>1. /\ CallOK(u) /\ th'[u] = th[u] /\ op' = op /\ noClone' = noClone
      /\ gate \in [writers : SUBSET Call, owner : Call \cup {Nil}]
      /\ now \in Nat /\ exp \in [Obj -> Nat]
  BY WorkloadsAssumption DEF Inv, Beside, config, StateTypes, TypeOK
<1>2. /\ u \in gate'.writers <=> u \in gate.writers
      /\ gate.owner = u => gate'.owner = u
      /\ gate.owner = u /\ gate.writers = {} => gate'.writers = {}
  BY <1>1, NamesAssumption DEF Beside, GateStep, Enter, Leave, Release
<1>3. LocalTypes(u)' /\ KindOK(u)' /\ PathsOK(u)' /\ HoldsOK(u)' /\ LoadOK(u)'
  BY <1>1 DEF CallOK, LocalTypes, KindOK, PathsOK, HoldsOK, LoadOK, Kind, Unlimited
<1>4. GateOK(u)'
  BY <1>1, <1>2, NamesAssumption DEF CallOK, GateOK, Beside, Kind
<1>5. Fresh(u) => Fresh(u)'
  <2>1. CASE th[u].box = Nil
    BY <1>1, <2>1 DEF Fresh
  <2>2. CASE th[u].box \in Obj
    <3> DEFINE b == th[u].box
    <3>1. exp[b] \in Nat /\ th[u].start \in Nat /\ th[u].start <= now
      BY <1>1, <2>2 DEF CallOK, LocalTypes, FreshOK
    <3>2. exp'[b] \in Nat
      BY <2>2 DEF Beside
    <3>6. exp'[b] = exp[b] \/ exp'[b] = 0 \/ exp'[b] > now
      BY <2>2 DEF Beside
    <3>3. Fresh(u)' <=> (b # Nil /\ exp'[b] > 0 => th[u].start < exp'[b])
      BY <1>1 DEF Fresh
    <3>4. Fresh(u) <=> (b # Nil /\ exp[b] > 0 => th[u].start < exp[b])
      BY DEF Fresh
    <3> HIDE DEF b
    <3>5. QED
      BY <1>1, <3>1, <3>2, <3>3, <3>4, <3>6
  <2>3. QED
    BY <1>1, <2>1, <2>2 DEF CallOK, LocalTypes
<1>6. FreshOK(u)'
  BY <1>1, <1>5 DEF CallOK, LocalTypes, FreshOK, Kind, Beside
<1>7. QED
  BY <1>3, <1>4, <1>6 DEF CallOK

-------------------------------------------------------------------------------
\* The labels that the counters and the flag depend on.
Marked == {"publish", "rebuild", "rebuildCount"}

\* A step of t that keeps its part of the invariant, is not one that the
\* counters or the flag depend on, and answers no Load from a limited box.
Calm(t) ==
    /\ th' = [u \in Call |-> th'[u]]
    /\ \A u \in Call \ {t} : th'[u] = th[u]
    /\ CallOK(t)'
    /\ th[t].pc \notin Marked /\ th'[t].pc \notin Marked
    /\ th[t].pc \in Post => th'[t].pc \in Post
    /\ \A b \in Obj : op[b].hits > 0 /\ Counted(t, b)' => Counted(t, b)

\* A step that changes no more of the shared state than the gate and the data
\* words.
Quiet(t) ==
    /\ Calm(t)
    /\ GateStep(t)
    /\ data' \in [Obj -> Value \cup {Dead, Nil}]
    /\ UNCHANGED <<slot, ctrl, value, hits, exp, cnt, now, noClone, op>>

\* The gate stays a set of writers and an owner.
LEMMA GateTypes ==
    ASSUME Inv, NEW t \in Call, GateStep(t)
    PROVE  gate' \in [writers : SUBSET Call, owner : Call \cup {Nil}]
  BY DEF Inv, StateTypes, GateStep, Enter, Leave, Release

\* With no new answer from a limited box the budget stands.
LEMMA BudgetStands ==
    ASSUME Inv, NEW t \in Call, UNCHANGED <<hits, op>>,
           \A u \in Call \ {t} : th'[u] = th[u],
           \A b \in Obj : op[b].hits > 0 /\ Counted(t, b)' => Counted(t, b)
    PROVE  BudgetOK'
<1>1. SUFFICES ASSUME NEW b \in Obj, op[b].hits > 0 PROVE Budget(b)'
  BY DEF BudgetOK
<1>2. AnsweredFrom(b)' \subseteq AnsweredFrom(b)
  <2>1. \A u \in Call \ {t} : Counted(u, b)' => Counted(u, b)
    BY DEF Counted, Kind
  <2>2. Counted(t, b)' => Counted(t, b)
    BY <1>1
  <2>3. QED
    BY <2>1, <2>2 DEF AnsweredFrom
<1>3. IsFiniteSet(AnsweredFrom(b))
  BY <1>1 DEF Inv, BudgetOK, Budget
<1>4. /\ IsFiniteSet(AnsweredFrom(b)')
      /\ Cardinality(AnsweredFrom(b)') <= Cardinality(AnsweredFrom(b))
      /\ Cardinality(AnsweredFrom(b)') \in Nat /\ Cardinality(AnsweredFrom(b)) \in Nat
  BY <1>2, <1>3, FS_Subset, FS_CardinalityType
<1>5. /\ Cardinality(AnsweredFrom(b)) + (IF hits[b] > 0 THEN hits[b] ELSE 0) <= op[b].hits
      /\ hits[b] \in Int /\ op[b].hits \in Nat
  BY <1>1 DEF Inv, BudgetOK, Budget, StateTypes, TypeOK, Operations
<1>6. QED
  BY <1>4, <1>5 DEF Budget

\* A quiet step keeps the invariant.
LEMMA QuietKeeps ==
    ASSUME Inv, NEW t \in Call, Quiet(t)
    PROVE  Inv'
<1>1. /\ UNCHANGED <<slot, ctrl, value, hits, exp, cnt, now, noClone, op>>
      /\ \A u \in Call \ {t} : th'[u] = th[u]
  BY DEF Quiet, Calm
<1>2. StateTypes'
  BY <1>1, GateTypes DEF Inv, StateTypes, TypeOK, Quiet, Calm
<1>3. Beside(t)
  BY <1>1 DEF Beside, Quiet, Calm, config, Inv, StateTypes, TypeOK
<1>4. \A u \in Call : CallOK(u)'
  BY <1>3, OthersKeep DEF Quiet, Calm
<1>5. LimitsOK'
  BY <1>1 DEF Inv, LimitsOK
<1>6. Published'
  BY <1>1 DEF Inv, Published, Quiet, Calm
<1>7. BudgetOK'
  BY <1>1, BudgetStands DEF Quiet, Calm
<1>8. \A u \in Call : th'[u].pc = th[u].pc \/ (th[u].pc \notin Marked /\ th'[u].pc \notin Marked)
  BY <1>1 DEF Quiet, Calm
<1>9. FlagOK'
  <2>1. InSlot' = InSlot /\ Due' = Due
    BY <1>1 DEF InSlot, Due, RequiresCleanup
  <2>2. \A u \in Call : th'[u].pc \in {"rebuild", "rebuildCount"} => th'[u] = th[u]
    BY <1>1, <1>8 DEF Marked, Quiet, Calm
  <2>3. InSlot \in Call /\ At(InSlot, "publish") => At(InSlot, "publish")'
    BY <1>8, <2>1 DEF At, Marked
  <2>4. QED
    BY <1>1, <2>1, <2>2, <2>3 DEF Inv, FlagOK
<1>10. Unlimited' => CountOK'
  <2>1. /\ InSlot' = InSlot /\ Unlimited' = Unlimited
    BY <1>1 DEF InSlot, Unlimited
  <2>2. Inserting' = Inserting /\ Recounting' = Recounting
    BY <1>8 DEF Inserting, Recounting, At, Marked
  <2>3. \A u \in Call : th'[u].pc \in {"rebuild", "rebuildCount"} => th'[u] = th[u]
    BY <1>1, <1>8 DEF Marked, Quiet, Calm
  <2>4. QED
    BY <1>1, <2>1, <2>2, <2>3 DEF Inv, CountOK, One, At
<1>11. QED
  BY <1>2, <1>4, <1>5, <1>6, <1>7, <1>9, <1>10 DEF Inv

-------------------------------------------------------------------------------
\* What the lemmas about the steps start from.
LEMMA Basics ==
    ASSUME Inv, NEW t \in Call
    PROVE  /\ HasLocals(t) /\ CallOK(t) /\ LimitsOK
           /\ slot \in Obj \cup {Nil} /\ value \in [Obj -> Obj \cup {Nil}]
           /\ data \in [Obj -> Value \cup {Dead, Nil}]
           /\ hits \in [Obj -> Int] /\ exp \in [Obj -> Nat] /\ now \in Nat
           /\ op \in [Obj -> Operations]
           /\ t \in Obj /\ Nil \notin Obj
  BY NamesAssumption, WorkloadsAssumption
     DEF Inv, StateTypes, TypeOK, HasLocals, CallOK, LocalTypes, Obj

\* A call that ends keeps its part of the invariant if what it answers comes
\* from a box that had not expired.
LEMMA EndKeepsCall ==
    ASSUME Inv, NEW t \in Call, NEW p \in Tidying, NEW r, Ends(t, p, r),
           UNCHANGED <<exp, now, op>>,
           p = "maybeResize" => Kind(t) \in Readers,
           r.ok /\ ~th[t].again /\ Kind(t) \notin Storing => Fresh(t)
    PROVE  CallOK(t)'
<1>1. CallOK(t) /\ Nil \notin Obj
  BY Basics
<1>2. LocalTypes(t)'
  <2>1. th'[t].again \in BOOLEAN /\ th'[t].nc \in BOOLEAN
    BY <1>1, Zenon DEF CallOK, LocalTypes, Ends
  <2>2. th'[t].ent \in Obj \cup {Nil} /\ th'[t].box \in Obj \cup {Nil} /\ th'[t].start \in Nat
    BY <1>1 DEF CallOK, LocalTypes, Ends
  <2>3. th'[t].n \in Int /\ th'[t].by \in Int /\ DOMAIN th'[t] = Fields
    BY DEF Ends, Moved
  <2>4. QED
    BY <2>1, <2>2, <2>3 DEF LocalTypes
<1>6. KindOK(t)'
  BY <1>1 DEF CallOK, KindOK, Kind, Ends, Tidying
<1>7. PathsOK(t)' /\ HoldsOK(t)' /\ GateOK(t)' /\ LoadOK(t)'
  BY DEF PathsOK, HoldsOK, GateOK, LoadOK, Working, Clearing, Ends, Tidying
<1>3. Fresh(t) => Fresh(t)'
  BY <1>1 DEF Fresh, Ends
<1>4. FreshOK(t)'
  <2>1. /\ th'[t].pc \in Tidying /\ th'[t].start = th[t].start /\ th[t].start <= now
        /\ th'[t].res = r /\ th'[t].again = th[t].again /\ Kind(t)' = Kind(t)
    BY <1>1 DEF Ends, CallOK, FreshOK, Kind
  <2>2. th'[t].res.ok /\ ~th'[t].again /\ Kind(t)' \notin Storing => Fresh(t)'
    BY <1>3, <2>1
  <2>3. QED
    BY <2>1, <2>2 DEF FreshOK, Tidying, Checked, Ending, Clearing
<1>5. QED
  BY <1>2, <1>4, <1>6, <1>7 DEF CallOK

\* A call that ends answers no Load from a limited box without a hit.
LEMMA EndIsCalm ==
    ASSUME Inv, NEW t \in Call, NEW p \in Tidying, NEW r, Ends(t, p, r),
           UNCHANGED <<exp, now, op>>,
           p = "maybeResize" => Kind(t) \in Readers /\ th[t].pc \notin Post,
           th[t].pc \notin Marked,
           r.ok /\ ~th[t].again /\ Kind(t) \notin Storing => Fresh(t),
           \/ ~r.ok
           \/ Kind(t) # "Load"
           \/ th[t].box \in Obj /\ op[th[t].box].hits = 0
           \/ th[t].pc \in Clearing \cup Ending /\ r = th[t].res
    PROVE  Calm(t)
<1>1. CallOK(t)'
  BY EndKeepsCall
<1>2. \A b \in Obj : op[b].hits > 0 /\ Counted(t, b)' => Counted(t, b)
  <2>1. SUFFICES ASSUME NEW b \in Obj, op[b].hits > 0, Counted(t, b)' PROVE Counted(t, b)
    OBVIOUS
  <2>2. r.ok /\ Kind(t) = "Load" /\ th'[t].box = b /\ b # Nil
    BY <2>1, Basics DEF Counted, Ends, Kind
  <2>3. th[t].box = b
    BY <2>2 DEF Ends
  <2>4. QED
    BY <2>1, <2>2, <2>3 DEF Counted, Ends
<1>3. QED
  BY <1>1, <1>2 DEF Calm, Ends, Moved, Marked, Post, Tidying

\* A call that goes on, its answer still open.
LEMMA ArriveIsCalm ==
    ASSUME Inv, NEW t \in Call, NEW p, NEW e, NEW b, NEW o, NEW x, Arrives(t, p, e, b, o, x),
           CallOK(t)',
           th[t].pc \notin Marked \cup Post, p \notin Marked, UNCHANGED op,
           p \in Clearing \cup Ending => ~th'[t].res.ok \/ Kind(t) # "Load"
    PROVE  Calm(t)
  BY DEF Calm, Arrives, Moved, Counted, Kind

-------------------------------------------------------------------------------
\* The reads.  None of them touches the shared state, except consumeHit.
LEMMA SharedUnchanged ==
    ASSUME Inv, NEW t \in Call, Calm(t), UNCHANGED <<shared, now, config>>
    PROVE  Quiet(t)
  BY DEF shared, config, Quiet, GateStep, Inv, StateTypes, TypeOK

\* findEntry, of a read.
LEMMA ReadFindQuiet ==
    ASSUME Inv, NEW t \in Call, ReadFind(t)
    PROVE  Quiet(t)
<1>1. UNCHANGED <<shared, now, config>> /\ th[t].pc = "find"
  BY DEF ReadFind, At
<1>2. UNCHANGED <<slot, gate, exp, now, op>>
  BY <1>1 DEF shared, config
<1>3. CASE Found = Nil
  <2>1. Ends(t, "done", Absent)
    BY <1>3, Basics, ReturnEnds DEF ReadFind, Return, Tidying
  <2>2. QED
    BY <1>1, <1>2, <2>1, EndIsCalm, SharedUnchanged DEF Absent, Answer, Tidying, Marked
<1>4. CASE Found # Nil
  <2> DEFINE p == IF Kind(t) = "Range" THEN "simple" ELSE "read"
  <2>1. Found \in Obj /\ Kind(t) \in Readers
    BY <1>1, <1>4, Basics DEF Found, CallOK, KindOK
  <2>2. Arrives(t, p, Found, th[t].box, th[t].ok, th[t].bad) /\ SameAnswer(t)
    BY <1>4, Basics DEF ReadFind, HasLocals, Set, With, Tidy, Arrives, Moved, SameAnswer, Fields
  <2>3. CallOK(t)'
    BY <1>1, <1>2, <2>1, <2>2, Basics
       DEF Arrives, Moved, SameAnswer, CallOK, LocalTypes, KindOK, PathsOK, HoldsOK, GateOK,
           FreshOK, LoadOK, Kind, Clearing, Ending, Working, Checked
  <2>4. QED
    BY <1>1, <1>2, <2>2, <2>3, ArriveIsCalm, SharedUnchanged DEF Marked, Post, Clearing, Ending
<1>5. QED
  BY <1>3, <1>4

\* Range's look at the box of an entry.
LEMMA RangeSimpleQuiet ==
    ASSUME Inv, NEW t \in Call, RangeSimple(t)
    PROVE  Quiet(t)
<1> DEFINE b == value[th[t].ent]
           p == IF b # Nil /\ IsSimple(b) THEN "simpleVal" ELSE "read"
<1>1. UNCHANGED <<shared, now, config>> /\ th[t].pc = "simple" /\ Set(t, [pc |-> p, box |-> b])
  BY DEF RangeSimple, At
<1>2. UNCHANGED <<slot, gate, exp, now, op>>
  BY <1>1 DEF shared, config
<1>3. b \in Obj \cup {Nil} /\ Kind(t) = "Range" /\ th[t].ent \in Obj
  BY <1>1, Basics DEF CallOK, HoldsOK, KindOK
<1>4. p = "simpleVal" => b \in Obj /\ exp[b] = 0
  BY <1>3, Basics DEF IsSimple, HasMeta, LimitsOK, Operations
<1> HIDE DEF b
<1>5. p \in {"simpleVal", "read"}
  OBVIOUS
<1> HIDE DEF p
<1>6. Arrives(t, p, th[t].ent, b, th[t].ok, th[t].bad) /\ SameAnswer(t)
  BY <1>1, <1>5, Basics, ZenonT(30) DEF HasLocals, Set, With, Tidy, Arrives, Moved, SameAnswer, Fields
<1>7. CallOK(t)'
  BY <1>1, <1>2, <1>3, <1>4, <1>5, <1>6, Basics
     DEF Arrives, Moved, SameAnswer, Fresh, Readers, Sweepers, CallOK, LocalTypes, KindOK,
         PathsOK, HoldsOK, GateOK, FreshOK, LoadOK, Kind, Clearing, Ending, Working, Checked
<1>8. QED
  BY <1>1, <1>2, <1>5, <1>6, <1>7, ArriveIsCalm, SharedUnchanged DEF Marked, Post, Clearing, Ending

\* A call that goes to clear a box which has a limit.
LEMMA ToClearKeepsCall ==
    ASSUME Inv, NEW t \in Call, NEW b \in Obj, NEW o, NEW x, NEW r, ToClear(t, b, o, x, r),
           UNCHANGED <<slot, gate, exp, now, op>>,
           Expired(b) \/ hits[b] # 0,
           th[t].ent \in Obj, Kind(t) \notin Sweepers, ClearPath(Kind(t), o, x),
           Kind(t) \notin Readers => t \in gate.writers /\ slot # Nil /\ th[t].ent = slot,
           Kind(t) \notin Putters /\ r.ok /\ ~th[t].again =>
             (exp[b] > 0 => th[t].start < exp[b])
    PROVE  /\ CallOK(t)' /\ th'[t].pc = "clear" /\ th'[t].box = b /\ th'[t].res = r
           /\ Moved(t)
<1>1. /\ CallOK(t) /\ Nil \notin Obj /\ ~Unlimited /\ Unlimited' = Unlimited
      /\ Arrives(t, "clear", th[t].ent, b, o, x)
      /\ th'[t].res = r /\ th'[t].again = th[t].again
  <2>1. ~Unlimited /\ Unlimited' = Unlimited
    BY Basics DEF Unlimited, LimitsOK, Expired
  <2>2. QED
    BY <2>1, Basics, ToClearArrives
<1>2. LocalTypes(t)'
  BY <1>1 DEF CallOK, LocalTypes, Arrives, Moved
<1>3. KindOK(t)'
  BY <1>1 DEF CallOK, KindOK, Kind, Arrives
<1>4. PathsOK(t)'
  BY <1>1 DEF PathsOK, Kind, Arrives
<1>5. HoldsOK(t)' /\ LoadOK(t)' /\ GateOK(t)'
  BY <1>1 DEF HoldsOK, LoadOK, GateOK, Working, Clearing, Kind, Arrives
<1>6. FreshOK(t)'
  <2>1. th'[t].start = th[t].start /\ th[t].start <= now
    BY <1>1 DEF Arrives, CallOK, FreshOK
  <2>2. (exp[b] > 0 => th[t].start < exp[b]) => Fresh(t)'
    BY <1>1, <2>1 DEF Fresh, Arrives
  <2>3. QED
    BY <1>1, <2>1, <2>2 DEF FreshOK, Checked, Ending, Clearing, Arrives, Kind
<1>7. QED
  BY <1>1, <1>2, <1>3, <1>4, <1>5, <1>6 DEF CallOK, Arrives

\* A read that goes to clear, with nothing to answer.
LEMMA ReadClears ==
    ASSUME Inv, NEW t \in Call, NEW b \in Obj, NEW x,
           ToClear(t, b, "maybeResize", x, Absent),
           x \in {"maybeResize", "done", "slow"} \/ (x = "reload" /\ Kind(t) = "Load"),
           UNCHANGED <<shared, now, config>>,
           Expired(b) \/ hits[b] # 0, th[t].ent \in Obj, Kind(t) \in Readers,
           th[t].pc \notin Marked \cup Post
    PROVE  Quiet(t)
<1>1. UNCHANGED <<slot, gate, exp, now, op>>
  BY DEF shared, config
<1>2. ClearPath(Kind(t), "maybeResize", x) /\ Kind(t) \notin Sweepers
  BY DEF ClearPath, Readers, Sweepers
<1>3. CallOK(t)' /\ Moved(t) /\ th'[t].pc = "clear" /\ ~th'[t].res.ok
  BY <1>1, <1>2, ToClearKeepsCall DEF Absent, Answer
<1>4. Calm(t)
  BY <1>3 DEF Calm, Moved, Counted, Marked
<1>5. QED
  BY <1>4, SharedUnchanged

\* Range's read of the data word of a simple box.
LEMMA RangeSimpleValQuiet ==
    ASSUME Inv, NEW t \in Call, RangeSimpleVal(t)
    PROVE  Quiet(t)
<1> DEFINE d == data[th[t].box]
<1>1. UNCHANGED <<shared, now, config>> /\ th[t].pc = "simpleVal"
  BY DEF RangeSimpleVal, At
<1>2. UNCHANGED <<slot, gate, exp, now, op>>
  BY <1>1 DEF shared, config
<1>3. Kind(t) = "Range" /\ th[t].ent \in Obj /\ Fresh(t)
  BY <1>1, Basics DEF CallOK, KindOK, HoldsOK, FreshOK, Checked
<1>4. CASE d = Dead
  <2>1. Goes(t, "read")
    BY <1>4, Basics, GotoGoes DEF RangeSimpleVal, Tidying
  <2>2. CallOK(t)'
    BY <1>1, <1>2, <1>3, <2>1, Basics
       DEF Goes, Arrives, Moved, SameAnswer, Readers, CallOK, LocalTypes, KindOK, PathsOK,
           HoldsOK, GateOK, FreshOK, LoadOK, Kind, Clearing, Ending, Working, Checked
  <2>3. QED
    BY <1>1, <1>2, <2>1, <2>2, ArriveIsCalm, SharedUnchanged
       DEF Goes, Marked, Post, Clearing, Ending
<1>5. CASE d # Dead
  <2>1. Ends(t, "done", Answer(d, TRUE))
    BY <1>5, Basics, ReturnEnds DEF RangeSimpleVal, Return, Tidying
  <2>2. QED
    BY <1>1, <1>2, <1>3, <2>1, EndIsCalm, SharedUnchanged DEF Tidying, Marked
<1>6. QED
  BY <1>4, <1>5

\* A read that takes the box b, to read its value or to consume a hit.
LEMMA ReadTakes ==
    ASSUME Inv, NEW t \in Call, NEW b \in Obj, NEW p \in {"val", "consume"}, NEW x,
           Arrives(t, p, th[t].ent, b, th[t].ok, x), th'[t].again \in BOOLEAN,
           UNCHANGED <<shared, now, config>>,
           th[t].ent \in Obj, Kind(t) \in Readers, th[t].pc \notin Marked \cup Post,
           p = "consume" => Kind(t) = "Load" /\ x \in {"reload", "slow"},
           p = "val" /\ Kind(t) = "Load" => op[b].hits = 0,
           p = "val" \/ ~th'[t].again => (exp[b] > 0 => th[t].start < exp[b])
    PROVE  Quiet(t)
<1>1. UNCHANGED <<slot, gate, exp, now, op>>
  BY DEF shared, config
<1>2. p = "val" \/ ~th'[t].again => Fresh(t)'
  BY <1>1 DEF Fresh, Arrives
<1>3. CallOK(t)'
  BY <1>1, <1>2, Basics
     DEF Arrives, Moved, Readers, Sweepers, CallOK, LocalTypes, KindOK, PathsOK, HoldsOK,
         GateOK, FreshOK, LoadOK, Kind, Clearing, Ending, Working, Checked
<1>4. QED
  BY <1>1, <1>3, ArriveIsCalm, SharedUnchanged DEF Marked, Post, Clearing, Ending

\* A box that has not expired had not expired when the call began.
LEMMA NotExpired ==
    ASSUME Inv, NEW t \in Call, NEW b \in Obj, ~Expired(b)
    PROVE  exp[b] > 0 => th[t].start < exp[b]
<1>1. exp[b] \in Nat /\ now \in Nat /\ th[t].start \in Nat /\ th[t].start <= now
  BY Basics DEF CallOK, LocalTypes, FreshOK
<1>2. QED
  BY <1>1 DEF Expired

\* What a read does with a box that has a hit limit.
LEMMA LimitedBoxQuiet ==
    ASSUME Inv, NEW t \in Call, th[t].pc = "read", NEW b \in Obj, exp[b] = 0, LimitedBox(t, b),
           UNCHANGED <<shared, now, config>>
    PROVE  Quiet(t)
<1>1. /\ Kind(t) \in Readers /\ th[t].ent \in Obj /\ th[t].again \in BOOLEAN
      /\ th[t].pc \notin Marked \cup Post /\ UNCHANGED <<slot, gate, exp, now, op>>
  BY Basics DEF CallOK, KindOK, HoldsOK, LocalTypes, Marked, Post, shared, config
<1>2. CASE Kind(t) = "Load" /\ Set(t, [pc |-> "consume", box |-> b, bad |-> "reload"])
  <2>1. Arrives(t, "consume", th[t].ent, b, th[t].ok, "reload") /\ SameAnswer(t)
    BY <1>2, Basics, ZenonT(30) DEF HasLocals, Set, With, Tidy, Arrives, Moved, SameAnswer, Fields
  <2>2. QED
    BY <1>1, <1>2, <2>1, ReadTakes DEF SameAnswer
<1>3. CASE (hits[b] = 0 \/ Kind(t) # "Load") /\ Set(t, [pc |-> "val", box |-> b])
  <2>1. Arrives(t, "val", th[t].ent, b, th[t].ok, th[t].bad) /\ SameAnswer(t)
    BY <1>3, Basics, ZenonT(30) DEF HasLocals, Set, With, Tidy, Arrives, Moved, SameAnswer, Fields
  <2>2. Kind(t) = "Load" => op[b].hits = 0
    BY <1>3, Basics DEF LimitsOK, Operations
  <2>3. QED
    BY <1>1, <2>1, <2>2, ReadTakes DEF SameAnswer
<1>4. CASE Return(t, Absent)
  <2>1. Ends(t, "done", Absent)
    BY <1>4, Basics, ReturnEnds DEF Return, Tidying
  <2>2. QED
    BY <1>1, <2>1, EndIsCalm, SharedUnchanged DEF Absent, Answer, Tidying, Marked
<1>5. CASE Depleted(b) /\ ToClear(t, b, "maybeResize", "done", Absent)
  <2>1. hits[b] # 0
    BY <1>5, Basics DEF Depleted
  <2>2. QED
    BY <1>1, <1>5, <2>1, ReadClears
<1>6. QED
  BY <1>2, <1>3, <1>4, <1>5 DEF LimitedBox

\* A read looks at the box and its limits.
LEMMA ReadBoxQuiet ==
    ASSUME Inv, NEW t \in Call, ReadBox(t)
    PROVE  Quiet(t)
<1> DEFINE b == value[th[t].ent]
<1>1. UNCHANGED <<shared, now, config>> /\ th[t].pc = "read"
  BY DEF ReadBox, At
<1>2. /\ Kind(t) \in Readers /\ th[t].ent \in Obj /\ th[t].again \in BOOLEAN
      /\ th[t].pc \notin Marked \cup Post /\ UNCHANGED <<slot, gate, exp, now, op>>
  BY <1>1, Basics DEF CallOK, KindOK, HoldsOK, LocalTypes, Marked, Post, shared, config
<1>3. b \in Obj \cup {Nil}
  BY <1>2, Basics
<1>4. CASE b # Nil /\ Kind(t) = "Has" /\ HasBox(t, b)
  <2> DEFINE yes == IsSimple(b) \/ (~Expired(b) /\ ~Depleted(b))
  <2>1. yes => ~Expired(b)
    BY <1>3, <1>4, Basics DEF IsSimple, HasMeta, Expired, LimitsOK, Operations
  <2>2. yes => (exp[b] > 0 => th[t].start < exp[b])
    BY <1>3, <1>4, <2>1, NotExpired
  <2>3. Set(t, [pc |-> "done", box |-> b, res |-> Answer(Nil, yes)])
    BY <1>4 DEF HasBox
  <2> HIDE DEF yes, b
  <2>4. /\ Moved(t) /\ th'[t].pc = "done" /\ th'[t].ent = Nil /\ th'[t].n = 0 /\ th'[t].by = 0
        /\ th'[t].nc = FALSE /\ th'[t].box = (IF Unlimited THEN Nil ELSE b)
        /\ th'[t].start = th[t].start /\ th'[t].again = th[t].again
        /\ th'[t].res = Answer(Nil, yes)
    BY <2>3, Basics, ZenonT(30) DEF HasLocals, Set, With, Tidy, Moved, Fields
  <2>5. FreshOK(t)'
    <3>1. yes => Fresh(t)'
      BY <1>2, <2>2, <2>4 DEF Fresh
    <3>2. th'[t].res.ok = yes /\ th[t].start <= now
      BY <2>4, Basics DEF Answer, CallOK, FreshOK
    <3>3. QED
      BY <1>2, <2>4, <3>1, <3>2 DEF FreshOK, Checked, Ending, Clearing
  <2>6. LocalTypes(t)'
    <3>1. th'[t].again \in BOOLEAN /\ th'[t].nc \in BOOLEAN
      BY <1>2, <2>4, Zenon
    <3>2. th'[t].start \in Nat
      BY <2>4, Basics DEF CallOK, LocalTypes
    <3>3. QED
      BY <1>3, <2>4, <3>1, <3>2 DEF LocalTypes, Moved
  <2>7. KindOK(t)' /\ PathsOK(t)' /\ HoldsOK(t)' /\ GateOK(t)' /\ LoadOK(t)'
    BY <1>2, <1>4, <2>4
       DEF KindOK, PathsOK, HoldsOK, GateOK, LoadOK, Kind, Clearing, Working, Sweepers
  <2>8. Calm(t)
    BY <1>2, <1>4, <2>4, <2>5, <2>6, <2>7 DEF Calm, CallOK, Moved, Marked, Post, Counted, Kind
  <2>9. QED
    BY <1>1, <2>8, SharedUnchanged
<1>5. CASE Return(t, Absent)
  <2>1. Ends(t, "done", Absent)
    BY <1>5, Basics, ReturnEnds DEF Return, Tidying
  <2>2. QED
    BY <1>1, <1>2, <2>1, EndIsCalm, SharedUnchanged DEF Absent, Answer, Tidying, Marked
<1>6. CASE b # Nil /\ IsSimple(b) /\ Set(t, [pc |-> "val", box |-> b])
  <2>1. op[b].hits = 0 /\ exp[b] = 0
    BY <1>3, <1>6, Basics DEF IsSimple, HasMeta, LimitsOK, Operations
  <2> HIDE DEF b
  <2>2. Arrives(t, "val", th[t].ent, b, th[t].ok, th[t].bad) /\ SameAnswer(t)
    BY <1>6, Basics DEF HasLocals, Set, With, Tidy, Arrives, Moved, SameAnswer, Fields
  <2>3. QED
    BY <1>1, <1>2, <1>3, <1>6, <2>1, <2>2, ReadTakes DEF SameAnswer
<1>7. CASE b # Nil /\ exp[b] = 0 /\ LimitedBox(t, b)
  BY <1>1, <1>3, <1>7, LimitedBoxQuiet
<1>8. CASE Goto(t, "slow")
  <2>1. Goes(t, "slow")
    BY <1>8, Basics, GotoGoes DEF Tidying
  <2>2. CallOK(t)'
    BY <1>1, <1>2, <2>1, Basics
       DEF Goes, Arrives, Moved, SameAnswer, CallOK, LocalTypes, KindOK, PathsOK, HoldsOK,
           GateOK, FreshOK, LoadOK, Kind, Clearing, Ending, Working, Checked
  <2>3. QED
    BY <1>1, <1>2, <2>1, <2>2, ArriveIsCalm, SharedUnchanged
       DEF Goes, Marked, Post, Clearing, Ending
<1>9. QED
  BY <1>4, <1>5, <1>6, <1>7, <1>8 DEF ReadBox

\* A read answers with the data word.
LEMMA ReadValQuiet ==
    ASSUME Inv, NEW t \in Call, ReadVal(t)
    PROVE  Quiet(t)
<1> DEFINE d == data[th[t].box]
           r == IF d = Dead THEN Absent ELSE Answer(d, TRUE)
<1>1. UNCHANGED <<shared, now, config>> /\ th[t].pc = "val" /\ UNCHANGED <<exp, op>>
  BY DEF ReadVal, At, shared, config
<1>2. th[t].box \in Obj /\ Fresh(t) /\ (Kind(t) = "Load" => op[th[t].box].hits = 0)
  BY <1>1, Basics DEF CallOK, HoldsOK, FreshOK, LoadOK, Checked
<1>3. Ends(t, "done", r)
  BY Basics, ReturnEnds DEF ReadVal, Return, Tidying
<1> HIDE DEF r
<1>4. QED
  BY <1>1, <1>2, <1>3, EndIsCalm, SharedUnchanged DEF Tidying, Marked

\* The loop of readEntryConsumeHit loads the box again.
LEMMA ConsumeReloadQuiet ==
    ASSUME Inv, NEW t \in Call, ConsumeReload(t)
    PROVE  Quiet(t)
<1> DEFINE b == value[th[t].ent]
<1>1. UNCHANGED <<shared, now, config>> /\ th[t].pc = "reload" /\ UNCHANGED <<exp, op>>
  BY DEF ConsumeReload, At, shared, config
<1>2. /\ Kind(t) = "Load" /\ th[t].ent \in Obj /\ th[t].bad \in {"reload", "slow"}
      /\ b \in Obj \cup {Nil} /\ th[t].pc \notin Marked \cup Post
  BY <1>1, Basics DEF CallOK, KindOK, PathsOK, HoldsOK, Marked, Post
<1>3. CASE b = Nil
  <2>1. Ends(t, "done", Absent)
    BY <1>3, Basics, ReturnEnds DEF ConsumeReload, Return, Tidying
  <2>2. QED
    BY <1>1, <1>2, <2>1, EndIsCalm, SharedUnchanged DEF Absent, Answer, Tidying, Marked
<1>4. CASE b # Nil
  <2>1. Set(t, [pc |-> "consume", box |-> b, again |-> TRUE])
    BY <1>4 DEF ConsumeReload
  <2> HIDE DEF b
  <2>2. Arrives(t, "consume", th[t].ent, b, th[t].ok, th[t].bad) /\ th'[t].again = TRUE
    BY <2>1, Basics DEF HasLocals, Set, With, Tidy, Arrives, Moved, Fields
  <2>3. QED
    BY <1>1, <1>2, <1>4, <2>2, ReadTakes DEF Readers
<1>5. QED
  BY <1>3, <1>4

\* readEntrySlow looks at the entry once more.
LEMMA ReadSlowQuiet ==
    ASSUME Inv, NEW t \in Call, ReadSlow(t)
    PROVE  Quiet(t)
<1> DEFINE b == value[th[t].ent]
<1>1. UNCHANGED <<shared, now, config>> /\ th[t].pc = "slow" /\ UNCHANGED <<exp, op>>
  BY DEF ReadSlow, At, shared, config
<1>2. /\ Kind(t) \in Readers /\ th[t].ent \in Obj /\ th[t].again \in BOOLEAN
      /\ b \in Obj \cup {Nil} /\ th[t].pc \notin Marked \cup Post
  BY <1>1, Basics DEF CallOK, KindOK, LocalTypes, HoldsOK, Marked, Post
<1>3. CASE b = Nil /\ Return(t, Absent)
  <2>1. Ends(t, "done", Absent)
    BY <1>3, Basics, ReturnEnds DEF Return, Tidying
  <2>2. QED
    BY <1>1, <1>2, <2>1, EndIsCalm, SharedUnchanged DEF Absent, Answer, Tidying, Marked
<1>4. CASE /\ b # Nil /\ ~Expired(b) /\ Kind(t) = "Load"
           /\ Set(t, [pc |-> "consume", box |-> b, bad |-> "slow"])
  <2>1. exp[b] > 0 => th[t].start < exp[b]
    BY <1>2, <1>4, NotExpired
  <2> HIDE DEF b
  <2>2. Arrives(t, "consume", th[t].ent, b, th[t].ok, "slow") /\ SameAnswer(t)
    BY <1>4, Basics, ZenonT(30) DEF HasLocals, Set, With, Tidy, Arrives, Moved, SameAnswer, Fields
  <2>3. QED
    BY <1>1, <1>2, <1>4, <2>1, <2>2, ReadTakes DEF SameAnswer
<1>5. CASE /\ b # Nil /\ ~Expired(b) /\ (IsSimple(b) \/ Kind(t) # "Load")
           /\ Set(t, [pc |-> "val", box |-> b])
  <2>1. (exp[b] > 0 => th[t].start < exp[b]) /\ (Kind(t) = "Load" => op[b].hits = 0)
    BY <1>2, <1>5, NotExpired, Basics DEF IsSimple, HasMeta, Operations
  <2> HIDE DEF b
  <2>2. Arrives(t, "val", th[t].ent, b, th[t].ok, th[t].bad) /\ SameAnswer(t)
    BY <1>5, Basics DEF HasLocals, Set, With, Tidy, Arrives, Moved, SameAnswer, Fields
  <2>3. QED
    BY <1>1, <1>2, <1>5, <2>1, <2>2, ReadTakes DEF SameAnswer
<1>6. CASE /\ b # Nil /\ (Expired(b) \/ Depleted(b))
           /\ ToClear(t, b, "maybeResize", "slow", Absent)
  <2>1. Expired(b) \/ hits[b] # 0
    BY <1>2, <1>6, Basics DEF Depleted
  <2>2. QED
    BY <1>1, <1>2, <1>6, <2>1, ReadClears
<1>7. QED
  BY <1>3, <1>4, <1>5, <1>6 DEF ReadSlow

\* A hit is taken from the budget of its box for the Load that it answers.
LEMMA HitCounted ==
    ASSUME Inv, NEW t \in Call, NEW b \in Obj, hits[b] > 0,
           hits' = [hits EXCEPT ![b] = NextHits(@)], UNCHANGED op,
           \A u \in Call \ {t} : th'[u] = th[u], th'[t].box = b
    PROVE  BudgetOK'
<1>1. SUFFICES ASSUME NEW c \in Obj, op[c].hits > 0 PROVE Budget(c)'
  BY DEF BudgetOK
<1>2. \A u \in Call \ {t} : Counted(u, c)' => Counted(u, c)
  BY DEF Counted, Kind
<1>3. /\ IsFiniteSet(AnsweredFrom(c)) /\ Cardinality(AnsweredFrom(c)) \in Nat
      /\ Cardinality(AnsweredFrom(c)) + (IF hits[c] > 0 THEN hits[c] ELSE 0) <= op[c].hits
      /\ hits[c] \in Int /\ op[c].hits \in Nat
  BY <1>1, FS_CardinalityType, Basics DEF Inv, BudgetOK, Budget, Operations
<1>4. CASE c # b
  <2>1. AnsweredFrom(c)' \subseteq AnsweredFrom(c)
    BY <1>2, <1>4 DEF AnsweredFrom, Counted
  <2>2. /\ IsFiniteSet(AnsweredFrom(c)')
        /\ Cardinality(AnsweredFrom(c)') <= Cardinality(AnsweredFrom(c))
        /\ Cardinality(AnsweredFrom(c)') \in Nat
    BY <1>3, <2>1, FS_Subset, FS_CardinalityType
  <2>3. hits'[c] = hits[c]
    BY <1>4, Basics
  <2>4. QED
    BY <1>3, <2>2, <2>3 DEF Budget
<1>5. CASE c = b
  <2> DEFINE A == AnsweredFrom(c) \cup {t}
  <2>1. AnsweredFrom(c)' \subseteq A
    BY <1>2 DEF AnsweredFrom
  <2>2. IsFiniteSet(A) /\ Cardinality(A) <= Cardinality(AnsweredFrom(c)) + 1
    <3>1. /\ IsFiniteSet(A)
          /\ \/ Cardinality(A) = Cardinality(AnsweredFrom(c))
             \/ Cardinality(A) = Cardinality(AnsweredFrom(c)) + 1
      BY <1>3, FS_AddElement, Zenon
    <3> HIDE DEF A
    <3>2. QED
      BY <1>3, <3>1
  <2>3. /\ IsFiniteSet(AnsweredFrom(c)')
        /\ Cardinality(AnsweredFrom(c)') <= Cardinality(A)
        /\ Cardinality(AnsweredFrom(c)') \in Nat /\ Cardinality(A) \in Nat
    BY <2>1, <2>2, FS_Subset, FS_CardinalityType
  <2>4. hits'[c] = IF hits[c] = 1 THEN -1 ELSE hits[c] - 1
    BY <1>5, Basics DEF NextHits
  <2> HIDE DEF A
  <2>5. Cardinality(AnsweredFrom(c)') + (IF hits'[c] > 0 THEN hits'[c] ELSE 0) <= op[c].hits
    BY <1>3, <1>5, <2>2, <2>3, <2>4
  <2>6. QED
    BY <2>3, <2>5 DEF Budget
<1>6. QED
  BY <1>4, <1>5

\* A Load takes a hit and goes on, with the answer or to clear the entry.
LEMMA HitTaken ==
    ASSUME Inv, NEW t \in Call, NEW b \in Obj, hits[b] > 0,
           hits' = [hits EXCEPT ![b] = NextHits(@)],
           UNCHANGED <<slot, ctrl, value, data, exp, cnt, gate, now, noClone, op>>,
           Moved(t), CallOK(t)', th'[t].box = b,
           th[t].pc = "consume", th'[t].pc \notin Marked
    PROVE  Inv'
<1>1. /\ th' = [u \in Call |-> th'[u]]
      /\ \A u \in Call \ {t} : th'[u] = th[u]
  BY DEF Moved
<1>2. /\ hits \in [Obj -> Int] /\ hits' \in [Obj -> Int] /\ hits'[b] # 0
      /\ \A c \in Obj \ {b} : hits'[c] = hits[c]
  BY Basics DEF NextHits
<1>3. StateTypes'
  BY <1>1, <1>2 DEF Inv, StateTypes, TypeOK
<1>4. Beside(t)
  BY <1>1 DEF Beside, GateStep, config, Inv, StateTypes, TypeOK
<1>5. \A u \in Call : CallOK(u)'
  BY <1>4, OthersKeep
<1>6. op[b].hits # 0 /\ LimitsOK'
  BY <1>2, Basics DEF LimitsOK
<1>7. Published'
  BY <1>1 DEF Inv, Published, Post
<1>8. BudgetOK'
  BY <1>1, HitCounted
<1>9. FlagOK'
  <2>1. InSlot' = InSlot
    BY DEF InSlot
  <2>2. InSlot \in Obj \cup {Nil}
    BY Basics DEF InSlot
  <2>3. Due' = Due
    BY <1>2, <2>1, <2>2 DEF Due, RequiresCleanup
  <2>4. \A u \in Call : th'[u].pc \in {"rebuild", "rebuildCount"} => th'[u] = th[u]
    BY <1>1 DEF Marked
  <2>5. InSlot \in Call /\ At(InSlot, "publish") => At(InSlot, "publish")'
    BY <1>1, <2>1 DEF At
  <2>6. QED
    BY <2>1, <2>3, <2>4, <2>5 DEF Inv, FlagOK
<1>10. ~Unlimited'
  BY <1>6 DEF Unlimited
<1>11. QED
  BY <1>3, <1>5, <1>6, <1>7, <1>8, <1>9, <1>10 DEF Inv

\* The CompareAndSwap of consumeHit.
LEMMA ConsumeHitKeeps ==
    ASSUME Inv, NEW t \in Call, ConsumeHit(t)
    PROVE  Inv'
<1> DEFINE b == th[t].box
           got == Answer(data[b], TRUE)
<1>1. /\ th[t].pc = "consume"
      /\ UNCHANGED <<slot, ctrl, value, data, exp, cnt, gate, now, noClone, op>>
  BY DEF ConsumeHit, At, config
<1>2. /\ Kind(t) = "Load" /\ th[t].ent \in Obj /\ b \in Obj
      /\ th[t].bad \in {"reload", "slow"} /\ th[t].pc \notin Marked \cup Post
      /\ ~th[t].again => Fresh(t)
  BY <1>1, Basics DEF CallOK, KindOK, PathsOK, HoldsOK, FreshOK, Marked, Post
<1>3. CASE UNCHANGED hits
  <2>1. UNCHANGED <<shared, now, config>>
    BY <1>1, <1>3 DEF shared, config
  <2>2. CASE Goto(t, "panic")
    <3>1. Goes(t, "panic")
      BY <2>2, Basics, GotoGoes DEF Tidying
    <3>2. CallOK(t)'
      BY <1>1, <1>2, <3>1, Basics
         DEF Goes, Arrives, Moved, SameAnswer, CallOK, LocalTypes, KindOK, PathsOK, HoldsOK,
             GateOK, FreshOK, LoadOK, Kind, Clearing, Ending, Working, Checked
    <3>3. QED
      BY <1>1, <1>2, <2>1, <3>1, <3>2, ArriveIsCalm, SharedUnchanged, QuietKeeps
         DEF Goes, Marked, Post, Clearing, Ending
  <2>3. CASE hits[b] = 0 /\ Return(t, got)
    <3>1. Ends(t, "done", got)
      BY <2>3, Basics, ReturnEnds DEF Return, Tidying
    <3>2. op[b].hits = 0
      BY <1>2, <2>3, Basics DEF LimitsOK, Operations
    <3> HIDE DEF got
    <3>3. QED
      BY <1>1, <1>2, <2>1, <3>1, <3>2, EndIsCalm, SharedUnchanged, QuietKeeps
         DEF Tidying, Marked
  <2>4. CASE Depleted(b) /\ ToClear(t, b, "maybeResize", th[t].bad, Absent)
    <3>1. hits[b] # 0
      BY <1>2, <2>4, Basics DEF Depleted
    <3>2. QED
      BY <1>1, <1>2, <2>1, <2>4, <3>1, ReadClears, QuietKeeps DEF Readers
  <2>5. ~(hits[b] > 0 /\ hits' = [hits EXCEPT ![b] = NextHits(@)])
    <3>1. SUFFICES ASSUME hits[b] > 0, hits' = [hits EXCEPT ![b] = NextHits(@)] PROVE FALSE
      OBVIOUS
    <3>2. hits'[b] # hits[b]
      BY <1>2, <3>1, Basics DEF NextHits
    <3>3. QED
      BY <1>3, <3>2
  <2>6. QED
    BY <2>2, <2>3, <2>4, <2>5, Zenon DEF ConsumeHit
<1>4. CASE hits[b] > 0 /\ hits' = [hits EXCEPT ![b] = NextHits(@)]
  <2>1. ~Unlimited
    BY <1>2, <1>4, Basics DEF Unlimited, LimitsOK
  <2>2. CASE ToClear(t, b, "maybeResize", "maybeResize", got)
    <3>1. ~th[t].again => (exp[b] > 0 => th[t].start < exp[b])
      BY <1>2, Basics DEF Fresh
    <3>2. ClearPath(Kind(t), "maybeResize", "maybeResize") /\ Kind(t) \notin Sweepers
      BY <1>2 DEF ClearPath, Readers, Sweepers
    <3>3. hits[b] # 0 /\ Kind(t) \in Readers
      BY <1>2, <1>4, Basics DEF Readers
    <3> HIDE DEF got
    <3>4. CallOK(t)' /\ th'[t].pc = "clear" /\ th'[t].box = b /\ Moved(t)
      BY <1>1, <1>2, <2>2, <3>1, <3>2, <3>3, ToClearKeepsCall
    <3>5. QED
      BY <1>1, <1>2, <1>4, <3>4, HitTaken DEF Marked
  <2>3. CASE Return(t, got)
    <3>1. Ends(t, "done", got)
      BY <2>3, Basics, ReturnEnds DEF Return, Tidying
    <3> HIDE DEF got
    <3>2. CallOK(t)'
      BY <1>1, <1>2, <3>1, EndKeepsCall DEF Tidying
    <3>3. th'[t].box = b /\ th'[t].pc = "done" /\ Moved(t)
      BY <2>1, <3>1 DEF Ends
    <3>4. QED
      BY <1>1, <1>2, <1>4, <3>2, <3>3, HitTaken DEF Marked
  <2>4. QED
    <3>1. hits'[b] # hits[b] /\ hits[b] # 0 /\ ~Depleted(b)
      BY <1>2, <1>4, Basics DEF NextHits, Depleted
    <3>2. hits' # hits
      BY <3>1
    <3>3. QED
      BY <2>2, <2>3, <3>1, <3>2 DEF ConsumeHit
<1>5. QED
  BY <1>3, <1>4 DEF ConsumeHit

-------------------------------------------------------------------------------
\* The steps that clear a box, and those that leave the gate.
LEMMA StepKeeps ==
    ASSUME Inv, NEW t \in Call, Beside(t), CallOK(t)', UNCHANGED hits,
           \A b \in Obj : op[b].ttl = 0 => exp'[b] = 0,
           \A b \in Obj : op[b].hits > 0 /\ Counted(t, b)' => Counted(t, b)
    PROVE  (\A u \in Call : CallOK(u)') /\ LimitsOK' /\ BudgetOK'
<1>1. \A u \in Call : CallOK(u)'
  BY OthersKeep
<1>2. UNCHANGED op /\ \A u \in Call \ {t} : th'[u] = th[u]
  BY DEF Beside, config
<1>3. LimitsOK'
  BY <1>2 DEF Inv, LimitsOK
<1>4. BudgetOK'
  BY <1>2, BudgetStands
<1>5. QED
  BY <1>1, <1>3, <1>4

\* The bytes of a box.
LEMMA BytesType == ASSUME Inv, NEW b \in Obj PROVE BytesOf(b) \in Nat
<1>1. op[b].val \in Value \cup {Nil}
  BY DEF Inv, StateTypes, Operations
<1>2. QED
  BY <1>1, ClonerAssumption DEF BytesOf

\* What Count adds.
LEMMA CountTypes ==
    ASSUME Inv, NEW dl \in Int, NEW du \in Int, NEW dt \in Int, NEW db \in Int,
           NEW nc \in BOOLEAN, Count(dl, du, dt, db, nc)
    PROVE  /\ cnt' \in [live : Int, used : Int, tomb : Int, bytes : Int, needs : BOOLEAN]
           /\ cnt'.live = cnt.live + dl /\ cnt'.used = cnt.used + du
           /\ cnt'.tomb = cnt.tomb + dt /\ (cnt'.needs <=> cnt.needs \/ nc)
           /\ cnt.live \in Int /\ cnt.used \in Int /\ cnt.tomb \in Int
  BY DEF Inv, StateTypes, Count

\* The other calls stand where they stood, and t is not at a marked label.
LEMMA MarksStand ==
    ASSUME Inv, NEW t \in Call, Calm(t)
    PROVE  /\ \A u \in Call : th'[u].pc \in Marked => th'[u] = th[u]
           /\ \A u \in Call : th[u].pc \in Marked => th'[u] = th[u]
           /\ \A u \in Call : At(u, "publish")' <=> At(u, "publish")
           /\ Inserting' <=> Inserting
           /\ Recounting' <=> Recounting
  BY DEF Calm, Marked, At, Inserting, Recounting

\* The CompareAndSwap of clearIfMatch: only where some box has a limit.
LEMMA ClearIfMatchKeeps ==
    ASSUME Inv, NEW t \in Call, ClearIfMatch(t)
    PROVE  Inv'
<1>1. /\ th[t].pc = "clear"
      /\ UNCHANGED <<slot, ctrl, data, hits, exp, cnt, gate, now, noClone, op>>
  BY DEF ClearIfMatch, At, config
<1>2. /\ th[t].ent \in Obj /\ th[t].box \in Obj /\ ~Unlimited
      /\ ClearPath(Kind(t), th[t].ok, th[t].bad) /\ th[t].pc \notin Marked \cup Post
      /\ Kind(t) \notin Putters /\ th[t].res.ok /\ ~th[t].again => Fresh(t)
  BY <1>1, Basics
     DEF CallOK, PathsOK, HoldsOK, FreshOK, Clearing, Marked, Post, Putters, Storing
<1>3. CASE PointsTo(t, th[t].box)
  <2>1. Goes(t, "clearCount") /\ value' = [value EXCEPT ![th[t].ent] = Nil]
    BY <1>3, Basics, GotoGoes DEF ClearIfMatch, Point, Tidying
  <2>2. CallOK(t)'
    <3>1. CallOK(t) /\ th'[t].pc = "clearCount"
      BY <2>1, Basics DEF Goes, Arrives
    <3>2. Fresh(t)' <=> Fresh(t)
      BY <1>1, <2>1 DEF Goes, Arrives, Fresh
    <3>3. QED
      BY <1>1, <3>1, <3>2, <2>1
         DEF Goes, Arrives, Moved, SameAnswer, Unlimited, CallOK, LocalTypes, KindOK, PathsOK,
             HoldsOK, GateOK, FreshOK, LoadOK, Kind, Clearing, Ending, Working, Checked
  <2>3. Calm(t)
    BY <1>1, <1>2, <2>1, <2>2 DEF Calm, Goes, Arrives, Moved, SameAnswer, Counted, Kind,
       Marked, Clearing
  <2>4. value' \in [Obj -> Obj \cup {Nil}] /\ StateTypes'
    BY <1>1, <2>1, Basics DEF Goes, Arrives, Moved, Inv, StateTypes, TypeOK
  <2>5. Beside(t)
    BY <1>1, <2>3 DEF Beside, GateStep, Calm, config, Inv, StateTypes, TypeOK
  <2>6. (\A u \in Call : CallOK(u)') /\ LimitsOK' /\ BudgetOK'
    BY <1>1, <2>2, <2>3, <2>5, StepKeeps, Basics DEF LimitsOK, Calm
  <2>7. Published'
    <3>1. SUFFICES ASSUME NEW e \in Obj, NEW b \in Call, value'[e] = b PROVE th'[b].pc \in Post
      BY DEF Published
    <3>2. value[e] = b
      BY <2>1, <3>1, Basics, NamesAssumption
    <3>3. QED
      BY <2>3, <3>2 DEF Inv, Published, Calm
  <2>8. FlagOK'
    <3>1. InSlot' = Nil \/ InSlot' = InSlot
      BY <1>1, <2>1, Basics DEF InSlot
    <3>2. Due' => Due /\ InSlot' = InSlot
      BY <1>1, <3>1 DEF Due, RequiresCleanup
    <3>3. QED
      BY <1>1, <2>3, <3>1, <3>2, MarksStand DEF Inv, FlagOK, Marked
  <2>9. ~Unlimited'
    BY <1>1, <1>2 DEF Unlimited
  <2>10. QED
    BY <2>4, <2>6, <2>7, <2>8, <2>9 DEF Inv
<1>4. CASE ~PointsTo(t, th[t].box)
  <2>1. Goto(t, th[t].bad) /\ UNCHANGED <<shared, now, config>>
    BY <1>1, <1>4 DEF ClearIfMatch, shared, config
  <2>2. CASE th[t].bad \in {"done", "maybeResize"}
    <3>1. Kind(t) \in Readers /\ th[t].bad \in Tidying /\ Kind(t) \notin Putters
      BY <1>2, <2>2 DEF ClearPath, Tidying, Readers, Putters, Storing, Swaps, LoadOrStores
    <3>2. Ends(t, th[t].bad, th[t].res)
      BY <2>1, <3>1, Basics, GotoEnds
    <3>3. Calm(t)
      BY <1>1, <1>2, <3>1, <3>2, EndIsCalm DEF Clearing, Marked, Post
    <3>4. QED
      BY <2>1, <3>3, SharedUnchanged, QuietKeeps
  <2>3. CASE th[t].bad \in {"slow", "reload", "replace", "scan", "current", "match"}
    <3>1. Goes(t, th[t].bad)
      BY <2>1, <2>3, Basics, GotoGoes DEF Tidying
    <3>2. CallOK(t)'
      BY <1>1, <1>2, <2>3, <3>1, Basics, SMTT(30)
         DEF Goes, Arrives, Moved, SameAnswer, ClearPath, Readers, Putters, Storing, Swaps,
             LoadOrStores, Matchers, Removals, CallOK, LocalTypes, KindOK, PathsOK, HoldsOK,
             GateOK, FreshOK, LoadOK, Kind, Clearing, Ending, Working, Checked
    <3>3. QED
      BY <1>1, <1>2, <2>1, <2>3, <3>1, <3>2, ArriveIsCalm, SharedUnchanged, QuietKeeps
         DEF Goes, Marked, Clearing, Ending
  <2>4. QED
    BY <1>2, <2>2, <2>3 DEF ClearPath
<1>5. QED
  BY <1>3, <1>4

\* The counters of clearIfMatch.
LEMMA ClearCountKeeps ==
    ASSUME Inv, NEW t \in Call, ClearCount(t)
    PROVE  Inv'
<1>1. /\ th[t].pc = "clearCount" /\ Goto(t, th[t].ok)
      /\ Count(-1, 0, 1, -BytesOf(th[t].box), TRUE)
      /\ UNCHANGED <<slot, ctrl, value, data, hits, exp, gate, now, noClone, op>>
  BY DEF ClearCount, At, config
<1>2. /\ th[t].ent \in Obj /\ th[t].box \in Obj /\ ~Unlimited
      /\ ClearPath(Kind(t), th[t].ok, th[t].bad) /\ th[t].pc \notin Marked \cup Post
      /\ Kind(t) \notin Putters /\ th[t].res.ok /\ ~th[t].again => Fresh(t)
  BY <1>1, Basics
     DEF CallOK, PathsOK, HoldsOK, FreshOK, Clearing, Marked, Post, Putters, Storing
<1>3. Calm(t)
  <2>1. CASE th[t].ok = "maybeResize"
    <3>1. Kind(t) \in Readers /\ th[t].ok \in Tidying /\ Kind(t) \notin Putters
      BY <1>2, <2>1 DEF ClearPath, Tidying, Readers, Putters, Storing, Swaps, LoadOrStores
    <3>2. Ends(t, th[t].ok, th[t].res)
      BY <1>1, <3>1, Basics, GotoEnds
    <3>3. QED
      BY <1>1, <1>2, <3>1, <3>2, EndIsCalm DEF Clearing, Marked, Post
  <2>2. CASE th[t].ok \in {"replace", "build", "current", "end"}
    <3>1. Goes(t, th[t].ok)
      BY <1>1, <2>2, Basics, GotoGoes DEF Tidying
    <3>2. Fresh(t)' <=> Fresh(t)
      BY <1>1, <3>1 DEF Goes, Arrives, Fresh
    <3>3. CallOK(t)'
      BY <1>1, <1>2, <2>2, <3>1, <3>2, Basics, SMTT(30)
         DEF Goes, Arrives, Moved, SameAnswer, ClearPath, Readers, Putters, Storing, Swaps,
             LoadOrStores, Matchers, Removals, CallOK, LocalTypes, KindOK, PathsOK, HoldsOK,
             GateOK, FreshOK, LoadOK, Kind, Clearing, Ending, Working, Checked
    <3>4. Kind(t) # "Load"
      BY <1>2, <2>2 DEF ClearPath, Putters, Storing, Swaps, LoadOrStores, Matchers, Removals
    <3>5. QED
      BY <1>1, <1>2, <2>2, <3>1, <3>3, <3>4, ArriveIsCalm DEF Goes, Marked
  <2>3. QED
    BY <1>2, <2>1, <2>2 DEF ClearPath
<1>4. -BytesOf(th[t].box) \in Int
  BY <1>2, BytesType
<1>5. /\ cnt' \in [live : Int, used : Int, tomb : Int, bytes : Int, needs : BOOLEAN]
      /\ cnt'.needs
  <2> DEFINE down == -1
             db == -BytesOf(th[t].box)
  <2>1. down \in Int /\ 0 \in Int /\ 1 \in Int /\ TRUE \in BOOLEAN /\ db \in Int
    BY <1>4
  <2>2. Count(down, 0, 1, db, TRUE)
    BY <1>1, Zenon
  <2> HIDE DEF down, db
  <2>3. QED
    BY <2>1, <2>2, CountTypes, Zenon
<1>6. StateTypes'
  BY <1>1, <1>3, <1>5 DEF Calm, Inv, StateTypes, TypeOK
<1>7. Beside(t)
  BY <1>1, <1>3 DEF Beside, GateStep, Calm, config, Inv, StateTypes, TypeOK
<1>8. (\A u \in Call : CallOK(u)') /\ LimitsOK' /\ BudgetOK'
  BY <1>1, <1>3, <1>7, StepKeeps, Basics DEF LimitsOK, Calm
<1>9. Published'
  BY <1>1, <1>3 DEF Inv, Published, Calm
<1>10. FlagOK'
  <2>1. Due' = Due
    BY <1>1 DEF Due, InSlot, RequiresCleanup
  <2>2. QED
    BY <1>3, <1>5, <2>1, MarksStand DEF Inv, FlagOK, Marked
<1>11. ~Unlimited'
  BY <1>1, <1>2 DEF Unlimited
<1>12. QED
  BY <1>6, <1>8, <1>9, <1>10, <1>11 DEF Inv

\* A write that leaves the gate with its answer, and has stored nothing.
LEMMA LeaveQuiet ==
    ASSUME Inv, NEW t \in Call, NEW p \in {"done", "resize"}, NEW r,
           Set(t, [pc |-> p, res |-> r]), Leave(t),
           UNCHANGED <<slot, ctrl, value, hits, exp, cnt, now, noClone, op>>,
           data' \in [Obj -> Value \cup {Dead, Nil}],
           th[t].pc \notin Marked, Kind(t) # "Load",
           r.ok /\ ~th[t].again /\ Kind(t) \notin Storing => Fresh(t)
    PROVE  Quiet(t)
<1>1. Ends(t, p, r)
  BY Basics, ReturnEnds DEF Tidying
<1>2. Calm(t)
  BY <1>1, EndIsCalm DEF Tidying
<1>3. QED
  BY <1>2 DEF Quiet, GateStep

\* A writer that has cleared the entry leaves the gate.
LEMMA EndWriteQuiet ==
    ASSUME Inv, NEW t \in Call, EndWrite(t)
    PROVE  Quiet(t)
<1>1. /\ th[t].pc = "end"
      /\ UNCHANGED <<slot, ctrl, value, data, hits, exp, cnt, now, noClone, op>>
  BY DEF EndWrite, At, config
<1>2. PICK p \in {"done", "resize"} : Set(t, [pc |-> p, res |-> th[t].res])
  BY DEF EndWrite, EndWith
<1>3. Leave(t)
  BY DEF EndWrite, EndWith
<1>4. Kind(t) # "Load" /\ (th[t].res.ok /\ ~th[t].again /\ Kind(t) \notin Storing => Fresh(t))
  BY <1>1, Basics DEF CallOK, KindOK, Matchers, Removals, FreshOK, Ending
<1>5. QED
  BY <1>1, <1>2, <1>3, <1>4, LeaveQuiet, Basics DEF Marked

\* A read that has cleared the entry may go on to a resize.
LEMMA MaybeResizeQuiet ==
    ASSUME Inv, NEW t \in Call, MaybeResize(t)
    PROVE  Quiet(t)
<1>1. /\ th[t].pc = "maybeResize" /\ UNCHANGED <<shared, now, config>>
      /\ UNCHANGED <<exp, op>>
  BY DEF MaybeResize, At, shared, config
<1>2. PICK p \in {"done", "resize"} : Goto(t, p)
  BY DEF MaybeResize
<1>3. Ends(t, p, th[t].res)
  BY <1>2, Basics, GotoEnds DEF Tidying
<1>4. th[t].res.ok /\ ~th[t].again /\ Kind(t) \notin Storing => Fresh(t)
  BY <1>1, Basics DEF CallOK, FreshOK, Ending
<1>5. Calm(t)
  BY <1>1, <1>2, <1>3, <1>4, EndIsCalm DEF Tidying, Marked, Ending
<1>6. QED
  BY <1>1, <1>5, SharedUnchanged

-------------------------------------------------------------------------------
\* The writing methods outside the gate: they look for the entry, look at its
\* box, and go on to the next attempt.
LEMMA NextAttempt ==
    ASSUME Inv, NEW t \in Call, NEW p \in {"find2", "put", "los1", "los2", "gateFind"}, Goto(t, p),
           UNCHANGED <<shared, now, config>>, th[t].pc \notin Marked \cup Post,
           p = "find2" => Kind(t) = "Store",
           p = "put" => Kind(t) \in Putters,
           p \in {"los1", "los2"} => Kind(t) \in LoadOrStores,
           p = "gateFind" => Kind(t) \in Matchers
    PROVE  Quiet(t)
<1>1. UNCHANGED <<slot, gate, exp, now, op>>
  BY DEF shared, config
<1>2. Goes(t, p)
  BY Basics, GotoGoes DEF Tidying
<1>3. CallOK(t)'
  BY <1>1, <1>2, Basics
     DEF Goes, Arrives, Moved, SameAnswer, CallOK, LocalTypes, KindOK, PathsOK, HoldsOK, GateOK,
         FreshOK, LoadOK, Kind, Clearing, Ending, Working, Checked
<1>4. QED
  BY <1>1, <1>2, <1>3, ArriveIsCalm, SharedUnchanged DEF Goes, Marked, Clearing, Ending

\* A write outside the gate has found the entry.
LEMMA FindsEntry ==
    ASSUME Inv, NEW t \in Call, NEW p \in {"fastBox", "inlineBox", "preBox"}, NEW e \in Obj,
           Set(t, [pc |-> p, ent |-> e]),
           UNCHANGED <<shared, now, config>>, th[t].pc \notin Marked \cup Post,
           p = "fastBox" => Kind(t) \in {"Store", "Swap"},
           p = "inlineBox" => Kind(t) = "Store",
           p = "preBox" => Kind(t) \in Matchers
    PROVE  Quiet(t)
<1>1. UNCHANGED <<slot, gate, exp, now, op>>
  BY DEF shared, config
<1>2. Arrives(t, p, e, th[t].box, th[t].ok, th[t].bad) /\ SameAnswer(t)
  BY Basics DEF HasLocals, Set, With, Tidy, Arrives, Moved, SameAnswer, Fields
<1>3. CallOK(t)'
  BY <1>1, <1>2, Basics
     DEF Arrives, Moved, SameAnswer, CallOK, LocalTypes, KindOK, PathsOK, HoldsOK, GateOK,
         FreshOK, LoadOK, Kind, Clearing, Ending, Working, Checked
<1>4. QED
  BY <1>1, <1>2, <1>3, ArriveIsCalm, SharedUnchanged DEF Marked, Clearing, Ending

\* It has found a box without a TTL.
LEMMA TakesBox ==
    ASSUME Inv, NEW t \in Call, NEW p \in {"swapData", "inlineCAS", "losVal", "preVal"},
           NEW b \in Obj, exp[b] = 0, th[t].ent \in Obj,
           Set(t, [pc |-> p, box |-> b]),
           UNCHANGED <<shared, now, config>>, th[t].pc \notin Marked \cup Post,
           p = "swapData" => Kind(t) \in {"Store", "Swap"},
           p = "inlineCAS" => Kind(t) = "Store",
           p = "losVal" => Kind(t) \in LoadOrStores,
           p = "preVal" => Kind(t) \in Matchers
    PROVE  Quiet(t)
<1>1. UNCHANGED <<slot, gate, exp, now, op>>
  BY DEF shared, config
<1>2. Arrives(t, p, th[t].ent, b, th[t].ok, th[t].bad) /\ SameAnswer(t)
  BY Basics, ZenonT(30) DEF HasLocals, Set, With, Tidy, Arrives, Moved, SameAnswer, Fields
<1>3. Fresh(t)'
  BY <1>1, <1>2 DEF Fresh, Arrives
<1>4. Kind(t) \notin Sweepers
  BY DEF Sweepers, LoadOrStores, Matchers, Removals
<1>5. CallOK(t)'
  BY <1>1, <1>2, <1>3, <1>4, Basics
     DEF Arrives, Moved, SameAnswer, CallOK, LocalTypes, KindOK, PathsOK, HoldsOK, GateOK,
         FreshOK, LoadOK, Kind, Clearing, Ending, Working, Checked
<1>6. QED
  BY <1>1, <1>2, <1>5, ArriveIsCalm, SharedUnchanged DEF Marked, Clearing, Ending

\* Where FastFind, FastBox and SwapData go when there is no box to write to.
LEMMA AfterFastNext ==
    ASSUME NEW t \in Call, Kind(t) \in {"Store", "Swap"}
    PROVE  /\ AfterFast(t) \in {"find2", "put"} /\ Kind(t) \in Putters
           /\ AfterFast(t) = "find2" => Kind(t) = "Store"
  BY DEF AfterFast, Putters, Storing, Swaps

\* The first lookup of Store and Swap.
LEMMA FastFindQuiet ==
    ASSUME Inv, NEW t \in Call, FastFind(t)
    PROVE  Quiet(t)
<1>1. UNCHANGED <<shared, now, config>> /\ th[t].pc = "fast"
  BY DEF FastFind, At
<1>2. Kind(t) \in {"Store", "Swap"} /\ th[t].pc \notin Marked \cup Post
  BY <1>1, Basics DEF CallOK, KindOK, Marked, Post
<1>3. CASE Found = Nil
  BY <1>1, <1>2, <1>3, AfterFastNext, NextAttempt DEF FastFind
<1>4. CASE Found # Nil
  <2>1. Found \in Obj
    BY <1>4, Basics DEF Found
  <2>2. QED
    BY <1>1, <1>2, <1>4, <2>1, FindsEntry DEF FastFind
<1>5. QED
  BY <1>3, <1>4

\* Its look at the box.
LEMMA FastBoxQuiet ==
    ASSUME Inv, NEW t \in Call, FastBox(t)
    PROVE  Quiet(t)
<1> DEFINE b == value[th[t].ent]
<1>1. UNCHANGED <<shared, now, config>> /\ th[t].pc = "fastBox"
  BY DEF FastBox, At
<1>2. /\ Kind(t) \in {"Store", "Swap"} /\ th[t].pc \notin Marked \cup Post
      /\ th[t].ent \in Obj /\ b \in Obj \cup {Nil}
  BY <1>1, Basics DEF CallOK, KindOK, HoldsOK, Marked, Post
<1>3. CASE b # Nil /\ SameShape(b, t)
  <2>1. Set(t, [pc |-> "swapData", box |-> b])
    BY <1>3 DEF FastBox
  <2>2. b \in Obj /\ exp[b] = 0
    BY <1>2, <1>3, Basics DEF SameShape, IsSimple, HasMeta, LimitsOK, Operations
  <2> HIDE DEF b
  <2>3. QED
    BY <1>1, <1>2, <2>1, <2>2, TakesBox
<1>4. CASE ~(b # Nil /\ SameShape(b, t))
  <2>1. Goto(t, AfterFast(t))
    BY <1>4 DEF FastBox
  <2>2. QED
    BY <1>1, <1>2, <2>1, AfterFastNext, NextAttempt
<1>5. QED
  BY <1>3, <1>4

\* The second lookup of Store.
LEMMA InlineFindQuiet ==
    ASSUME Inv, NEW t \in Call, InlineFind(t)
    PROVE  Quiet(t)
<1>1. UNCHANGED <<shared, now, config>> /\ th[t].pc = "find2"
  BY DEF InlineFind, At
<1>2. Kind(t) = "Store" /\ Kind(t) \in Putters /\ th[t].pc \notin Marked \cup Post
  BY <1>1, Basics DEF CallOK, KindOK, Marked, Post, Putters, Storing
<1>3. CASE Found = Nil
  BY <1>1, <1>2, <1>3, NextAttempt DEF InlineFind
<1>4. CASE Found # Nil
  <2>1. Found \in Obj
    BY <1>4, Basics DEF Found
  <2>2. QED
    BY <1>1, <1>2, <1>4, <2>1, FindsEntry DEF InlineFind
<1>5. QED
  BY <1>3, <1>4

\* Its look at the box.
LEMMA InlineBoxQuiet ==
    ASSUME Inv, NEW t \in Call, InlineBox(t)
    PROVE  Quiet(t)
<1> DEFINE b == value[th[t].ent]
<1>1. UNCHANGED <<shared, now, config>> /\ th[t].pc = "inlineBox"
  BY DEF InlineBox, At
<1>2. /\ Kind(t) = "Store" /\ Kind(t) \in Putters /\ th[t].pc \notin Marked \cup Post
      /\ th[t].ent \in Obj /\ b \in Obj \cup {Nil}
  BY <1>1, Basics DEF CallOK, KindOK, HoldsOK, Marked, Post, Putters, Storing
<1>3. CASE b # Nil /\ exp[b] = 0 /\ ~Depleted(b)
  <2>1. Set(t, [pc |-> "inlineCAS", box |-> b])
    BY <1>3 DEF InlineBox
  <2> HIDE DEF b
  <2>2. QED
    BY <1>1, <1>2, <1>3, <2>1, TakesBox
<1>4. CASE ~(b # Nil /\ exp[b] = 0 /\ ~Depleted(b))
  <2>1. Goto(t, "put")
    BY <1>4 DEF InlineBox
  <2>2. QED
    BY <1>1, <1>2, <2>1, NextAttempt
<1>5. QED
  BY <1>3, <1>4

\* The data word of a live simple box is replaced.
LEMMA SwapDataQuiet ==
    ASSUME Inv, NEW t \in Call, SwapData(t)
    PROVE  Quiet(t)
<1> DEFINE b == th[t].box
           r == Answer(IF Kind(t) = "Swap" THEN data[b] ELSE Nil, TRUE)
<1>1. /\ th[t].pc = "swapData"
      /\ UNCHANGED <<slot, ctrl, value, hits, exp, cnt, gate, now, noClone, op>>
  BY DEF SwapData, At, config
<1>2. /\ Kind(t) \in {"Store", "Swap"} /\ th[t].pc \notin Marked \cup Post /\ Fresh(t)
      /\ b \in Obj
  BY <1>1, Basics DEF CallOK, KindOK, HoldsOK, FreshOK, Checked, Marked, Post
<1>3. CASE data[b] = Dead
  <2>1. Goto(t, AfterFast(t)) /\ UNCHANGED <<shared, now, config>>
    BY <1>1, <1>3 DEF SwapData, shared, config
  <2>2. QED
    BY <1>2, <2>1, AfterFastNext, NextAttempt
<1>4. CASE data[b] # Dead
  <2>1. Return(t, r) /\ data' = [data EXCEPT ![b] = op[t].val]
    BY <1>4 DEF SwapData
  <2>2. data' \in [Obj -> Value \cup {Dead, Nil}]
    <3>1. op[t].val \in Value \cup {Nil}
      BY Basics DEF Operations
    <3>2. QED
      BY <2>1, <3>1, Basics
  <2>3. Ends(t, "done", r)
    BY <2>1, Basics, ReturnEnds DEF Return, Tidying
  <2> HIDE DEF r
  <2>4. Calm(t)
    BY <1>1, <1>2, <2>3, EndIsCalm DEF Tidying
  <2>5. QED
    BY <1>1, <2>2, <2>4 DEF Quiet, GateStep
<1>5. QED
  BY <1>3, <1>4

\* LoadOrStore's lookups outside the gate.
LEMMA LookupFindQuiet ==
    ASSUME Inv, NEW t \in Call, LookupFind(t)
    PROVE  Quiet(t)
<1>1. /\ UNCHANGED <<shared, now, config>> /\ th[t].pc \in {"los1", "los2"}
      /\ UNCHANGED <<slot, gate, exp, op>>
  BY DEF LookupFind, shared, config
<1>2. /\ Kind(t) \in LoadOrStores /\ Kind(t) \in Putters /\ th[t].pc \notin Marked \cup Post
  BY <1>1, Basics DEF CallOK, KindOK, Marked, Post, Putters
<1>3. CASE Found = Nil
  <2> DEFINE p == IF At(t, "los1") THEN "los2" ELSE "put"
  <2>1. Goto(t, p) /\ p \in {"los2", "put"}
    BY <1>3 DEF LookupFind
  <2> HIDE DEF p
  <2>2. QED
    BY <1>1, <1>2, <2>1, NextAttempt
<1>4. CASE Found # Nil
  <2>1. Found \in Obj
    BY <1>4, Basics DEF Found
  <2>2. Set(t, [pc |-> "losBox", ent |-> Found, ok |-> th[t].pc])
    BY <1>4 DEF LookupFind
  <2>3. Arrives(t, "losBox", Found, th[t].box, th[t].pc, th[t].bad) /\ SameAnswer(t)
    BY <2>2, Basics DEF HasLocals, Set, With, Tidy, Arrives, Moved, SameAnswer, Fields
  <2>4. CallOK(t)'
    BY <1>1, <1>2, <2>1, <2>3, Basics
       DEF Arrives, Moved, SameAnswer, CallOK, LocalTypes, KindOK, PathsOK, HoldsOK, GateOK,
           FreshOK, LoadOK, Kind, Clearing, Ending, Working, Checked
  <2>5. QED
    BY <1>1, <1>2, <2>3, <2>4, ArriveIsCalm, SharedUnchanged DEF Marked, Clearing, Ending
<1>5. QED
  BY <1>3, <1>4

\* Their look at the box.
LEMMA LookupBoxQuiet ==
    ASSUME Inv, NEW t \in Call, LookupBox(t)
    PROVE  Quiet(t)
<1> DEFINE b == value[th[t].ent]
<1>1. UNCHANGED <<shared, now, config>> /\ th[t].pc = "losBox"
  BY DEF LookupBox, At
<1>2. /\ Kind(t) \in LoadOrStores /\ Kind(t) \in Putters /\ th[t].pc \notin Marked \cup Post
      /\ th[t].ent \in Obj /\ b \in Obj \cup {Nil} /\ AfterLookup(t) \in {"los2", "put"}
  BY <1>1, Basics DEF CallOK, KindOK, HoldsOK, Marked, Post, Putters, AfterLookup
<1>3. CASE b # Nil /\ exp[b] = 0 /\ hits[b] = 0
  <2>1. Set(t, [pc |-> "losVal", box |-> b])
    BY <1>3 DEF LookupBox
  <2> HIDE DEF b
  <2>2. QED
    BY <1>1, <1>2, <1>3, <2>1, TakesBox
<1>4. CASE ~(b # Nil /\ exp[b] = 0 /\ hits[b] = 0)
  <2>1. Goto(t, AfterLookup(t))
    BY <1>4 DEF LookupBox
  <2>2. QED
    BY <1>1, <1>2, <2>1, NextAttempt
<1>5. QED
  BY <1>3, <1>4

\* Their answer.
LEMMA LookupValQuiet ==
    ASSUME Inv, NEW t \in Call, LookupVal(t)
    PROVE  Quiet(t)
<1> DEFINE d == data[th[t].box]
<1>1. /\ UNCHANGED <<shared, now, config>> /\ th[t].pc = "losVal"
      /\ UNCHANGED <<slot, gate, exp, op>>
  BY DEF LookupVal, At, shared, config
<1>2. /\ Kind(t) \in LoadOrStores /\ Kind(t) \in Putters /\ th[t].pc \notin Marked \cup Post
      /\ Fresh(t) /\ AfterLookup(t) \in {"los2", "put"} /\ Kind(t) # "Load"
  BY <1>1, Basics
     DEF CallOK, KindOK, FreshOK, Checked, Marked, Post, Putters, LoadOrStores, AfterLookup
<1>3. CASE d = Dead
  <2>1. Goto(t, AfterLookup(t))
    BY <1>3 DEF LookupVal
  <2>2. QED
    BY <1>1, <1>2, <2>1, NextAttempt
<1>4. CASE d # Dead
  <2>1. Ends(t, "done", Answer(d, TRUE))
    BY <1>4, Basics, ReturnEnds DEF LookupVal, Return, Tidying
  <2>2. QED
    BY <1>1, <1>2, <2>1, EndIsCalm, SharedUnchanged DEF Tidying
<1>5. QED
  BY <1>3, <1>4

\* CompareAndSwap's lookup outside the gate.
LEMMA PreFindQuiet ==
    ASSUME Inv, NEW t \in Call, PreFind(t)
    PROVE  Quiet(t)
<1>1. /\ UNCHANGED <<shared, now, config>> /\ th[t].pc = "preFind"
      /\ UNCHANGED <<slot, gate, exp, op>>
  BY DEF PreFind, At, shared, config
<1>2. Kind(t) \in Matchers /\ th[t].pc \notin Marked \cup Post
  BY <1>1, Basics DEF CallOK, KindOK, Marked, Post
<1>3. CASE Found = Nil
  <2>1. Ends(t, "done", Absent)
    BY <1>3, Basics, ReturnEnds DEF PreFind, Return, Tidying
  <2>2. QED
    BY <1>1, <1>2, <2>1, EndIsCalm, SharedUnchanged DEF Absent, Answer, Tidying
<1>4. CASE Found # Nil
  <2>1. Found \in Obj
    BY <1>4, Basics DEF Found
  <2>2. QED
    BY <1>1, <1>2, <1>4, <2>1, FindsEntry DEF PreFind
<1>5. QED
  BY <1>3, <1>4

\* Its look at the box.
LEMMA PreBoxQuiet ==
    ASSUME Inv, NEW t \in Call, PreBox(t)
    PROVE  Quiet(t)
<1> DEFINE b == value[th[t].ent]
<1>1. /\ UNCHANGED <<shared, now, config>> /\ th[t].pc = "preBox"
      /\ UNCHANGED <<slot, gate, exp, op>>
  BY DEF PreBox, At, shared, config
<1>2. /\ Kind(t) \in Matchers /\ th[t].pc \notin Marked \cup Post
      /\ th[t].ent \in Obj /\ b \in Obj \cup {Nil}
  BY <1>1, Basics DEF CallOK, KindOK, HoldsOK, Marked, Post
<1>3. CASE Return(t, Absent)
  <2>1. Ends(t, "done", Absent)
    BY <1>3, Basics, ReturnEnds DEF Return, Tidying
  <2>2. QED
    BY <1>1, <1>2, <2>1, EndIsCalm, SharedUnchanged DEF Absent, Answer, Tidying
<1>4. CASE Goto(t, "gateFind")
  BY <1>1, <1>2, <1>4, NextAttempt
<1>5. CASE b # Nil /\ exp[b] = 0 /\ Set(t, [pc |-> "preVal", box |-> b])
  <2> HIDE DEF b
  <2>1. QED
    BY <1>1, <1>2, <1>5, TakesBox
<1>6. QED
  BY <1>3, <1>4, <1>5 DEF PreBox

\* Its comparison.
LEMMA PreValQuiet ==
    ASSUME Inv, NEW t \in Call, PreVal(t)
    PROVE  Quiet(t)
<1>1. /\ UNCHANGED <<shared, now, config>> /\ th[t].pc = "preVal"
      /\ UNCHANGED <<slot, gate, exp, op>>
  BY DEF PreVal, At, shared, config
<1>2. Kind(t) \in Matchers /\ th[t].pc \notin Marked \cup Post
  BY <1>1, Basics DEF CallOK, KindOK, Marked, Post
<1>3. CASE Return(t, Absent)
  <2>1. Ends(t, "done", Absent)
    BY <1>3, Basics, ReturnEnds DEF Return, Tidying
  <2>2. QED
    BY <1>1, <1>2, <2>1, EndIsCalm, SharedUnchanged DEF Absent, Answer, Tidying
<1>4. CASE Goto(t, "gateFind")
  BY <1>1, <1>2, <1>4, NextAttempt
<1>5. QED
  BY <1>3, <1>4 DEF PreVal

-------------------------------------------------------------------------------
\* The writers inside the gate, as long as they store nothing.
WorkKinds(t, p) ==
    /\ p \in {"revive", "replaceCAS"} => Kind(t) \in Putters
    /\ p = "replace" => Kind(t) \in Putters \ LoadOrStores
    /\ p \in {"scan", "current", "scanVal", "build"} => Kind(t) \in LoadOrStores
    /\ p \in {"match", "matchVal", "claim", "unlink", "replaceData", "casBox", "end"} =>
         Kind(t) \in Matchers

\* The methods that work inside the gate, and where.
LEMMA InsideGate ==
    ASSUME Inv, NEW t \in Call, th[t].pc \in Working
    PROVE  /\ t \in gate.writers /\ slot \in Obj /\ th[t].ent = slot
           /\ value[th[t].ent] \in Obj \cup {Nil}
           /\ WorkKinds(t, th[t].pc)
           /\ Kind(t) \in Putters \cup Matchers /\ Kind(t) # "Load"
           /\ Kind(t) \notin Readers /\ Kind(t) \notin Sweepers
           /\ th[t].pc \notin Marked \cup Post
<1>1. t \in gate.writers /\ slot \in Obj /\ th[t].ent = slot
  BY Basics DEF CallOK, GateOK
<1>2. WorkKinds(t, th[t].pc) /\ th[t].pc \notin Marked \cup Post
  BY Basics DEF CallOK, KindOK, WorkKinds, Working, Marked, Post
<1>3. Kind(t) \in Putters \cup Matchers
  BY <1>2 DEF WorkKinds, Working, Putters
<1>4. QED
  BY <1>1, <1>2, <1>3, Basics
     DEF Putters, Storing, Swaps, LoadOrStores, Matchers, Removals, Readers, Sweepers

\* A writer inside the gate goes on with its entry.
LEMMA WorkGoesOn ==
    ASSUME Inv, NEW t \in Call, th[t].pc \in Working, NEW p \in Working \ {"end"},
           NEW b \in Obj \cup {Nil}, NEW o, NEW x,
           Arrives(t, p, th[t].ent, b, o, x), SameAnswer(t), WorkKinds(t, p),
           UNCHANGED <<slot, gate, exp, now, op>>,
           p \in Checked => b \in Obj /\ (exp[b] > 0 => th[t].start < exp[b]),
           p = "scanVal" => o \in {"build", "replaceCAS"}
    PROVE  Calm(t)
<1>1. /\ t \in gate.writers /\ slot # Nil /\ th[t].ent = slot /\ Kind(t) \notin Sweepers
      /\ th[t].pc \notin Marked \cup Post /\ Kind(t) # "Load"
  BY InsideGate, Basics
<1>2. p \in Checked => Fresh(t)'
  BY DEF Fresh, Arrives
<1>3. p \in Working /\ p \notin Marked \cup Clearing \cup Ending
  BY DEF Working, Marked, Clearing, Ending
<1>4. CallOK(t)'
  <2>1. LocalTypes(t)' /\ KindOK(t)' /\ PathsOK(t)' /\ LoadOK(t)'
    BY <1>1, Basics
       DEF CallOK, LocalTypes, KindOK, PathsOK, LoadOK, WorkKinds, Arrives, Moved, SameAnswer,
           Kind, Working, Putters
  <2>2. HoldsOK(t)' /\ GateOK(t)'
    BY <1>1 DEF HoldsOK, GateOK, Arrives, Working, Checked, Clearing, Kind
  <2>3. FreshOK(t)'
    BY <1>2, <1>3, Basics DEF CallOK, FreshOK, Arrives, Working
  <2>4. QED
    BY <2>1, <2>2, <2>3 DEF CallOK
<1>5. QED
  BY <1>1, <1>3, <1>4, ArriveIsCalm

\* It goes to clear the entry.
LEMMA WorkClears ==
    ASSUME Inv, NEW t \in Call, th[t].pc \in Working, NEW b \in Obj, NEW o, NEW x, NEW r,
           ToClear(t, b, o, x, r), ClearPath(Kind(t), o, x),
           UNCHANGED <<slot, gate, exp, now, op>>,
           Expired(b) \/ Depleted(b), Kind(t) \notin Putters => ~r.ok
    PROVE  Calm(t)
<1>1. /\ t \in gate.writers /\ slot # Nil /\ th[t].ent = slot /\ th[t].ent \in Obj
      /\ Kind(t) \notin Sweepers /\ th[t].pc \notin Marked \cup Post /\ Kind(t) # "Load"
  BY InsideGate, Basics
<1>2. Expired(b) \/ hits[b] # 0
  BY Basics DEF Depleted
<1>3. CallOK(t)' /\ Moved(t) /\ th'[t].pc = "clear"
  BY <1>1, <1>2, ToClearKeepsCall
<1>4. QED
  BY <1>1, <1>3 DEF Calm, Moved, Counted, Kind, Marked

\* A storing method enters the gate and probes.
LEMMA PutProbeQuiet ==
    ASSUME Inv, NEW t \in Call, PutProbe(t)
    PROVE  Quiet(t)
<1>1. /\ th[t].pc = "put" /\ Enter(t)
      /\ UNCHANGED <<slot, ctrl, value, data, hits, exp, cnt, now, noClone, op>>
  BY DEF PutProbe, At, config
<1>2. Kind(t) \in Putters /\ th[t].pc \notin Marked \cup Post /\ Kind(t) \notin Readers
  BY <1>1, Basics
     DEF CallOK, KindOK, Marked, Post, Putters, Storing, Swaps, LoadOrStores, Readers
<1>3. t \in gate'.writers
  BY <1>1 DEF Enter, Inv, StateTypes
<1>4. Calm(t)
  <2>1. CASE slot = Nil
    <3>1. Goes(t, "insert")
      BY <2>1, Basics, GotoGoes DEF PutProbe, Tidying
    <3>2. CallOK(t)'
      BY <1>1, <1>2, <1>3, <3>1, Basics
         DEF Goes, Arrives, Moved, SameAnswer, CallOK, LocalTypes, KindOK, PathsOK, HoldsOK,
             GateOK, FreshOK, LoadOK, Kind, Clearing, Ending, Working, Checked
    <3>3. QED
      BY <1>1, <1>2, <3>1, <3>2, ArriveIsCalm DEF Goes, Marked, Clearing, Ending
  <2>2. CASE slot # Nil
    <3> DEFINE p == IF Kind(t) \in LoadOrStores THEN "scan" ELSE "replace"
    <3>1. Set(t, [pc |-> p, ent |-> slot])
      BY <2>2 DEF PutProbe
    <3>2. p \in {"scan", "replace"} /\ (p = "scan" <=> Kind(t) \in LoadOrStores)
      OBVIOUS
    <3> HIDE DEF p
    <3>3. Arrives(t, p, slot, th[t].box, th[t].ok, th[t].bad) /\ SameAnswer(t)
      BY <3>1, <3>2, Basics DEF HasLocals, Set, With, Tidy, Arrives, Moved, SameAnswer, Fields
    <3>4. CallOK(t)'
      BY <1>1, <1>2, <1>3, <2>2, <3>2, <3>3, Basics
         DEF Arrives, Moved, SameAnswer, CallOK, LocalTypes, KindOK, PathsOK, HoldsOK, GateOK,
             FreshOK, LoadOK, Kind, Clearing, Ending, Working, Checked
    <3>5. QED
      BY <1>1, <1>2, <3>2, <3>3, <3>4, ArriveIsCalm DEF Marked, Clearing, Ending
  <2>3. QED
    BY <2>1, <2>2
<1>5. QED
  BY <1>1, <1>4, Basics DEF Quiet, GateStep

\* One round of replaceOrRevive.
LEMMA ReplaceOrReviveQuiet ==
    ASSUME Inv, NEW t \in Call, ReplaceOrRevive(t)
    PROVE  Quiet(t)
<1> DEFINE b == value[th[t].ent]
<1>1. /\ UNCHANGED <<shared, now, config>> /\ th[t].pc = "replace"
      /\ UNCHANGED <<slot, gate, exp, op>>
  BY DEF ReplaceOrRevive, At, shared, config
<1>2. /\ th[t].pc \in Working /\ b \in Obj \cup {Nil} /\ Kind(t) \in Putters \ LoadOrStores
  BY <1>1, InsideGate DEF Working, WorkKinds
<1>3. CASE Goto(t, "revive")
  <2>1. Goes(t, "revive")
    BY <1>3, Basics, GotoGoes DEF Tidying
  <2>2. th[t].box \in Obj \cup {Nil}
    BY Basics DEF CallOK, LocalTypes
  <2>3. Calm(t)
    BY <1>1, <1>2, <2>1, <2>2, WorkGoesOn DEF Goes, WorkKinds, Working, Checked
  <2>4. QED
    BY <1>1, <2>3, SharedUnchanged
<1>4. CASE b # Nil /\ (Expired(b) \/ Depleted(b)) /\ ToClear(t, b, "replace", "replace", th[t].res)
  <2>1. ClearPath(Kind(t), "replace", "replace")
    BY <1>2 DEF ClearPath
  <2> HIDE DEF b
  <2>2. Calm(t)
    BY <1>1, <1>2, <1>4, <2>1, WorkClears
  <2>3. QED
    BY <1>1, <2>2, SharedUnchanged
<1>5. CASE b # Nil /\ ~Expired(b) /\ Set(t, [pc |-> "replaceCAS", box |-> b, word |-> data[b]])
  <2>1. exp[b] > 0 => th[t].start < exp[b]
    BY <1>2, <1>5, NotExpired
  <2> HIDE DEF b
  <2>2. Arrives(t, "replaceCAS", th[t].ent, b, th[t].ok, th[t].bad) /\ SameAnswer(t)
    BY <1>5, Basics DEF HasLocals, Set, With, Tidy, Arrives, Moved, SameAnswer, Fields
  <2>3. Calm(t)
    BY <1>1, <1>2, <1>5, <2>1, <2>2, WorkGoesOn DEF WorkKinds, Working
  <2>4. QED
    BY <1>1, <2>3, SharedUnchanged
<1>6. QED
  BY <1>3, <1>4, <1>5 DEF ReplaceOrRevive

\* loadOrStoreSlow and loadOrStoreCurrent look at the entry.
LEMMA ScanQuiet ==
    ASSUME Inv, NEW t \in Call, Scan(t)
    PROVE  Quiet(t)
<1> DEFINE b == value[th[t].ent]
           first == At(t, "scan")
           miss == IF first THEN "build" ELSE "revive"
           go == IF first THEN "build" ELSE "current"
           way == IF first THEN "build" ELSE "replaceCAS"
<1>1. /\ UNCHANGED <<shared, now, config>> /\ th[t].pc \in {"scan", "current"}
      /\ UNCHANGED <<slot, gate, exp, op>>
  BY DEF Scan, shared, config
<1>2. /\ th[t].pc \in Working /\ b \in Obj \cup {Nil}
      /\ Kind(t) \in LoadOrStores /\ Kind(t) \in Putters
  BY <1>1, InsideGate DEF Working, WorkKinds, Putters
<1>3. CASE Goto(t, miss)
  <2>1. miss \in {"build", "revive"}
    OBVIOUS
  <2> HIDE DEF miss
  <2>2. Goes(t, miss)
    BY <1>3, <2>1, Basics, GotoGoes DEF Tidying
  <2>3. th[t].box \in Obj \cup {Nil}
    BY Basics DEF CallOK, LocalTypes
  <2>4. Calm(t)
    BY <1>1, <1>2, <2>1, <2>2, <2>3, WorkGoesOn DEF Goes, WorkKinds, Working, Checked
  <2>5. QED
    BY <1>1, <2>4, SharedUnchanged
<1>4. CASE b # Nil /\ (Expired(b) \/ Depleted(b)) /\ ToClear(t, b, go, th[t].pc, th[t].res)
  <2>1. ClearPath(Kind(t), go, th[t].pc)
    BY <1>1, <1>2 DEF ClearPath, At
  <2> HIDE DEF b, go
  <2>2. Calm(t)
    BY <1>1, <1>2, <1>4, <2>1, WorkClears
  <2>3. QED
    BY <1>1, <2>2, SharedUnchanged
<1>5. CASE b # Nil /\ ~Expired(b) /\ Set(t, [pc |-> "scanVal", box |-> b, ok |-> way])
  <2>1. exp[b] > 0 => th[t].start < exp[b]
    BY <1>2, <1>5, NotExpired
  <2>2. way \in {"build", "replaceCAS"}
    OBVIOUS
  <2> HIDE DEF b, way
  <2>3. Arrives(t, "scanVal", th[t].ent, b, way, th[t].bad) /\ SameAnswer(t)
    BY <1>5, Basics DEF HasLocals, Set, With, Tidy, Arrives, Moved, SameAnswer, Fields
  <2>4. /\ "scanVal" \in Working \ {"end"} /\ WorkKinds(t, "scanVal") /\ th[t].pc \in Working
        /\ b \in Obj /\ b \in Obj \cup {Nil}
        /\ UNCHANGED <<slot, gate, exp, now, op>>
    BY <1>1, <1>2, <1>5 DEF WorkKinds, Working
  <2>5. Calm(t)
    BY <2>1, <2>2, <2>3, <2>4, WorkGoesOn
  <2>6. QED
    BY <1>1, <2>5, SharedUnchanged
<1>6. QED
  BY <1>3, <1>4, <1>5 DEF Scan

\* They answer with its value, or find it claimed.
LEMMA ScanValQuiet ==
    ASSUME Inv, NEW t \in Call, ScanVal(t)
    PROVE  Quiet(t)
<1> DEFINE d == data[th[t].box]
<1>1. /\ th[t].pc = "scanVal"
      /\ UNCHANGED <<slot, ctrl, value, data, hits, exp, cnt, now, noClone, op>>
  BY DEF ScanVal, At, config
<1>2. /\ th[t].pc \in Working /\ th[t].pc \notin Marked /\ Kind(t) \in LoadOrStores
      /\ Kind(t) \in Putters /\ Kind(t) # "Load" /\ Fresh(t) /\ th[t].box \in Obj
      /\ th[t].ok \in {"build", "replaceCAS"}
  BY <1>1, InsideGate, Basics
     DEF Working, WorkKinds, Putters, CallOK, FreshOK, Checked, HoldsOK, PathsOK, Marked
<1>3. CASE d = Dead
  <2>1. Goto(t, th[t].ok) /\ UNCHANGED gate
    BY <1>3 DEF ScanVal
  <2>2. Goes(t, th[t].ok)
    BY <1>2, <2>1, Basics, GotoGoes DEF Tidying
  <2>3. exp[th[t].box] > 0 => th[t].start < exp[th[t].box]
    BY <1>2, Basics DEF Fresh
  <2>4. Calm(t)
    BY <1>1, <1>2, <2>1, <2>2, <2>3, WorkGoesOn DEF Goes, WorkKinds, Working
  <2>5. QED
    BY <1>1, <2>1, <2>4, Basics DEF Quiet, GateStep
<1>4. CASE d # Dead
  <2>1. Leave(t) /\ Set(t, [pc |-> "done", res |-> Answer(d, TRUE)])
    BY <1>4 DEF ScanVal, LeaveWith, Return
  <2>2. QED
    BY <1>1, <1>2, <2>1, LeaveQuiet, Basics
<1>5. QED
  BY <1>3, <1>4

\* A removal or a comparison enters the gate and finds the entry.
LEMMA GateFindQuiet ==
    ASSUME Inv, NEW t \in Call, GateFind(t)
    PROVE  Quiet(t)
<1>1. /\ th[t].pc = "gateFind"
      /\ UNCHANGED <<slot, ctrl, value, data, hits, exp, cnt, now, noClone, op>>
  BY DEF GateFind, At, config
<1>2. /\ Kind(t) \in Matchers /\ Kind(t) # "Load" /\ th[t].pc \notin Marked \cup Post
  BY <1>1, Basics DEF CallOK, KindOK, Marked, Post, Matchers, Removals
<1>3. CASE Found = Nil
  <2>1. Leave(t) /\ Set(t, [pc |-> "done", res |-> Absent])
    BY <1>3 DEF GateFind, LeaveWith, Return
  <2>2. QED
    BY <1>1, <1>2, <2>1, LeaveQuiet, Basics DEF Absent, Answer
<1>4. CASE Found # Nil
  <2>1. Enter(t) /\ Set(t, [pc |-> "match", ent |-> Found]) /\ Found = slot /\ slot # Nil
    BY <1>4 DEF GateFind, Found
  <2>2. t \in gate'.writers
    BY <2>1 DEF Enter, Inv, StateTypes
  <2>3. Arrives(t, "match", slot, th[t].box, th[t].ok, th[t].bad) /\ SameAnswer(t)
    BY <2>1, Basics DEF HasLocals, Set, With, Tidy, Arrives, Moved, SameAnswer, Fields
  <2>4. CallOK(t)'
    BY <1>1, <1>2, <2>1, <2>2, <2>3, Basics
       DEF Arrives, Moved, SameAnswer, CallOK, LocalTypes, KindOK, PathsOK, HoldsOK, GateOK,
           FreshOK, LoadOK, Kind, Clearing, Ending, Working, Checked
  <2>5. Calm(t)
    BY <1>1, <1>2, <2>3, <2>4, ArriveIsCalm DEF Marked, Clearing, Ending
  <2>6. QED
    BY <1>1, <2>1, <2>5, Basics DEF Quiet, GateStep
<1>5. QED
  BY <1>3, <1>4

\* It looks at the box.
LEMMA MatchBoxQuiet ==
    ASSUME Inv, NEW t \in Call, MatchBox(t)
    PROVE  Quiet(t)
<1> DEFINE b == value[th[t].ent]
           p == IF Kind(t) = "Delete" /\ IsSimple(b) THEN "claim" ELSE "matchVal"
<1>1. /\ th[t].pc = "match"
      /\ UNCHANGED <<slot, ctrl, value, data, hits, exp, cnt, now, noClone, op>>
  BY DEF MatchBox, At, config
<1>2. /\ th[t].pc \in Working /\ th[t].pc \notin Marked /\ b \in Obj \cup {Nil}
      /\ Kind(t) \in Matchers /\ Kind(t) # "Load"
  BY <1>1, InsideGate DEF Working, WorkKinds, Marked
<1>3. CASE LeaveWith(t, Absent)
  <2>1. Leave(t) /\ Set(t, [pc |-> "done", res |-> Absent])
    BY <1>3 DEF LeaveWith, Return
  <2>2. QED
    BY <1>1, <1>2, <2>1, LeaveQuiet, Basics DEF Absent, Answer
<1>4. CASE /\ b # Nil /\ (Expired(b) \/ Depleted(b)) /\ UNCHANGED gate
           /\ ToClear(t, b, "end", "match", Absent)
  <2>1. ClearPath(Kind(t), "end", "match") /\ ~Absent.ok
    BY <1>2 DEF ClearPath, Absent, Answer
  <2> HIDE DEF b
  <2>2. Calm(t)
    BY <1>1, <1>2, <1>4, <2>1, WorkClears
  <2>3. QED
    BY <1>1, <1>4, <2>2, Basics DEF Quiet, GateStep
<1>5. CASE b # Nil /\ ~Expired(b) /\ UNCHANGED gate /\ Set(t, [box |-> b, pc |-> p])
  <2>1. exp[b] > 0 => th[t].start < exp[b]
    BY <1>2, <1>5, NotExpired
  <2>2. p \in {"claim", "matchVal"}
    OBVIOUS
  <2> HIDE DEF b, p
  <2>3. Arrives(t, p, th[t].ent, b, th[t].ok, th[t].bad) /\ SameAnswer(t)
    BY <1>5, <2>2, Basics DEF HasLocals, Set, With, Tidy, Arrives, Moved, SameAnswer, Fields
  <2>4. Calm(t)
    BY <1>1, <1>2, <1>5, <2>1, <2>2, <2>3, WorkGoesOn DEF WorkKinds, Working
  <2>5. QED
    BY <1>1, <1>5, <2>4, Basics DEF Quiet, GateStep
<1>6. QED
  BY <1>3, <1>4, <1>5 DEF MatchBox

\* What the removals and CompareAndSwap hold once they have looked at the box.
LEMMA HasMatched ==
    ASSUME Inv, NEW t \in Call,
           th[t].pc \in {"matchVal", "claim", "unlink", "replaceData", "casBox"}
    PROVE  /\ th[t].pc \in Working /\ th[t].pc \notin Marked
           /\ Kind(t) \in Matchers /\ Kind(t) # "Load"
           /\ th[t].box \in Obj /\ Fresh(t)
           /\ exp[th[t].box] > 0 => th[t].start < exp[th[t].box]
<1>1. /\ th[t].pc \in Working /\ th[t].pc \notin Marked
      /\ Kind(t) \in Matchers /\ Kind(t) # "Load"
  BY InsideGate DEF Working, WorkKinds, Marked
<1>2. th[t].box \in Obj /\ Fresh(t)
  BY Basics DEF CallOK, FreshOK, Checked, HoldsOK
<1>3. QED
  BY <1>1, <1>2, Basics DEF Fresh

\* They go on with the same box.
LEMMA MatchGoesOn ==
    ASSUME Inv, NEW t \in Call,
           th[t].pc \in {"matchVal", "claim", "unlink", "replaceData", "casBox"},
           NEW p \in {"match", "claim", "unlink", "replaceData", "casBox"},
           Arrives(t, p, th[t].ent, th[t].box, th[t].ok, th[t].bad), SameAnswer(t),
           UNCHANGED <<slot, gate, exp, now, op>>
    PROVE  Calm(t)
  BY HasMatched, WorkGoesOn DEF WorkKinds, Working

\* It compares the value.
LEMMA MatchValQuiet ==
    ASSUME Inv, NEW t \in Call, MatchVal(t)
    PROVE  Quiet(t)
<1> DEFINE b == th[t].box
           d == data[b]
           next == IF Kind(t) \in Removals
                   THEN IF IsSimple(b) THEN "claim" ELSE "unlink"
                   ELSE IF SameShape(b, t) THEN "replaceData" ELSE "casBox"
<1>1. /\ th[t].pc = "matchVal"
      /\ UNCHANGED <<slot, ctrl, value, data, hits, exp, cnt, now, noClone, op>>
  BY DEF MatchVal, At, config
<1>2. CASE LeaveWith(t, Absent)
  <2>1. Leave(t) /\ Set(t, [pc |-> "done", res |-> Absent])
    BY <1>2 DEF LeaveWith, Return
  <2>2. QED
    BY <1>1, <2>1, HasMatched, LeaveQuiet, Basics DEF Absent, Answer
<1>3. CASE Set(t, [pc |-> next, word |-> d]) /\ UNCHANGED gate
  <2>1. next \in {"claim", "unlink", "replaceData", "casBox"}
    OBVIOUS
  <2> HIDE DEF next, d
  <2>2. Arrives(t, next, th[t].ent, b, th[t].ok, th[t].bad) /\ SameAnswer(t)
    BY <1>3, <2>1, Basics DEF HasLocals, Set, With, Tidy, Arrives, Moved, SameAnswer, Fields
  <2>3. Calm(t)
    BY <1>1, <1>3, <2>1, <2>2, MatchGoesOn
  <2>4. QED
    BY <1>1, <1>3, <2>3, Basics DEF Quiet, GateStep
<1>4. QED
  BY <1>2, <1>3 DEF MatchVal

\* A removal claims a simple box.
LEMMA ClaimQuiet ==
    ASSUME Inv, NEW t \in Call, Claim(t)
    PROVE  Quiet(t)
<1> DEFINE b == th[t].box
<1>1. /\ th[t].pc = "claim"
      /\ UNCHANGED <<slot, ctrl, value, hits, exp, cnt, now, noClone, op>>
  BY DEF Claim, At, config
<1>2. CASE /\ data' = [data EXCEPT ![b] = Dead] /\ UNCHANGED gate
           /\ Set(t, [pc |-> "unlink", word |-> data[b]])
  <2>1. data' \in [Obj -> Value \cup {Dead, Nil}]
    BY <1>2, Basics
  <2>2. Arrives(t, "unlink", th[t].ent, b, th[t].ok, th[t].bad) /\ SameAnswer(t)
    BY <1>2, Basics DEF HasLocals, Set, With, Tidy, Arrives, Moved, SameAnswer, Fields
  <2>3. Calm(t)
    BY <1>1, <1>2, <2>2, MatchGoesOn
  <2>4. QED
    BY <1>1, <1>2, <2>1, <2>3 DEF Quiet, GateStep
<1>3. CASE LeaveWith(t, Absent) /\ UNCHANGED data
  <2>1. Leave(t) /\ Set(t, [pc |-> "done", res |-> Absent])
    BY <1>3 DEF LeaveWith, Return
  <2>2. QED
    BY <1>1, <1>3, <2>1, HasMatched, LeaveQuiet, Basics DEF Absent, Answer
<1>4. CASE Goto(t, "match") /\ UNCHANGED <<data, gate>>
  <2>1. Goes(t, "match")
    BY <1>4, Basics, GotoGoes DEF Tidying
  <2>2. Calm(t)
    BY <1>1, <1>4, <2>1, MatchGoesOn DEF Goes
  <2>3. QED
    BY <1>1, <1>4, <2>2, Basics DEF Quiet, GateStep
<1>5. QED
  BY <1>2, <1>3, <1>4 DEF Claim

\* compareAndSwap replaces the data word it has compared.
LEMMA ReplaceDataQuiet ==
    ASSUME Inv, NEW t \in Call, ReplaceData(t)
    PROVE  Quiet(t)
<1> DEFINE b == th[t].box
           r == Answer(Nil, TRUE)
<1>1. /\ th[t].pc = "replaceData"
      /\ UNCHANGED <<slot, ctrl, value, hits, exp, cnt, now, noClone, op>>
  BY DEF ReplaceData, At, config
<1>2. CASE data' = [data EXCEPT ![b] = op[t].val] /\ EndWith(t, r)
  <2>1. op[t].val \in Value \cup {Nil}
    BY Basics DEF Operations
  <2>2. data' \in [Obj -> Value \cup {Dead, Nil}]
    BY <1>2, <2>1, Basics
  <2>3. PICK p \in {"done", "resize"} : Set(t, [pc |-> p, res |-> r])
    BY <1>2 DEF EndWith
  <2>4. Leave(t)
    BY <1>2 DEF EndWith
  <2> HIDE DEF r
  <2>5. QED
    BY <1>1, <2>2, <2>3, <2>4, HasMatched, LeaveQuiet
<1>3. CASE Goto(t, "match") /\ UNCHANGED <<data, gate>>
  <2>1. Goes(t, "match")
    BY <1>3, Basics, GotoGoes DEF Tidying
  <2>2. Calm(t)
    BY <1>1, <1>3, <2>1, MatchGoesOn DEF Goes
  <2>3. QED
    BY <1>1, <1>3, <2>2, Basics DEF Quiet, GateStep
<1>4. QED
  BY <1>2, <1>3 DEF ReplaceData

\* A comparison or a cloner panics.
LEMMA UserPanicsQuiet ==
    ASSUME Inv, NEW t \in Call, UserPanics(t)
    PROVE  Quiet(t)
<1>1. /\ UNCHANGED <<shared, now, config>> /\ UNCHANGED <<slot, gate, exp, op>>
      /\ th[t].pc \in {"preVal", "matchVal", "insert", "build"} /\ Goto(t, "panic")
  BY DEF UserPanics, shared, config
<1>2. Goes(t, "panic")
  BY <1>1, Basics, GotoGoes DEF Tidying
<1>3. CallOK(t)'
  BY <1>1, <1>2, Basics
     DEF Goes, Arrives, Moved, SameAnswer, CallOK, LocalTypes, KindOK, PathsOK, HoldsOK, GateOK,
         FreshOK, LoadOK, Kind, Clearing, Ending, Working, Checked
<1>4. QED
  BY <1>1, <1>2, <1>3, ArriveIsCalm, SharedUnchanged DEF Goes, Marked, Post, Clearing, Ending

-------------------------------------------------------------------------------
\* The steps that store a box, unlink one, or insert an entry.

\* While a writer is in the gate nothing is being rebuilt.
LEMMA NoRebuild ==
    ASSUME Inv, NEW t \in gate.writers, NEW u \in Call
    PROVE  th[u].pc \notin {"rebuild", "rebuildCount"}
  BY DEF Inv, CallOK, GateOK

\* An entry is pointed to the call's own box, or to none.
LEMMA PointKeeps ==
    ASSUME Inv, NEW t \in Call, Calm(t), GateStep(t),
           NEW e \in Obj, NEW x \in {t, Nil}, value' = [value EXCEPT ![e] = x],
           x = t => th'[t].pc \in Post,
           UNCHANGED <<slot, ctrl, data, hits, exp, now, noClone, op>>,
           cnt' \in [live : Int, used : Int, tomb : Int, bytes : Int, needs : BOOLEAN],
           cnt.needs => cnt'.needs,
           x = t /\ RequiresCleanup(t) => cnt'.needs /\ t \in gate.writers,
           Unlimited =>
             /\ cnt'.live - cnt.live = One(InSlot' # Nil) - One(InSlot # Nil)
             /\ cnt'.used = cnt.used
             /\ cnt'.tomb - cnt.tomb = cnt.live - cnt'.live
             /\ (InSlot' # Nil <=> InSlot # Nil) \/ t \in gate.writers
    PROVE  Inv'
<1>1. /\ th' = [u \in Call |-> th'[u]] /\ \A u \in Call \ {t} : th'[u] = th[u]
  BY DEF Calm
<1>2. value' \in [Obj -> Obj \cup {Nil}]
  BY Basics
<1>3. StateTypes'
  BY <1>1, <1>2, GateTypes DEF Inv, StateTypes, TypeOK
<1>4. Beside(t)
  BY <1>1 DEF Beside, config, Inv, StateTypes, TypeOK
<1>5. (\A u \in Call : CallOK(u)') /\ LimitsOK' /\ BudgetOK'
  BY <1>4, StepKeeps, Basics DEF LimitsOK, Calm
<1>6. Published'
  <2>1. SUFFICES ASSUME NEW f \in Obj, NEW b \in Call, value'[f] = b PROVE th'[b].pc \in Post
    BY DEF Published
  <2>2. CASE value[f] = b
    BY <2>2 DEF Inv, Published, Calm
  <2>3. CASE value[f] # b
    <3>1. f = e /\ b = x
      BY <2>1, <2>3, Basics
    <3>2. QED
      BY <3>1, <2>1, NamesAssumption
  <2>4. QED
    BY <2>2, <2>3
<1>7. InSlot' = InSlot \/ InSlot' = x
  BY Basics DEF InSlot
<1>8. FlagOK'
  <2>1. CASE InSlot' = InSlot
    <3>1. Due' = Due
      BY <2>1 DEF Due, RequiresCleanup
    <3>2. QED
      BY <2>1, <3>1, MarksStand DEF Inv, FlagOK, Marked
  <2>2. CASE InSlot' = x
    <3>1. Due' => x = t /\ RequiresCleanup(t)
      BY <2>2 DEF Due, RequiresCleanup
    <3>2. \A u \in Call : th'[u].pc \in {"rebuild", "rebuildCount"} => th'[u] = th[u]
      BY MarksStand DEF Marked
    <3>3. Due' => \A u \in Call : th'[u].pc \notin {"rebuild", "rebuildCount"}
      BY <3>1, <3>2, NoRebuild
    <3>4. QED
      BY <3>1, <3>3 DEF FlagOK
  <2>3. QED
    BY <1>7, <2>1, <2>2
<1>9. ASSUME Unlimited PROVE CountOK'
  <2>1. /\ cnt.live \in Int /\ cnt.used \in Int /\ cnt.tomb \in Int
        /\ cnt'.live \in Int /\ cnt'.used \in Int /\ cnt'.tomb \in Int
    BY DEF Inv, StateTypes
  <2>2. CountOK
    BY <1>9 DEF Inv
  <2>3. One(InSlot # Nil) \in Int /\ One(InSlot' # Nil) \in Int /\ One(Inserting) \in Int
        /\ One(slot # Nil) \in Int
    BY DEF One
  <2>4. cnt'.tomb = cnt'.used - cnt'.live
    BY <1>9, <2>1, <2>2 DEF CountOK
  <2>5. (Recounting' <=> Recounting) /\ (Inserting' <=> Inserting)
    BY MarksStand, Zenon
  <2>11. One(Inserting)' = One(Inserting)
    <3> HIDE DEF Inserting
    <3>1. QED
      BY <2>5 DEF One
  <2>6. ~Recounting' =>
          /\ cnt'.live + One(Inserting)' = One(InSlot' # Nil)
          /\ cnt'.used + One(Inserting)' = One(slot' # Nil)
    <3>1. SUFFICES ASSUME ~Recounting
                   PROVE  /\ cnt'.live + One(Inserting) = One(InSlot' # Nil)
                          /\ cnt'.used + One(Inserting) = One(slot # Nil)
      BY <2>5, <2>11 DEF One
    <3>2. /\ cnt.live + One(Inserting) = One(InSlot # Nil)
          /\ cnt.used + One(Inserting) = One(slot # Nil)
      BY <2>2, <3>1 DEF CountOK
    <3>3. QED
      BY <1>9, <2>1, <2>3, <3>2
  <2>7. \A u \in Call : th'[u].pc \in {"rebuild", "rebuildCount"} =>
          th'[u] = th[u] /\ (InSlot' # Nil <=> InSlot # Nil)
    BY <1>9, MarksStand, NoRebuild DEF Marked
  <2>8. \A u \in Call : th'[u].pc \in {"rebuild", "rebuildCount"} => th'[u].n = One(InSlot' # Nil)
    BY <2>2, <2>7 DEF CountOK, One
  <2>9. \A u \in Call : At(u, "rebuildCount")' => th'[u].n = One(slot' # Nil)
    BY <2>2, <2>7 DEF CountOK, At
  <2>10. QED
    BY <2>4, <2>6, <2>8, <2>9 DEF CountOK, One
<1>10. Unlimited' = Unlimited
  BY DEF Unlimited
<1>11. QED
  BY <1>3, <1>5, <1>6, <1>8, <1>9, <1>10 DEF Inv

\* The box that the slot leads to, once an entry points elsewhere.
LEMMA InSlotAfter ==
    ASSUME Inv, NEW e \in Obj, NEW x, value' = [value EXCEPT ![e] = x], UNCHANGED slot
    PROVE  InSlot' = IF slot = e THEN x ELSE InSlot
  BY NamesAssumption DEF InSlot, Inv, StateTypes, TypeOK, Obj

\* Store makes a box without limits.
LEMMA StoreIsPlain ==
    ASSUME Inv, NEW t \in Call, Kind(t) = "Store"
    PROVE  ~RequiresCleanup(t)
<1>1. op[t] \in Operations /\ t \in Obj /\ LimitsOK
  BY Basics
<1>2. op[t].hits = 0 /\ op[t].ttl = 0
  BY <1>1 DEF Operations, Limiting, Kind
<1>3. QED
  BY <1>1, <1>2 DEF LimitsOK, RequiresCleanup

\* Store's CompareAndSwap outside the gate puts a box where one was.
LEMMA InlineCASKeeps ==
    ASSUME Inv, NEW t \in Call, InlineCAS(t)
    PROVE  Inv'
<1>1. /\ th[t].pc = "inlineCAS"
      /\ UNCHANGED <<slot, ctrl, data, hits, exp, cnt, gate, now, noClone, op>>
  BY DEF InlineCAS, At, config
<1>2. /\ th[t].ent \in Obj /\ th[t].box \in Obj /\ Kind(t) = "Store"
      /\ th[t].pc \notin Marked \cup Post
  BY <1>1, Basics DEF CallOK, KindOK, HoldsOK, Marked, Post
<1>3. CASE PointsTo(t, th[t].box)
  <2>1. Goes(t, "inlineCount") /\ value' = [value EXCEPT ![th[t].ent] = t]
    BY <1>3, Basics, GotoGoes DEF InlineCAS, Point, Tidying
  <2>2. CallOK(t)'
    BY <1>1, <1>2, <2>1, Basics
       DEF Goes, Arrives, Moved, SameAnswer, Unlimited, CallOK, LocalTypes, KindOK, PathsOK,
           HoldsOK, GateOK, FreshOK, LoadOK, Kind, Clearing, Ending, Working, Checked
  <2>3. Calm(t)
    BY <1>1, <1>2, <2>1, <2>2, ArriveIsCalm DEF Goes, Marked, Clearing, Ending
  <2>4. InSlot' # Nil <=> InSlot # Nil
    <3>1. InSlot' = IF slot = th[t].ent THEN t ELSE InSlot
      BY <1>1, <1>2, <2>1, InSlotAfter
    <3>2. slot = th[t].ent => InSlot = th[t].box
      BY <1>2, <1>3, Basics DEF InSlot, PointsTo
    <3>3. QED
      BY <1>2, <3>1, <3>2, NamesAssumption DEF Obj
  <2>5. ~RequiresCleanup(t)
    BY <1>2, StoreIsPlain
  <2>6. /\ GateStep(t) /\ th'[t].pc \in Post
        /\ cnt' \in [live : Int, used : Int, tomb : Int, bytes : Int, needs : BOOLEAN]
        /\ cnt.live \in Int /\ cnt.used \in Int /\ cnt.tomb \in Int
    BY <1>1, <2>1 DEF GateStep, Goes, Arrives, Post, Inv, StateTypes
  <2>7. One(InSlot' # Nil) = One(InSlot # Nil) /\ One(InSlot # Nil) \in Int
    BY <2>4 DEF One
  <2>8. /\ cnt'.live - cnt.live = One(InSlot' # Nil) - One(InSlot # Nil)
        /\ cnt'.used = cnt.used
        /\ cnt'.tomb - cnt.tomb = cnt.live - cnt'.live
    BY <1>1, <2>6, <2>7
  <2>9. QED
    BY <1>1, <1>2, <2>1, <2>3, <2>4, <2>5, <2>6, <2>8, PointKeeps
<1>4. CASE ~PointsTo(t, th[t].box)
  <2>1. Goto(t, "put") /\ UNCHANGED <<shared, now, config>> /\ Kind(t) \in Putters
    BY <1>1, <1>2, <1>4 DEF InlineCAS, shared, config, Putters, Storing
  <2>2. QED
    BY <1>2, <2>1, NextAttempt, QuietKeeps
<1>5. QED
  BY <1>3, <1>4

\* It adjusts valueBytes alone.
LEMMA InlineCountKeeps ==
    ASSUME Inv, NEW t \in Call, InlineCount(t)
    PROVE  Inv'
<1>1. /\ th[t].pc = "inlineCount" /\ Goto(t, "done")
      /\ Count(0, 0, 0, BytesOf(t) - BytesOf(th[t].box), FALSE)
      /\ UNCHANGED <<slot, ctrl, value, data, hits, exp, gate, now, noClone, op>>
  BY DEF InlineCount, At, config
<1>2. Kind(t) = "Store" /\ th[t].pc \notin Marked
  BY <1>1, Basics DEF CallOK, KindOK, Marked
<1>3. Calm(t)
  <2>1. Ends(t, "done", th[t].res)
    BY <1>1, Basics, GotoEnds DEF Tidying
  <2>2. QED
    BY <1>1, <1>2, <2>1, EndIsCalm DEF Tidying, Storing
<1>4. /\ cnt' \in [live : Int, used : Int, tomb : Int, bytes : Int, needs : BOOLEAN]
      /\ cnt'.live = cnt.live /\ cnt'.used = cnt.used /\ cnt'.tomb = cnt.tomb
      /\ cnt'.needs <=> cnt.needs
  <2> DEFINE db == BytesOf(t) - BytesOf(th[t].box)
  <2>1. th[t].box \in Obj /\ t \in Obj
    BY <1>1, Basics DEF CallOK, HoldsOK
  <2>2. db \in Int /\ 0 \in Int /\ FALSE \in BOOLEAN
    BY <2>1, BytesType
  <2>3. Count(0, 0, 0, db, FALSE)
    BY <1>1, Zenon
  <2> HIDE DEF db
  <2>4. /\ cnt' \in [live : Int, used : Int, tomb : Int, bytes : Int, needs : BOOLEAN]
        /\ cnt'.live = cnt.live + 0 /\ cnt'.used = cnt.used + 0
        /\ cnt'.tomb = cnt.tomb + 0 /\ (cnt'.needs <=> cnt.needs \/ FALSE)
        /\ cnt.live \in Int /\ cnt.used \in Int /\ cnt.tomb \in Int
    BY <2>2, <2>3, CountTypes, Zenon
  <2>5. QED
    BY <2>4
<1>5. StateTypes'
  BY <1>1, <1>3, <1>4 DEF Calm, Inv, StateTypes, TypeOK
<1>6. Beside(t)
  BY <1>1, <1>3 DEF Beside, GateStep, Calm, config, Inv, StateTypes, TypeOK
<1>7. (\A u \in Call : CallOK(u)') /\ LimitsOK' /\ BudgetOK'
  BY <1>1, <1>3, <1>6, StepKeeps, Basics DEF LimitsOK, Calm
<1>8. Published'
  BY <1>1, <1>3 DEF Inv, Published, Calm
<1>9. Due' = Due /\ InSlot' = InSlot
  BY <1>1 DEF Due, InSlot, RequiresCleanup
<1>10. FlagOK'
  BY <1>3, <1>4, <1>9, MarksStand DEF Inv, FlagOK, Marked
<1>11. Unlimited' => CountOK'
  <2>1. Unlimited' = Unlimited
    BY <1>1 DEF Unlimited
  <2>2. SUFFICES ASSUME CountOK PROVE CountOK'
    BY <2>1 DEF Inv
  <2>3. One(Inserting)' = One(Inserting) /\ One(InSlot # Nil)' = One(InSlot # Nil)
        /\ One(slot # Nil)' = One(slot # Nil)
    <3>1. Inserting' <=> Inserting
      BY <1>3, MarksStand, Zenon
    <3> HIDE DEF Inserting
    <3>2. QED
      BY <1>1, <1>9, <3>1 DEF One
  <2>4. QED
    BY <1>3, <1>4, <2>2, <2>3, MarksStand DEF CountOK, Marked, At
<1>12. QED
  BY <1>5, <1>7, <1>8, <1>10, <1>11 DEF Inv

\* A writer inside the gate points its entry elsewhere, adds to the counters
\* what that changes, and leaves.
LEMMA GatePoints ==
    ASSUME Inv, NEW t \in Call, th[t].pc \in Working,
           NEW x \in {t, Nil}, Point(t, x),
           NEW dl \in Int, NEW dt \in Int, NEW db \in Int, NEW nc \in BOOLEAN,
           Count(dl, 0, dt, db, nc), dt = 0 - dl,
           dl = One(x # Nil) - One(value[th[t].ent] # Nil),
           x = t /\ RequiresCleanup(t) => nc,
           NEW r, EndWith(t, r),
           r.ok /\ ~th[t].again /\ Kind(t) \notin Storing => Fresh(t),
           UNCHANGED <<slot, ctrl, data, hits, exp, now, noClone, op>>
    PROVE  Inv'
<1>1. /\ t \in gate.writers /\ slot \in Obj /\ th[t].ent = slot
      /\ Kind(t) # "Load" /\ th[t].pc \notin Marked
  BY InsideGate, Zenon
<1>2. PICK p \in {"done", "resize"} : Set(t, [pc |-> p, res |-> r])
  BY DEF EndWith
<1>3. Ends(t, p, r)
  BY <1>2, Basics, ReturnEnds DEF Tidying
<1>4. Calm(t)
  BY <1>1, <1>3, EndIsCalm DEF Tidying
<1>5. GateStep(t) /\ th'[t].pc \in Post
  BY <1>3 DEF EndWith, GateStep, Ends, Post
<1>6. 0 \in Int
  OBVIOUS
<1>7. /\ cnt' \in [live : Int, used : Int, tomb : Int, bytes : Int, needs : BOOLEAN]
      /\ cnt'.live = cnt.live + dl /\ cnt'.used = cnt.used + 0
      /\ cnt'.tomb = cnt.tomb + dt /\ (cnt'.needs <=> cnt.needs \/ nc)
      /\ cnt.live \in Int /\ cnt.used \in Int /\ cnt.tomb \in Int
  BY <1>6, SMT DEF Inv, StateTypes, Count
<1>8. value' = [value EXCEPT ![slot] = x]
  BY <1>1 DEF Point
<1>9. InSlot' = x /\ InSlot = value[th[t].ent]
  BY <1>1, <1>8, InSlotAfter, NamesAssumption DEF InSlot, Obj
<1>10. One(InSlot' # Nil) - One(InSlot # Nil) = dl
  BY <1>9
<1>11. /\ cnt'.live - cnt.live = One(InSlot' # Nil) - One(InSlot # Nil)
       /\ cnt'.used = cnt.used
       /\ cnt'.tomb - cnt.tomb = cnt.live - cnt'.live
  BY <1>7, <1>10
<1>12. /\ cnt.needs => cnt'.needs
       /\ x = t /\ RequiresCleanup(t) => cnt'.needs /\ t \in gate.writers
  BY <1>1, <1>7, Zenon
<1>13. QED
  BY <1>1, <1>4, <1>5, <1>7, <1>8, <1>11, <1>12, PointKeeps

\* An entry without a box is given the call's own.
LEMMA ReviveKeeps ==
    ASSUME Inv, NEW t \in Call, Revive(t)
    PROVE  Inv'
<1>1. /\ th[t].pc = "revive"
      /\ UNCHANGED <<slot, ctrl, data, hits, exp, now, noClone, op>>
  BY DEF Revive, At, config
<1>2. th[t].pc \in Working /\ Kind(t) \in Putters
  BY <1>1, InsideGate DEF Working, WorkKinds
<1>3. CASE PointsTo(t, Nil)
  <2> DEFINE r == Stored(t)
             down == -1
             nc == RequiresCleanup(t)
  <2>1. Point(t, t) /\ EndWith(t, r)
    BY <1>3 DEF Revive
  <2>2. Count(1, 0, down, BytesOf(t), nc)
    BY <1>3 DEF Revive
  <2>3. /\ 1 \in Int /\ down \in Int /\ down = 0 - 1 /\ nc \in BOOLEAN
    BY DEF RequiresCleanup
  <2>4. BytesOf(t) \in Int
    BY BytesType DEF Obj
  <2>5. 1 = One(t # Nil) - One(value[th[t].ent] # Nil)
    BY <1>3, NamesAssumption DEF One, PointsTo
  <2>6. r.ok /\ ~th[t].again /\ Kind(t) \notin Storing => Fresh(t)
    BY <1>2 DEF Stored, Answer, Putters
  <2>7. t \in {t, Nil} /\ (t = t /\ RequiresCleanup(t) => nc)
    OBVIOUS
  <2> HIDE DEF r, down, nc
  <2>8. QED
    BY <1>1, <1>2, <2>1, <2>2, <2>3, <2>4, <2>5, <2>6, <2>7, GatePoints
<1>4. CASE ~PointsTo(t, Nil)
  <2> DEFINE p == Again(t)
  <2>1. Goto(t, p) /\ UNCHANGED <<value, cnt, gate>>
    BY <1>4 DEF Revive
  <2>2. /\ p \in Working \ {"end"} /\ p \notin Tidying /\ p \notin Checked /\ p # "scanVal"
        /\ WorkKinds(t, p)
    BY <1>2 DEF Again, Working, Tidying, Checked, WorkKinds
  <2> HIDE DEF p
  <2>3. Goes(t, p)
    BY <2>1, <2>2, Basics, GotoGoes
  <2>4. th[t].box \in Obj \cup {Nil}
    BY Basics DEF CallOK, LocalTypes
  <2>5. Calm(t)
    BY <1>1, <1>2, <2>1, <2>2, <2>3, <2>4, WorkGoesOn DEF Goes
  <2>6. QED
    BY <1>1, <2>1, <2>5, Basics, QuietKeeps DEF Quiet, GateStep
<1>5. QED
  BY <1>3, <1>4

\* A box is replaced by the call's own, or has changed and is looked at again.
LEMMA ReplaceBoxKeeps ==
    ASSUME Inv, NEW t \in Call, th[t].pc \in {"replaceCAS", "casBox"},
           NEW p \in {"replace", "current", "match"}, WorkKinds(t, p), ReplaceBox(t, p)
    PROVE  Inv'
<1>1. UNCHANGED <<slot, ctrl, data, hits, exp, now, noClone, op>>
  BY DEF ReplaceBox, config
<1>2. th[t].pc \in Working /\ th[t].box \in Obj /\ Fresh(t)
  BY Basics DEF CallOK, FreshOK, HoldsOK, Checked, Working
<1>3. CASE PointsTo(t, th[t].box)
  <2> DEFINE r == Replaced(t)
             db == BytesOf(t) - BytesOf(th[t].box)
             nc == RequiresCleanup(t)
  <2>1. Point(t, t) /\ EndWith(t, r) /\ Count(0, 0, 0, db, nc)
    BY <1>3 DEF ReplaceBox
  <2>2. /\ 0 \in Int /\ 0 = 0 - 0 /\ nc \in BOOLEAN
    BY DEF RequiresCleanup
  <2>3. BytesOf(t) \in Nat /\ BytesOf(th[t].box) \in Nat
    BY <1>2, BytesType DEF Obj
  <2>4. db \in Int
    BY <2>3
  <2>5. 0 = One(t # Nil) - One(value[th[t].ent] # Nil)
    BY <1>2, <1>3, NamesAssumption DEF One, PointsTo, Obj
  <2>6. t \in {t, Nil} /\ (t = t /\ RequiresCleanup(t) => nc)
    OBVIOUS
  <2> HIDE DEF r, db, nc
  <2>7. QED
    BY <1>1, <1>2, <2>1, <2>2, <2>4, <2>5, <2>6, GatePoints
<1>4. CASE ~PointsTo(t, th[t].box)
  <2>1. Goto(t, p) /\ UNCHANGED <<value, cnt, gate>>
    BY <1>4 DEF ReplaceBox
  <2>2. p \in Working \ {"end"} /\ p \notin Tidying /\ p \notin Checked /\ p # "scanVal"
    BY DEF Working, Tidying, Checked
  <2>3. Goes(t, p)
    BY <2>1, <2>2, Basics, GotoGoes
  <2>5. Calm(t)
    BY <1>1, <1>2, <2>1, <2>2, <2>3, WorkGoesOn DEF Goes
  <2>6. QED
    BY <1>1, <2>1, <2>5, Basics, QuietKeeps DEF Quiet, GateStep
<1>5. QED
  BY <1>3, <1>4

\* The CompareAndSwap of replaceOrRevive and loadOrStoreCurrent.
LEMMA ReplaceCASKeeps ==
    ASSUME Inv, NEW t \in Call, ReplaceCAS(t)
    PROVE  Inv'
<1> DEFINE p == Again(t)
<1>1. th[t].pc = "replaceCAS" /\ ReplaceBox(t, p)
  BY DEF ReplaceCAS, At
<1>2. Kind(t) \in Putters
  BY <1>1, Basics DEF CallOK, KindOK
<1>3. p \in {"replace", "current", "match"} /\ WorkKinds(t, p)
  BY <1>2 DEF Again, WorkKinds
<1> HIDE DEF p
<1>4. QED
  BY <1>1, <1>3, ReplaceBoxKeeps

\* The one of compareAndSwap.
LEMMA SwapBoxKeeps ==
    ASSUME Inv, NEW t \in Call, SwapBox(t)
    PROVE  Inv'
<1>1. th[t].pc = "casBox" /\ ReplaceBox(t, "match")
  BY DEF SwapBox, At
<1>2. WorkKinds(t, "match")
  BY <1>1, Basics DEF CallOK, KindOK, WorkKinds
<1>3. QED
  BY <1>1, <1>2, ReplaceBoxKeeps

\* A removal takes the box from its entry.
LEMMA UnlinkKeeps ==
    ASSUME Inv, NEW t \in Call, Unlink(t)
    PROVE  Inv'
<1> DEFINE r == Answer(IF Kind(t) = "Delete" THEN th[t].word ELSE Nil, TRUE)
<1>1. /\ th[t].pc = "unlink"
      /\ UNCHANGED <<slot, ctrl, data, hits, exp, now, noClone, op>>
  BY DEF Unlink, At, config
<1>2. /\ th[t].pc \in Working /\ th[t].pc \notin Marked
      /\ Kind(t) # "Load" /\ th[t].box \in Obj /\ Fresh(t)
  BY <1>1, HasMatched
<1>3. CASE /\ PointsTo(t, th[t].box) /\ Point(t, Nil) /\ EndWith(t, r)
           /\ Count(-1, 0, 1, -BytesOf(th[t].box), TRUE)
  <2> DEFINE down == -1
             db == -BytesOf(th[t].box)
  <2>1. Count(down, 0, 1, db, TRUE)
    BY <1>3, Zenon
  <2>2. /\ down \in Int /\ 1 = 0 - down /\ 1 \in Int /\ TRUE \in BOOLEAN
    OBVIOUS
  <2>3. BytesOf(th[t].box) \in Nat
    BY <1>2, BytesType
  <2>4. db \in Int
    BY <2>3
  <2>5. down = One(Nil # Nil) - One(value[th[t].ent] # Nil)
    BY <1>2, <1>3, NamesAssumption DEF One, PointsTo, Obj
  <2>6. Nil \in {t, Nil} /\ (Nil = t /\ RequiresCleanup(t) => TRUE)
    OBVIOUS
  <2> HIDE DEF r, db, down
  <2>7. QED
    BY <1>1, <1>2, <1>3, <2>1, <2>2, <2>4, <2>5, <2>6, GatePoints
<1>4. CASE EndWith(t, r) /\ UNCHANGED <<value, cnt>>
  <2>1. PICK p \in {"done", "resize"} : Set(t, [pc |-> p, res |-> r])
    BY <1>4 DEF EndWith
  <2>2. Leave(t) /\ data' \in [Obj -> Value \cup {Dead, Nil}]
    BY <1>1, <1>4, Basics DEF EndWith
  <2> HIDE DEF r
  <2>3. QED
    BY <1>1, <1>2, <1>4, <2>1, <2>2, LeaveQuiet, QuietKeeps
<1>5. CASE Goto(t, "match") /\ UNCHANGED <<value, cnt, gate>>
  <2>1. Goes(t, "match")
    BY <1>5, Basics, GotoGoes DEF Tidying
  <2>2. Calm(t)
    BY <1>1, <1>5, <2>1, MatchGoesOn DEF Goes
  <2>3. QED
    BY <1>1, <1>5, <2>2, Basics, QuietKeeps DEF Quiet, GateStep
<1>6. QED
  BY <1>3, <1>4, <1>5 DEF Unlink

\* A call that has not stored its box starts its TTL.
LEMMA ExpKeeps ==
    ASSUME Inv, NEW t \in Call, Calm(t), GateStep(t), th[t].pc \notin Post,
           NEW x \in Nat, exp' = [exp EXCEPT ![t] = x],
           x = exp[t] \/ x = 0 \/ x > now, op[t].ttl = 0 => x = 0,
           UNCHANGED <<slot, ctrl, value, data, hits, cnt, now, noClone, op>>
    PROVE  Inv'
<1>1. /\ th' = [u \in Call |-> th'[u]] /\ \A u \in Call \ {t} : th'[u] = th[u]
      /\ CallOK(t)'
      /\ \A b \in Obj : op[b].hits > 0 /\ Counted(t, b)' => Counted(t, b)
      /\ \A u \in Call : th[u].pc \in Post => th'[u].pc \in Post
  BY DEF Calm
<1>2. /\ exp' \in [Obj -> Nat]
      /\ \A b \in Obj : exp'[b] = exp[b] \/ exp'[b] = 0 \/ exp'[b] > now
      /\ \A b \in Obj : op[b].ttl = 0 => exp'[b] = 0
  BY Basics DEF LimitsOK
<1>3. StateTypes'
  BY <1>1, <1>2, GateTypes DEF Inv, StateTypes, TypeOK
<1>4. Beside(t)
  BY <1>1, <1>2 DEF Beside, config
<1>5. (\A u \in Call : CallOK(u)') /\ LimitsOK' /\ BudgetOK'
  BY <1>1, <1>2, <1>4, StepKeeps
<1>6. Published'
  BY <1>1 DEF Inv, Published
<1>7. InSlot' = InSlot /\ InSlot # t
  <2>1. slot # Nil => slot \in Obj
    BY Basics
  <2>2. QED
    BY <2>1, NamesAssumption DEF InSlot, Inv, Published
<1>8. Due' = Due
  BY <1>7, Basics DEF Due, RequiresCleanup, InSlot
<1>9. FlagOK'
  BY <1>7, <1>8, MarksStand DEF Inv, FlagOK, Marked
<1>10. Unlimited' => CountOK'
  <2>1. Unlimited' = Unlimited
    BY DEF Unlimited
  <2>2. SUFFICES ASSUME CountOK PROVE CountOK'
    BY <2>1 DEF Inv
  <2>3. One(Inserting)' = One(Inserting) /\ One(InSlot # Nil)' = One(InSlot # Nil)
        /\ One(slot # Nil)' = One(slot # Nil)
    <3>1. Inserting' <=> Inserting
      BY MarksStand, Zenon
    <3> HIDE DEF Inserting
    <3>2. QED
      BY <1>7, <3>1 DEF One
  <2>4. QED
    BY <2>2, <2>3, MarksStand DEF CountOK, Marked, At
<1>11. QED
  BY <1>3, <1>5, <1>6, <1>9, <1>10 DEF Inv

\* What NewBox gives a box.
LEMMA NewBoxTime ==
    ASSUME Inv, NEW t \in Call, NewBox(t)
    PROVE  \E x \in Nat : /\ exp' = [exp EXCEPT ![t] = x] /\ (x = exp[t] \/ x > now)
                          /\ op[t].ttl = 0 => x = 0
<1> DEFINE y == IF Kind(t) \in LoadOrStores /\ op[t].ttl > 0 THEN now + op[t].ttl ELSE exp[t]
<1>1. /\ t \in Obj /\ op[t].ttl \in Nat /\ now \in Nat /\ exp[t] \in Nat
      /\ op[t].ttl = 0 => exp[t] = 0
  BY Basics DEF Operations, LimitsOK
<1>2. y \in Nat /\ (y = exp[t] \/ y > now) /\ (op[t].ttl = 0 => y = 0)
  BY <1>1
<1>3. exp' = [exp EXCEPT ![t] = y]
  BY <1>1, Basics DEF NewBox
<1> HIDE DEF y
<1>4. QED
  BY <1>2, <1>3

\* loadOrStoreSlow builds its box.
LEMMA BuildBoxKeeps ==
    ASSUME Inv, NEW t \in Call, BuildBox(t)
    PROVE  Inv'
<1>1. /\ th[t].pc = "build" /\ NewBox(t) /\ Goto(t, "current")
      /\ UNCHANGED <<slot, ctrl, value, data, hits, cnt, gate, now, noClone, op>>
  BY DEF BuildBox, At, config
<1>2. Goes(t, "current")
  BY <1>1, Basics, GotoGoes DEF Tidying
<1>3. /\ t \in gate.writers /\ slot # Nil /\ th[t].ent = slot /\ Kind(t) \in LoadOrStores
      /\ th[t].pc \notin Marked \cup Post
  BY <1>1, InsideGate, NamesAssumption DEF Working, WorkKinds, Obj
<1>4. CallOK(t)'
  BY <1>1, <1>2, <1>3, Basics
     DEF Goes, Arrives, Moved, SameAnswer, CallOK, LocalTypes, KindOK, PathsOK, HoldsOK, GateOK,
         FreshOK, LoadOK, Kind, Clearing, Ending, Working, Checked
<1>5. Calm(t)
  BY <1>1, <1>2, <1>3, <1>4, ArriveIsCalm DEF Goes, Marked, Clearing, Ending
<1>6. PICK x \in Nat : /\ exp' = [exp EXCEPT ![t] = x] /\ (x = exp[t] \/ x > now)
                       /\ op[t].ttl = 0 => x = 0
  BY <1>1, NewBoxTime
<1>7. QED
  BY <1>1, <1>3, <1>5, <1>6, ExpKeeps DEF GateStep

\* A call begins.
LEMMA InvokeKeeps ==
    ASSUME Inv, NEW t \in Call, Invoke(t)
    PROVE  Inv'
<1> DEFINE p == Starts[Kind(t)]
           before == {u \in Call : Unlimited /\ At(u, "done")}
           x == IF op[t].ttl > 0 /\ Kind(t) \notin LoadOrStores THEN now + op[t].ttl ELSE 0
<1>1. /\ th[t].pc = "call" /\ Set(t, [pc |-> p, start |-> now, before |-> before])
      /\ exp' = [exp EXCEPT ![t] = x]
      /\ UNCHANGED <<slot, ctrl, value, data, hits, cnt, gate, now, noClone, op>>
  BY DEF Invoke, At, config
<1>2. op[t].ttl \in Nat /\ now \in Nat /\ Kind(t) \in Methods /\ noClone \in BOOLEAN
  BY Basics DEF Operations, Inv, StateTypes, Kind
<1>3. x \in Nat /\ (x = exp[t] \/ x = 0 \/ x > now) /\ (op[t].ttl = 0 => x = 0)
  BY <1>2
<1>4. /\ p \in {"find", "fast", "find2", "put", "los1", "los2", "gateFind", "preFind",
                "clearAll", "cleanup"}
      /\ p = "find" => Kind(t) \in Readers
      /\ p = "fast" => Kind(t) \in {"Store", "Swap"}
      /\ p = "find2" => Kind(t) = "Store"
      /\ p = "put" => Kind(t) \in Putters
      /\ p \in {"los1", "los2"} => Kind(t) \in LoadOrStores
      /\ p \in {"gateFind", "preFind"} => Kind(t) \in Matchers
      /\ p = "cleanup" => Kind(t) = "CleanupNow"
      /\ p = "clearAll" => Kind(t) = "Clear"
  BY <1>2 DEF Starts, Methods, Readers, Putters, Storing, Swaps, LoadOrStores, Matchers, Removals
<1> HIDE DEF p, x, before
<1>5. /\ Moved(t) /\ th'[t].pc = p /\ th'[t].ent = th[t].ent /\ th'[t].box = th[t].box
      /\ th'[t].start = now /\ th'[t].n = th[t].n /\ th'[t].by = th[t].by
      /\ th'[t].nc = th[t].nc /\ th'[t].again = th[t].again
  BY <1>1, <1>4, Basics, ZenonT(30) DEF HasLocals, Set, With, Tidy, Moved, Fields
<1>6. CallOK(t)'
  BY <1>1, <1>2, <1>4, <1>5, Basics
     DEF Moved, Readers, CallOK, LocalTypes, KindOK, PathsOK, HoldsOK, GateOK, FreshOK, LoadOK,
         Kind, Clearing, Ending, Working, Checked
<1>7. Calm(t)
  BY <1>1, <1>4, <1>5, <1>6 DEF Calm, Moved, Marked, Post, Counted, Clearing, Ending
<1>8. QED
  BY <1>1, <1>3, <1>7, ExpKeeps DEF GateStep, Post

\* An insertion has the slot to itself until it is published.
LEMMA OnlyInsertion ==
    ASSUME Inv, NEW u \in Call, th[u].pc = "publish"
    PROVE  slot = u /\ slot # Nil /\ u \in gate.writers
  BY Basics, NamesAssumption DEF CallOK, GateOK

\* The CompareAndSwap of the slot.
LEMMA InsertKeeps ==
    ASSUME Inv, NEW t \in Call, Insert(t)
    PROVE  Inv'
<1>1. /\ th[t].pc = "insert" /\ NewBox(t)
      /\ UNCHANGED <<ctrl, data, hits, cnt, now, noClone, op>>
  BY DEF Insert, At, config
<1>2. /\ t \in gate.writers /\ Kind(t) \in Putters /\ Kind(t) # "Load"
      /\ th[t].pc \notin Marked \cup Post /\ t # Nil
  BY <1>1, Basics, NamesAssumption
     DEF CallOK, KindOK, GateOK, Marked, Post, Putters, Storing, Swaps, LoadOrStores
<1>3. PICK x \in Nat : /\ exp' = [exp EXCEPT ![t] = x] /\ (x = exp[t] \/ x > now)
                       /\ op[t].ttl = 0 => x = 0
  BY <1>1, NewBoxTime
<1>4. CASE slot # Nil
  <2>1. Leave(t) /\ Goto(t, "put") /\ UNCHANGED <<slot, value>>
    BY <1>4 DEF Insert
  <2>2. Goes(t, "put")
    BY <2>1, Basics, GotoGoes DEF Tidying
  <2>3. CallOK(t)'
    BY <1>1, <1>2, <2>2, Basics
       DEF Goes, Arrives, Moved, SameAnswer, CallOK, LocalTypes, KindOK, PathsOK, HoldsOK,
           GateOK, FreshOK, LoadOK, Kind, Clearing, Ending, Working, Checked
  <2>4. Calm(t)
    BY <1>1, <1>2, <2>2, <2>3, ArriveIsCalm DEF Goes, Marked, Clearing, Ending
  <2>5. QED
    BY <1>1, <1>2, <1>3, <2>1, <2>4, ExpKeeps DEF GateStep
<1>5. CASE slot = Nil
  <2>1. /\ slot' = t /\ value' = [value EXCEPT ![t] = t] /\ Goto(t, "publish") /\ UNCHANGED gate
    BY <1>5 DEF Insert
  <2>2. Goes(t, "publish")
    BY <2>1, Basics, GotoGoes DEF Tidying
  <2>3. CallOK(t)'
    BY <1>1, <1>2, <2>1, <2>2, Basics
       DEF Goes, Arrives, Moved, SameAnswer, CallOK, LocalTypes, KindOK, PathsOK, HoldsOK,
           GateOK, FreshOK, LoadOK, Kind, Clearing, Ending, Working, Checked
  <2>4. /\ th' = [u \in Call |-> th'[u]] /\ \A u \in Call \ {t} : th'[u] = th[u]
        /\ th'[t].pc = "publish"
    BY <2>2 DEF Goes, Arrives, Moved
  <2>5. /\ exp' \in [Obj -> Nat]
        /\ \A b \in Obj : exp'[b] = exp[b] \/ exp'[b] = 0 \/ exp'[b] > now
        /\ \A b \in Obj : op[b].ttl = 0 => exp'[b] = 0
    BY <1>3, Basics DEF LimitsOK
  <2>6. StateTypes'
    <3>1. value' \in [Obj -> Obj \cup {Nil}] /\ slot' \in Obj
      BY <2>1, Basics
    <3>2. QED
      BY <1>1, <1>2, <2>1, <2>4, <2>5, <3>1 DEF Inv, StateTypes, TypeOK
  <2>7. Beside(t)
    BY <1>1, <1>5, <2>1, <2>4, <2>5 DEF Beside, GateStep, config
  <2>8. \A b \in Obj : ~Counted(t, b)'
    BY <1>1, <1>2 DEF Counted, Kind
  <2>9. (\A u \in Call : CallOK(u)') /\ LimitsOK' /\ BudgetOK'
    BY <1>1, <2>3, <2>5, <2>7, <2>8, StepKeeps
  <2>10. Published'
    <3>1. SUFFICES ASSUME NEW e \in Obj, NEW b \in Call, value'[e] = b PROVE th'[b].pc \in Post
      BY DEF Published
    <3>2. CASE b = t
      BY <2>4, <3>2 DEF Post
    <3>3. CASE b # t
      <4>1. value[e] = b
        BY <2>1, <3>1, <3>3, Basics
      <4>2. QED
        BY <2>4, <3>3, <4>1 DEF Inv, Published
    <3>4. QED
      BY <3>2, <3>3
  <2>11. InSlot' = t /\ InSlot = Nil
    BY <1>2, <1>5, <2>1, Basics DEF InSlot
  <2>12. \A u \in Call : /\ th[u].pc \notin Marked
                         /\ th'[u].pc \notin {"rebuild", "rebuildCount"}
    <3>1. \A u \in Call : th[u].pc \notin {"rebuild", "rebuildCount"}
      BY <1>2, NoRebuild
    <3>2. \A u \in Call : th[u].pc # "publish"
      BY <1>5, OnlyInsertion
    <3>3. QED
      BY <2>4, <3>1, <3>2 DEF Marked
  <2>13. FlagOK'
    BY <2>4, <2>11, <2>12 DEF FlagOK, At
  <2>14. Unlimited' => CountOK'
    <3>1. Unlimited' = Unlimited
      BY <1>1 DEF Unlimited
    <3>2. SUFFICES ASSUME CountOK PROVE CountOK'
      BY <3>1 DEF Inv
    <3>3. ~Inserting /\ ~Recounting /\ Inserting' /\ ~Recounting'
      BY <2>4, <2>12 DEF Inserting, Recounting, At, Marked
    <3>4. cnt.live = 0 /\ cnt.used = 0 /\ cnt.tomb = cnt.used - cnt.live
      <4>1. cnt.live \in Int /\ cnt.used \in Int
        BY DEF Inv, StateTypes
      <4>2. cnt.live + 0 = 0 /\ cnt.used + 0 = 0 /\ cnt.tomb = cnt.used - cnt.live
        BY <1>5, <2>11, <3>2, <3>3 DEF CountOK, One
      <4>3. QED
        BY <4>1, <4>2
    <3>5. One(Inserting)' = 1 /\ One(InSlot # Nil)' = 1 /\ One(slot # Nil)' = 1
      <4> HIDE DEF Inserting
      <4>1. QED
        BY <1>2, <2>1, <2>11, <3>3 DEF One
    <3>6. QED
      BY <1>1, <2>12, <3>4, <3>5 DEF CountOK, At
  <2>15. QED
    BY <2>6, <2>9, <2>10, <2>13, <2>14 DEF Inv
<1>6. QED
  BY <1>4, <1>5

\* The store of the control word, with the counters.
LEMMA PublishKeeps ==
    ASSUME Inv, NEW t \in Call, Publish(t)
    PROVE  Inv'
<1> DEFINE r == Stored(t)
           nc == RequiresCleanup(t)
           db == BytesOf(t)
<1>1. /\ th[t].pc = "publish" /\ ctrl' = TRUE /\ EndWith(t, r) /\ Count(1, 1, 0, db, nc)
      /\ UNCHANGED <<slot, value, data, hits, exp, now, noClone, op>>
  BY DEF Publish, At, config
<1>2. slot = t /\ slot # Nil /\ t \in gate.writers
  BY <1>1, OnlyInsertion
<1>3. Kind(t) \in Putters /\ Kind(t) # "Load"
  BY <1>1, Basics DEF CallOK, KindOK, Putters, Storing, Swaps, LoadOrStores
<1>4. PICK p \in {"done", "resize"} : Set(t, [pc |-> p, res |-> r])
  BY <1>1 DEF EndWith
<1>5. Leave(t)
  BY <1>1 DEF EndWith
<1>6. r.ok /\ ~th[t].again /\ Kind(t) \notin Storing => Fresh(t)
  BY <1>3 DEF Stored, Answer, Putters
<1>7. db \in Int /\ nc \in BOOLEAN /\ 0 \in Int /\ 1 \in Int
  BY BytesType DEF RequiresCleanup, Obj
<1>8. nc <=> RequiresCleanup(t)
  OBVIOUS
<1> HIDE DEF r, db, nc
<1>9. Ends(t, p, r)
  BY <1>4, Basics, ReturnEnds DEF Tidying
<1>10. CallOK(t)'
  BY <1>1, <1>6, <1>9, EndKeepsCall DEF Tidying
<1>11. /\ th' = [u \in Call |-> th'[u]] /\ \A u \in Call \ {t} : th'[u] = th[u]
       /\ th'[t].pc \in {"done", "resize"}
  BY <1>9 DEF Ends, Moved
<1>12. /\ cnt' \in [live : Int, used : Int, tomb : Int, bytes : Int, needs : BOOLEAN]
       /\ cnt'.live = cnt.live + 1 /\ cnt'.used = cnt.used + 1
       /\ cnt'.tomb = cnt.tomb + 0 /\ (cnt'.needs <=> cnt.needs \/ nc)
       /\ cnt.live \in Int /\ cnt.used \in Int /\ cnt.tomb \in Int
  BY <1>1, <1>7, CountTypes, Zenon
<1>13. StateTypes'
  <2>1. gate' \in [writers : SUBSET Call, owner : Call \cup {Nil}]
    BY <1>5, GateTypes DEF GateStep
  <2>2. QED
    BY <1>1, <1>2, <1>11, <1>12, <2>1 DEF Inv, StateTypes, TypeOK
<1>14. Beside(t)
  BY <1>1, <1>5, <1>11 DEF Beside, GateStep, config, Inv, StateTypes, TypeOK
<1>15. \A b \in Obj : ~Counted(t, b)'
  BY <1>1, <1>3 DEF Counted, Kind
<1>16. (\A u \in Call : CallOK(u)') /\ LimitsOK' /\ BudgetOK'
  BY <1>1, <1>10, <1>14, <1>15, StepKeeps, Basics DEF LimitsOK
<1>17. Published'
  BY <1>1, <1>11 DEF Inv, Published, Post
<1>18. \A u \in Call : /\ th'[u].pc \notin {"publish", "rebuild", "rebuildCount"}
                       /\ th[u].pc = "publish" => u = t
                       /\ th[u].pc # "rebuildCount"
  <2>1. \A u \in Call : th[u].pc \notin {"rebuild", "rebuildCount"}
    BY <1>2, NoRebuild
  <2>2. \A u \in Call : th[u].pc = "publish" => u = t
    BY <1>2, OnlyInsertion
  <2>3. QED
    BY <1>11, <2>1, <2>2
<1>19. InSlot' = InSlot /\ Due' = Due
  BY <1>1 DEF InSlot, Due, RequiresCleanup
<1>20. FlagOK'
  <2>1. Due => cnt'.needs
    <3>1. SUFFICES ASSUME Due, ~cnt.needs PROVE nc
      BY <1>12
    <3>2. InSlot = t
      BY <1>18, <3>1 DEF Inv, FlagOK, At
    <3>3. QED
      BY <1>8, <3>1, <3>2 DEF Due
  <2>2. QED
    BY <1>18, <1>19, <2>1 DEF FlagOK
<1>21. Unlimited' => CountOK'
  <2>1. Unlimited' = Unlimited
    BY <1>1 DEF Unlimited
  <2>2. SUFFICES ASSUME CountOK PROVE CountOK'
    BY <2>1 DEF Inv
  <2>3. Inserting /\ ~Recounting /\ ~Inserting' /\ ~Recounting'
    BY <1>1, <1>18 DEF Inserting, Recounting, At
  <2>4. /\ One(Inserting) = 1 /\ One(Inserting)' = 0
        /\ One(InSlot # Nil)' = One(InSlot # Nil) /\ One(slot # Nil)' = One(slot # Nil)
        /\ One(InSlot # Nil) \in Int /\ One(slot # Nil) \in Int
    <3> HIDE DEF Inserting
    <3>1. QED
      BY <1>1, <1>19, <2>3 DEF One
  <2>5. cnt.live + 1 = One(InSlot # Nil) /\ cnt.used + 1 = One(slot # Nil)
    BY <2>2, <2>3, <2>4 DEF CountOK
  <2>6. cnt'.tomb = cnt'.used - cnt'.live
    BY <1>12, <2>2 DEF CountOK
  <2>7. /\ cnt'.live + One(Inserting)' = One(InSlot # Nil)'
        /\ cnt'.used + One(Inserting)' = One(slot # Nil)'
    <3>1. cnt'.live \in Int /\ cnt'.used \in Int
      BY <1>12
    <3>2. cnt'.live = cnt.live + 1 /\ cnt'.used = cnt.used + 1
      BY <1>12
    <3>3. QED
      BY <2>4, <2>5, <3>1, <3>2
  <2>8. QED
    BY <1>18, <2>6, <2>7 DEF CountOK, At
<1>22. QED
  BY <1>13, <1>16, <1>17, <1>20, <1>21 DEF Inv

-------------------------------------------------------------------------------
\* Rebuilds and Clear.

\* The steps of resizeAt and Clear that wait for the gate, or give up.
LEMMA CleanupStartQuiet ==
    ASSUME Inv, NEW t \in Call, CleanupStart(t)
    PROVE  Quiet(t)
<1>1. th[t].pc = "cleanup" /\ UNCHANGED <<shared, now, config>> /\ UNCHANGED <<exp, op>>
  BY DEF CleanupStart, At, shared, config
<1>2. PICK p \in {"done", "resize"} : Goto(t, p)
  BY DEF CleanupStart
<1>3. Ends(t, p, th[t].res)
  BY <1>2, Basics, GotoEnds DEF Tidying
<1>4. Kind(t) # "Load" /\ Fresh(t) /\ th[t].pc \notin Marked
  BY <1>1, Basics DEF CallOK, KindOK, Sweepers, Fresh, Marked
<1>5. Calm(t)
  BY <1>1, <1>2, <1>3, <1>4, EndIsCalm DEF Tidying
<1>6. QED
  BY <1>1, <1>5, SharedUnchanged

\* The resize bit is taken, or resizeAt returns.
LEMMA ResizeTryQuiet ==
    ASSUME Inv, NEW t \in Call, ResizeTry(t)
    PROVE  Quiet(t)
<1>1. /\ th[t].pc = "resize"
      /\ UNCHANGED <<slot, ctrl, value, data, hits, exp, cnt, now, noClone, op>>
  BY DEF ResizeTry, At, config
<1>2. th[t].res.ok /\ ~th[t].again /\ Kind(t) \notin Storing => Fresh(t)
  BY <1>1, Basics DEF CallOK, FreshOK, Ending
<1>3. CASE Goto(t, "done") /\ UNCHANGED gate
  <2>1. Ends(t, "done", th[t].res)
    BY <1>3, Basics, GotoEnds DEF Tidying
  <2>2. Calm(t)
    BY <1>1, <1>2, <2>1, EndIsCalm DEF Tidying, Marked, Ending
  <2>3. QED
    BY <1>1, <1>3, <2>2, Basics DEF Quiet, GateStep
<1>4. CASE /\ gate.owner = Nil /\ gate' = [gate EXCEPT !.owner = t]
           /\ Set(t, [pc |-> "drain",
                      at |-> IF Kind(t) = "CleanupNow" THEN th[t].start ELSE now])
  <2> DEFINE at == IF Kind(t) = "CleanupNow" THEN th[t].start ELSE now
  <2>1. Set(t, [pc |-> "drain", at |-> at])
    BY <1>4
  <2> HIDE DEF at
  <2>2. Goes(t, "drain")
    BY <2>1, Basics
       DEF HasLocals, Set, With, Tidy, Goes, Arrives, Moved, SameAnswer, Fields
  <2>3. gate'.owner = t /\ gate'.writers = gate.writers
    BY <1>4 DEF Inv, StateTypes
  <2>4. Fresh(t)' <=> Fresh(t)
    BY <1>1, <2>2 DEF Goes, Arrives, Fresh
  <2>5. CallOK(t)'
    BY <1>1, <1>2, <2>2, <2>3, <2>4, Basics
       DEF Goes, Arrives, Moved, SameAnswer, CallOK, LocalTypes, KindOK, PathsOK, HoldsOK,
           GateOK, FreshOK, LoadOK, Kind, Clearing, Ending, Working, Checked
  <2>6. Calm(t)
    BY <1>1, <2>2, <2>5
       DEF Calm, Goes, Arrives, Moved, SameAnswer, Marked, Post, Counted, Kind, Ending
  <2>7. QED
    BY <1>1, <1>4, <2>6, Basics DEF Quiet, GateStep
<1>5. QED
  BY <1>3, <1>4 DEF ResizeTry

\* Clear takes the resize bit.
LEMMA ClearAcquireQuiet ==
    ASSUME Inv, NEW t \in Call, ClearAcquire(t)
    PROVE  Quiet(t)
<1>1. /\ th[t].pc = "clearAll" /\ gate.owner = Nil /\ gate' = [gate EXCEPT !.owner = t]
      /\ Goto(t, "clearDrain")
      /\ UNCHANGED <<slot, ctrl, value, data, hits, exp, cnt, now, noClone, op>>
  BY DEF ClearAcquire, At, config
<1>2. Goes(t, "clearDrain") /\ th[t].pc \notin Marked \cup Post
  BY <1>1, Basics, GotoGoes DEF Tidying, Marked, Post
<1>3. gate'.owner = t /\ gate'.writers = gate.writers
  BY <1>1 DEF Inv, StateTypes
<1>4. CallOK(t)'
  BY <1>1, <1>2, <1>3, Basics
     DEF Goes, Arrives, Moved, SameAnswer, CallOK, LocalTypes, KindOK, PathsOK, HoldsOK, GateOK,
         FreshOK, LoadOK, Kind, Clearing, Ending, Working, Checked
<1>5. Calm(t)
  BY <1>1, <1>2, <1>4, ArriveIsCalm DEF Goes, Marked, Clearing, Ending
<1>6. QED
  BY <1>1, <1>5, Basics DEF Quiet, GateStep

\* The owner of a drained gate is alone with the table and the counters.
LEMMA OwnerAlone ==
    ASSUME Inv, NEW t \in Call, gate.owner = t, gate.writers = {}
    PROVE  /\ \A u \in Call : th[u].pc # "publish"
           /\ \A u \in Call \ {t} : th[u].pc \notin {"rebuild", "rebuildCount"}
           /\ Due => cnt.needs
           /\ Unlimited =>
                /\ cnt.tomb = cnt.used - cnt.live
                /\ th[t].pc # "rebuildCount" =>
                     cnt.live = One(InSlot # Nil) /\ cnt.used = One(slot # Nil)
<1>1. \A u \in Call : th[u].pc # "publish"
  BY OnlyInsertion
<1>2. \A u \in Call \ {t} : th[u].pc \notin {"rebuild", "rebuildCount"}
  BY DEF Inv, CallOK, GateOK
<1>3. Due => cnt.needs
  BY <1>1 DEF Inv, FlagOK, At
<1>4. ASSUME Unlimited PROVE /\ cnt.tomb = cnt.used - cnt.live
                             /\ th[t].pc # "rebuildCount" =>
                                  cnt.live = One(InSlot # Nil) /\ cnt.used = One(slot # Nil)
  <2>1. CountOK /\ cnt.live \in Int /\ cnt.used \in Int
    BY <1>4 DEF Inv, StateTypes
  <2>2. ~Inserting /\ (th[t].pc # "rebuildCount" => ~Recounting)
    BY <1>1, <1>2 DEF Inserting, Recounting, At
  <2>3. th[t].pc # "rebuildCount" =>
          cnt.live + 0 = One(InSlot # Nil) /\ cnt.used + 0 = One(slot # Nil)
    BY <2>1, <2>2 DEF CountOK, One
  <2>4. QED
    BY <2>1, <2>3 DEF CountOK
<1>5. QED
  BY <1>1, <1>2, <1>3, <1>4

\* A step of that owner.
LEMMA OwnerKeeps ==
    ASSUME Inv, NEW t \in Call, gate.owner = t, gate.writers = {}, UNCHANGED gate \/ Release,
           th' = [u \in Call |-> th'[u]], \A u \in Call \ {t} : th'[u] = th[u],
           CallOK(t)', th'[t].pc \in {"rebuild", "rebuildCount", "done"},
           \A b \in Obj : op[b].hits > 0 /\ Counted(t, b)' => Counted(t, b),
           UNCHANGED <<value, data, hits, exp, now, noClone, op>>,
           slot' \in {slot, Nil}, ctrl' \in BOOLEAN, ctrl' => slot' # Nil,
           cnt' \in [live : Int, used : Int, tomb : Int, bytes : Int, needs : BOOLEAN],
           Due' => cnt'.needs,
           Due' /\ th'[t].pc # "done" => th'[t].nc,
           Unlimited =>
             /\ cnt'.tomb = cnt'.used - cnt'.live
             /\ th'[t].pc # "rebuildCount" =>
                  cnt'.live = One(InSlot' # Nil) /\ cnt'.used = One(slot' # Nil)
             /\ th'[t].pc # "done" => th'[t].n = One(InSlot' # Nil)
             /\ th'[t].pc = "rebuildCount" => th'[t].n = One(slot' # Nil)
    PROVE  Inv'
<1>1. GateStep(t)
  BY DEF GateStep
<1>2. StateTypes'
  BY <1>1, GateTypes DEF Inv, StateTypes, TypeOK
<1>3. Beside(t)
  BY <1>1 DEF Beside, config, Inv, StateTypes, TypeOK
<1>4. (\A u \in Call : CallOK(u)') /\ LimitsOK' /\ BudgetOK'
  BY <1>3, StepKeeps, Basics DEF LimitsOK
<1>5. Published'
  BY DEF Inv, Published, Post
<1>6. /\ \A u \in Call : th'[u].pc # "publish"
      /\ \A u \in Call \ {t} : th'[u].pc \notin {"rebuild", "rebuildCount"}
  BY OwnerAlone
<1>7. FlagOK'
  BY <1>6 DEF FlagOK
<1>8. Unlimited' => CountOK'
  <2>1. SUFFICES ASSUME Unlimited PROVE CountOK'
    BY DEF Unlimited
  <2>2. ~Inserting' /\ (~Recounting' => th'[t].pc # "rebuildCount")
    BY <1>6 DEF Inserting, Recounting, At
  <2>3. One(Inserting)' = 0
    <3> HIDE DEF Inserting
    <3>1. QED
      BY <2>2 DEF One
  <2>4. ~Recounting' => /\ cnt'.live + 0 = One(InSlot' # Nil)
                        /\ cnt'.used + 0 = One(slot' # Nil)
    <3>1. cnt'.live \in Int /\ cnt'.used \in Int
      OBVIOUS
    <3>2. ~Recounting' => cnt'.live = One(InSlot' # Nil) /\ cnt'.used = One(slot' # Nil)
      BY <2>1, <2>2
    <3>3. QED
      BY <3>1, <3>2
  <2>5. /\ \A u \in Call : th'[u].pc \in {"rebuild", "rebuildCount"} =>
                              th'[u].n = One(InSlot' # Nil)
        /\ \A u \in Call : At(u, "rebuildCount")' => th'[u].n = One(slot' # Nil)
    BY <1>6, <2>1 DEF At
  <2>6. cnt'.tomb = cnt'.used - cnt'.live
    BY <2>1
  <2>7. QED
    BY <2>3, <2>4, <2>5, <2>6 DEF CountOK, One
<1>9. QED
  BY <1>2, <1>4, <1>5, <1>7, <1>8 DEF Inv

\* Without limits a rebuild keeps every entry that has a box.
LEMMA KeptUnlimited ==
    ASSUME Inv, NEW t \in Call, Unlimited
    PROVE  Kept(t, InSlot) <=> InSlot # Nil
<1>1. InSlot = Nil \/ InSlot \in Obj
  BY Basics, NamesAssumption DEF InSlot
<1>2. InSlot \in Obj => exp[InSlot] = 0 /\ hits[InSlot] = 0
  BY Basics DEF LimitsOK, Unlimited
<1>3. QED
  BY <1>1, <1>2 DEF Kept, Depleted

\* The first pass over the table.
LEMMA DrainedKeeps ==
    ASSUME Inv, NEW t \in Call, Drained(t)
    PROVE  Inv'
<1>1. /\ th[t].pc = "drain" /\ gate.writers = {}
      /\ UNCHANGED <<slot, ctrl, value, data, hits, exp, cnt, now, noClone, op>>
  BY DEF Drained, At, config
<1>2. /\ th[t].res.ok /\ ~th[t].again /\ Kind(t) \notin Storing => Fresh(t)
      /\ gate.owner = t
  BY <1>1, Basics DEF CallOK, FreshOK, GateOK, Ending
<1>3. CASE Release /\ Goto(t, "done")
  <2>1. Ends(t, "done", th[t].res)
    BY <1>3, Basics, GotoEnds DEF Tidying
  <2>2. Calm(t)
    BY <1>1, <1>2, <2>1, EndIsCalm DEF Tidying, Marked, Ending
  <2>3. QED
    BY <1>1, <1>2, <1>3, <2>2, Basics, QuietKeeps DEF Quiet, GateStep
<1> DEFINE kept == Kept(t, InSlot)
           n == IF kept THEN 1 ELSE 0
           by == IF kept THEN BytesOf(InSlot) ELSE 0
           nc == InSlot # Nil /\ RequiresCleanup(InSlot)
<1>4. CASE Set(t, [pc |-> "rebuild", n |-> n, by |-> by, nc |-> nc]) /\ UNCHANGED gate
  <2>1. n \in Int /\ nc \in BOOLEAN /\ (nc <=> Due) /\ n = One(kept)
    BY DEF Due, RequiresCleanup, One
  <2>2. by \in Int
    <3>1. kept => InSlot \in Obj
      BY Basics, NamesAssumption DEF InSlot, Kept
    <3>2. QED
      BY <3>1, BytesType
  <2>3. InSlot' = InSlot /\ Due' = Due
    BY <1>1 DEF InSlot, Due, RequiresCleanup
  <2> HIDE DEF n, by, nc
  <2>4. /\ Moved(t) /\ th'[t].pc = "rebuild" /\ th'[t].ent = th[t].ent /\ th'[t].box = th[t].box
        /\ th'[t].start = th[t].start /\ SameAnswer(t)
        /\ th'[t].n = n /\ th'[t].by = by
    BY <1>4, Basics DEF HasLocals, Set, With, Tidy, Moved, SameAnswer, Fields
  <2>5. th'[t].nc = nc
    BY <1>4, Basics, Zenon DEF HasLocals, Set, With, Tidy, Fields
  <2>6. Fresh(t)' <=> Fresh(t)
    BY <1>1, <2>4 DEF Fresh
  <2>7. CallOK(t)'
    BY <1>1, <1>2, <1>4, <2>1, <2>2, <2>4, <2>5, <2>6, Basics
       DEF Moved, SameAnswer, CallOK, LocalTypes, KindOK, PathsOK, HoldsOK, GateOK, FreshOK,
           LoadOK, Kind, Clearing, Ending, Working, Checked
  <2>8. \A b \in Obj : Counted(t, b)' => Counted(t, b)
    BY <1>1, <2>4 DEF SameAnswer, Counted, Kind, Ending
  <2>9. Due => cnt.needs
    BY <1>1, <1>2, OwnerAlone
  <2>10. Unlimited =>
          /\ cnt.tomb = cnt.used - cnt.live
          /\ cnt.live = One(InSlot # Nil) /\ cnt.used = One(slot # Nil)
    BY <1>1, <1>2, OwnerAlone
  <2>11. Unlimited => n = One(InSlot # Nil)
    BY <2>1, KeptUnlimited DEF One
  <2>12. /\ slot' \in {slot, Nil} /\ ctrl' \in BOOLEAN /\ (ctrl' => slot' # Nil)
         /\ cnt' \in [live : Int, used : Int, tomb : Int, bytes : Int, needs : BOOLEAN]
    BY <1>1 DEF Inv, StateTypes, TypeOK
  <2>13. Due' => cnt'.needs /\ th'[t].nc
    BY <1>1, <2>1, <2>3, <2>5, <2>9
  <2>14. Unlimited =>
          /\ cnt'.tomb = cnt'.used - cnt'.live
          /\ cnt'.live = One(InSlot' # Nil) /\ cnt'.used = One(slot' # Nil)
          /\ th'[t].n = One(InSlot' # Nil)
    BY <1>1, <2>3, <2>4, <2>10, <2>11
  <2>15. QED
    BY <1>1, <1>2, <1>4, <2>4, <2>7, <2>8, <2>12, <2>13, <2>14, OwnerKeeps DEF Moved
<1>5. QED
  BY <1>3, <1>4 DEF Drained

\* The second pass.
LEMMA RebuildKeeps ==
    ASSUME Inv, NEW t \in Call, Rebuild(t)
    PROVE  Inv'
<1> DEFINE kept == Kept(t, InSlot)
<1>1. /\ th[t].pc = "rebuild" /\ Goto(t, "rebuildCount")
      /\ slot' = (IF kept THEN slot ELSE Nil) /\ ctrl' = kept
      /\ UNCHANGED <<value, data, hits, exp, cnt, gate, now, noClone, op>>
  BY DEF Rebuild, At, config
<1>2. /\ th[t].res.ok /\ ~th[t].again /\ Kind(t) \notin Storing => Fresh(t)
      /\ gate.owner = t /\ gate.writers = {}
  BY <1>1, Basics DEF CallOK, FreshOK, GateOK, Ending
<1>3. Goes(t, "rebuildCount")
  BY <1>1, Basics, GotoGoes DEF Tidying
<1>4. kept \in BOOLEAN /\ (kept => InSlot # Nil /\ slot # Nil)
  BY DEF Kept, InSlot
<1>5. InSlot' = (IF kept THEN InSlot ELSE Nil)
  BY <1>1 DEF InSlot
<1>6. Due' => Due
  <2>1. CASE kept
    BY <1>1, <1>5, <2>1 DEF Due, RequiresCleanup
  <2>2. CASE ~kept
    BY <1>5, <2>2 DEF Due
  <2>3. QED
    BY <2>1, <2>2
<1>7. Unlimited => (kept <=> InSlot # Nil)
  BY KeptUnlimited
<1> HIDE DEF kept
<1>8. Fresh(t)' <=> Fresh(t)
  BY <1>1, <1>3 DEF Goes, Arrives, Fresh
<1>9. CallOK(t)'
  BY <1>1, <1>2, <1>3, <1>8, Basics
     DEF Goes, Arrives, Moved, SameAnswer, CallOK, LocalTypes, KindOK, PathsOK, HoldsOK, GateOK,
         FreshOK, LoadOK, Kind, Clearing, Ending, Working, Checked
<1>10. \A b \in Obj : Counted(t, b)' => Counted(t, b)
  BY <1>1, <1>3 DEF Goes, Arrives, SameAnswer, Counted, Kind, Ending
<1>11. (Due => cnt.needs) /\ (Due => th[t].nc)
  BY <1>1, <1>2, OwnerAlone DEF Inv, FlagOK
<1>12. Unlimited => cnt.tomb = cnt.used - cnt.live /\ th[t].n = One(InSlot # Nil)
  BY <1>1 DEF Inv, CountOK
<1>13. /\ slot' \in {slot, Nil} /\ ctrl' \in BOOLEAN /\ (ctrl' => slot' # Nil)
       /\ cnt' \in [live : Int, used : Int, tomb : Int, bytes : Int, needs : BOOLEAN]
  BY <1>1, <1>4 DEF Inv, StateTypes
<1>14. (Due' => cnt'.needs) /\ (Due' => th'[t].nc)
  BY <1>1, <1>3, <1>6, <1>11 DEF Goes, Arrives
<1>15. Unlimited =>
         /\ cnt'.tomb = cnt'.used - cnt'.live
         /\ th'[t].n = One(InSlot' # Nil) /\ th'[t].n = One(slot' # Nil)
  BY <1>1, <1>3, <1>4, <1>5, <1>7, <1>12 DEF Goes, Arrives, One
<1>16. /\ Moved(t) /\ th'[t].pc = "rebuildCount"
  BY <1>3 DEF Goes, Arrives
<1>17. QED
  BY <1>1, <1>2, <1>9, <1>10, <1>13, <1>14, <1>15, <1>16, OwnerKeeps DEF Moved

\* The counters of the first pass are stored.
LEMMA RebuildCountKeeps ==
    ASSUME Inv, NEW t \in Call, RebuildCount(t)
    PROVE  Inv'
<1>1. /\ th[t].pc = "rebuildCount" /\ Goto(t, "done") /\ Release
      /\ cnt' = [live |-> th[t].n, used |-> th[t].n, tomb |-> 0,
                 bytes |-> th[t].by, needs |-> th[t].nc]
      /\ UNCHANGED <<slot, ctrl, value, data, hits, exp, now, noClone, op>>
  BY DEF RebuildCount, At, config
<1>2. /\ th[t].res.ok /\ ~th[t].again /\ Kind(t) \notin Storing => Fresh(t)
      /\ gate.owner = t /\ gate.writers = {}
      /\ th[t].n \in Int /\ th[t].by \in Int /\ th[t].nc \in BOOLEAN
  BY <1>1, Basics DEF CallOK, FreshOK, GateOK, Ending, LocalTypes
<1>3. Ends(t, "done", th[t].res)
  BY <1>1, Basics, GotoEnds DEF Tidying
<1>4. CallOK(t)'
  BY <1>1, <1>2, <1>3, EndKeepsCall DEF Tidying
<1>5. \A b \in Obj : Counted(t, b)' => Counted(t, b)
  BY <1>1, <1>3, Basics DEF Ends, Counted, Kind, Ending
<1>6. InSlot' = InSlot /\ Due' = Due
  BY <1>1 DEF InSlot, Due, RequiresCleanup
<1>7. /\ cnt' \in [live : Int, used : Int, tomb : Int, bytes : Int, needs : BOOLEAN]
      /\ cnt'.live = th[t].n /\ cnt'.used = th[t].n /\ cnt'.tomb = 0
  BY <1>1, <1>2
<1>8. cnt'.needs = th[t].nc
  BY <1>1
<1>9. Due' => cnt'.needs
  BY <1>1, <1>6, <1>8 DEF Inv, FlagOK
<1>10. Unlimited => th[t].n = One(InSlot # Nil) /\ th[t].n = One(slot # Nil)
  BY <1>1 DEF Inv, CountOK, At
<1>11. Unlimited =>
         /\ cnt'.tomb = cnt'.used - cnt'.live
         /\ cnt'.live = One(InSlot' # Nil) /\ cnt'.used = One(slot' # Nil)
  BY <1>1, <1>2, <1>6, <1>7, <1>10
<1>12. slot' \in {slot, Nil} /\ ctrl' \in BOOLEAN /\ (ctrl' => slot' # Nil)
  BY <1>1 DEF Inv, StateTypes, TypeOK
<1>13. Moved(t) /\ th'[t].pc = "done"
  BY <1>3 DEF Ends
<1>14. QED
  BY <1>1, <1>2, <1>4, <1>5, <1>7, <1>9, <1>11, <1>12, <1>13, OwnerKeeps DEF Moved

\* Clear installs an empty table.
LEMMA ClearTableKeeps ==
    ASSUME Inv, NEW t \in Call, ClearTable(t)
    PROVE  Inv'
<1>1. /\ th[t].pc = "clearDrain" /\ gate.writers = {} /\ slot' = Nil /\ ctrl' = FALSE
      /\ Set(t, [pc |-> "rebuildCount", n |-> 0, by |-> 0, nc |-> FALSE])
      /\ UNCHANGED <<value, data, hits, exp, cnt, gate, now, noClone, op>>
  BY DEF ClearTable, At, config
<1>2. /\ gate.owner = t /\ Kind(t) = "Clear" /\ th[t].box = Nil
  BY <1>1, Basics DEF CallOK, GateOK, KindOK, Sweepers
<1>3. /\ Moved(t) /\ th'[t].pc = "rebuildCount" /\ th'[t].ent = th[t].ent /\ th'[t].box = Nil
      /\ th'[t].start = th[t].start /\ SameAnswer(t)
      /\ th'[t].n = 0 /\ th'[t].by = 0
  BY <1>1, <1>2, Basics, ZenonT(30) DEF HasLocals, Set, With, Tidy, Moved, SameAnswer, Fields
<1>4. th'[t].nc = FALSE
  BY <1>1, Basics, Zenon DEF HasLocals, Set, With, Tidy, Fields
<1>5. CallOK(t)'
  <2>1. UNCHANGED <<gate, op, exp, now>> /\ CallOK(t) /\ Kind(t)' = "Clear" /\ Fresh(t)'
    BY <1>1, <1>2, <1>3, Basics DEF Kind, Fresh
  <2>2. LocalTypes(t)'
    <3>1. th'[t].nc \in BOOLEAN
      BY <1>4
    <3>2. QED
      BY <1>3, <2>1, <3>1 DEF Moved, SameAnswer, CallOK, LocalTypes
  <2>3. KindOK(t)' /\ PathsOK(t)' /\ HoldsOK(t)' /\ LoadOK(t)'
    BY <1>3, <2>1 DEF KindOK, PathsOK, HoldsOK, LoadOK
  <2>4. GateOK(t)' /\ FreshOK(t)'
    BY <1>1, <1>2, <1>3, <2>1 DEF CallOK, GateOK, FreshOK, Working, Clearing
  <2>5. QED
    BY <2>2, <2>3, <2>4 DEF CallOK
<1>6. \A b \in Obj : ~Counted(t, b)'
  BY <1>1, <1>2 DEF Counted, Kind
<1>7. InSlot' = Nil /\ ~Due'
  BY <1>1 DEF InSlot, Due
<1>8. Unlimited => cnt.tomb = cnt.used - cnt.live
  BY <1>1, <1>2, OwnerAlone
<1>9. Unlimited =>
        /\ cnt'.tomb = cnt'.used - cnt'.live
        /\ th'[t].n = One(InSlot' # Nil) /\ th'[t].n = One(slot' # Nil)
  BY <1>1, <1>3, <1>7, <1>8 DEF One
<1>10. /\ slot' \in {slot, Nil} /\ ctrl' \in BOOLEAN /\ (ctrl' => slot' # Nil)
       /\ cnt' \in [live : Int, used : Int, tomb : Int, bytes : Int, needs : BOOLEAN]
  BY <1>1 DEF Inv, StateTypes
<1>11. QED
  BY <1>1, <1>2, <1>3, <1>5, <1>6, <1>7, <1>9, <1>10, OwnerKeeps DEF Moved

-------------------------------------------------------------------------------
\* The initial states, and all steps.

\* What Zero and the workload leave.
LEMMA InitTypes ==
    ASSUME Init
    PROVE  /\ op \in [Obj -> Operations] /\ now \in 0..MaxTime /\ now \in Nat
           /\ noClone \in BOOLEAN
           /\ hits = [b \in Obj |-> op[b].hits] /\ data = [b \in Obj |-> op[b].val]
           /\ exp = [b \in Obj |-> IF b = Zero THEN op[b].ttl ELSE 0]
           /\ gate = [writers |-> {}, owner |-> Nil] /\ th = [t \in Call |-> Locals]
           /\ FirstLeaves(Kind(Zero))
<1>1. PICK w \in Workloads :
        /\ op \in {[b \in Obj |-> IF b = Zero THEN o ELSE f[b]] :
                     o \in w.first, f \in [Call -> w.ops]}
        /\ now = w.now /\ noClone = w.noClone
  BY DEF Init
<1>2. /\ w.first \subseteq Operations /\ w.ops \subseteq Operations
      /\ now \in 0..MaxTime /\ noClone \in BOOLEAN /\ MaxTime \in Nat
  BY <1>1, WorkloadsAssumption
<1>3. PICK o \in w.first, f \in [Call -> w.ops] : op = [b \in Obj |-> IF b = Zero THEN o ELSE f[b]]
  BY <1>1
<1>4. op \in [Obj -> Operations]
  BY <1>2, <1>3 DEF Obj
<1>5. QED
  BY <1>2, <1>4 DEF Init

\* Every limit of an operation is a number.
LEMMA OperationTypes ==
    ASSUME op \in [Obj -> Operations], NEW b \in Obj
    PROVE  op[b].hits \in Nat /\ op[b].ttl \in Nat /\ op[b].val \in Value \cup {Nil}
  BY DEF Operations

\* The initial states satisfy the invariant.
LEMMA InitInv == Init => Inv
<1> SUFFICES ASSUME Init PROVE Inv
  OBVIOUS
<1> USE InitTypes, NamesAssumption
<1> DEFINE k == Kind(Zero)
           live == IF k \in {"Clear", "Delete"} THEN 0 ELSE 1
           used == IF k = "Clear" THEN 0 ELSE 1
           tomb == IF k = "Delete" THEN 1 ELSE 0
           bytes == IF k \in {"Clear", "Delete"} THEN 0 ELSE BytesOf(Zero)
           needs == k = "Delete" \/ op[Zero].hits > 0 \/ op[Zero].ttl > 0
<1>1. \A t \in Call : th[t] = Locals
  OBVIOUS
<1>2. \A b \in Obj : op[b].hits \in Nat /\ op[b].ttl \in Nat /\ op[b].val \in Value \cup {Nil}
  BY OperationTypes
<1>3. Zero \in Obj /\ Nil \notin Obj /\ Call \subseteq Obj
  BY DEF Obj
<1>4. /\ slot \in {Zero, Nil} /\ ctrl \in BOOLEAN /\ (ctrl => slot # Nil)
      /\ value \in [Obj -> {Zero, Nil}]
  BY <1>3 DEF FirstLeaves
<1>15. cnt = [live |-> live, used |-> used, tomb |-> tomb, bytes |-> bytes, needs |-> needs]
  BY Zenon DEF FirstLeaves
<1>5. cnt \in [live : Int, used : Int, tomb : Int, bytes : Int, needs : BOOLEAN]
  <2>1. BytesOf(Zero) \in Nat
    BY <1>2, <1>3, ClonerAssumption DEF BytesOf
  <2>2. live \in Int /\ used \in Int /\ tomb \in Int /\ bytes \in Int /\ needs \in BOOLEAN
    BY <2>1
  <2> HIDE DEF live, used, tomb, bytes, needs
  <2>3. QED
    BY <1>15, <2>2
<1>6. StateTypes
  BY <1>2, <1>3, <1>4, <1>5 DEF StateTypes, TypeOK
<1>7. \A t \in Call : CallOK(t)
  <2> SUFFICES ASSUME NEW t \in Call PROVE CallOK(t)
    OBVIOUS
  <2>1. /\ DOMAIN th[t] = Fields /\ th[t].pc = "call" /\ th[t].ent = Nil /\ th[t].box = Nil
        /\ th[t].start = 0 /\ th[t].n = 0 /\ th[t].by = 0
    BY <1>1 DEF Locals, Fields
  <2>6. Locals.again = FALSE /\ Locals.nc = FALSE
    BY DEF Locals
  <2>2. th[t].again \in BOOLEAN /\ th[t].nc \in BOOLEAN
    <3> HIDE DEF Locals
    <3>1. QED
      BY <1>1, <2>6
  <2>3. LocalTypes(t) /\ KindOK(t) /\ PathsOK(t) /\ HoldsOK(t) /\ GateOK(t) /\ LoadOK(t)
    BY <2>1, <2>2 DEF LocalTypes, KindOK, PathsOK, HoldsOK, GateOK, LoadOK, Clearing, Working
  <2>4. FreshOK(t)
    BY <2>1 DEF FreshOK, Clearing, Ending, Checked
  <2>5. QED
    BY <2>3, <2>4 DEF CallOK
<1>8. LimitsOK
  BY <1>2 DEF LimitsOK
<1>9. Published
  BY <1>4 DEF Published
<1>10. BudgetOK
  <2>1. SUFFICES ASSUME NEW b \in Obj, op[b].hits > 0 PROVE Budget(b)
    BY DEF BudgetOK
  <2>2. AnsweredFrom(b) = {}
    BY <1>1 DEF AnsweredFrom, Counted, Locals, Clearing, Ending
  <2>3. IsFiniteSet(AnsweredFrom(b)) /\ Cardinality(AnsweredFrom(b)) = 0
    BY <2>2, FS_EmptySet
  <2>4. QED
    BY <1>2, <2>1, <2>3 DEF Budget
<1>11. \A t \in Call : th[t].pc = "call"
  BY <1>1 DEF Locals
<1>12. FlagOK
  <2>1. Due => cnt.needs
    <3>1. SUFFICES ASSUME Due PROVE cnt.needs
      OBVIOUS
    <3>2. InSlot = Zero
      BY <1>3, <1>4, <3>1 DEF Due, InSlot
    <3>3. op[Zero].hits > 0 \/ op[Zero].ttl > 0
      BY <1>2, <1>3, <3>1, <3>2 DEF Due, RequiresCleanup
    <3>4. cnt.needs = needs
      <4> HIDE DEF live, used, tomb, bytes, needs
      <4>1. QED
        BY <1>15
    <3>5. QED
      BY <3>3, <3>4
  <2>2. QED
    BY <1>11, <2>1 DEF FlagOK
<1>13. CountOK
  <2>1. ~Inserting /\ ~Recounting
    BY <1>11 DEF Inserting, Recounting, At
  <2>2. /\ cnt.live = One(InSlot # Nil) /\ cnt.used = One(slot # Nil)
        /\ cnt.tomb = cnt.used - cnt.live
    BY <1>3 DEF FirstLeaves, InSlot, One
  <2>3. cnt.live + 0 = cnt.live /\ cnt.used + 0 = cnt.used
    BY <1>5
  <2>4. One(Inserting) = 0
    BY <2>1 DEF One
  <2>5. QED
    BY <1>11, <2>2, <2>3, <2>4 DEF CountOK, At
<1>14. QED
  BY <1>6, <1>7, <1>8, <1>9, <1>10, <1>12, <1>13 DEF Inv

\* The clock only advances.
LEMMA TickKeeps == ASSUME Inv, Tick PROVE Inv'
<1>1. /\ now' = now + 1 /\ now < MaxTime
      /\ UNCHANGED <<slot, ctrl, value, data, hits, exp, cnt, gate, noClone, op, th>>
  BY DEF Tick, shared, config
<1>2. StateTypes'
  BY <1>1, WorkloadsAssumption DEF Inv, StateTypes, TypeOK
<1>3. ASSUME NEW t \in Call PROVE CallOK(t)'
  <2>1. CallOK(t) /\ now \in Nat
    BY Basics
  <2>2. Fresh(t)' = Fresh(t)
    BY <1>1 DEF Fresh
  <2>3. LocalTypes(t)' /\ KindOK(t)' /\ PathsOK(t)' /\ HoldsOK(t)' /\ GateOK(t)' /\ LoadOK(t)'
    BY <1>1, <2>1 DEF CallOK, LocalTypes, KindOK, PathsOK, HoldsOK, GateOK, LoadOK, Kind, Unlimited
  <2>4. FreshOK(t)'
    BY <1>1, <2>1, <2>2 DEF CallOK, LocalTypes, FreshOK, Kind
  <2>5. QED
    BY <2>3, <2>4 DEF CallOK
<1>4. LimitsOK' /\ Published' /\ (Unlimited' <=> Unlimited)
  BY <1>1 DEF Inv, LimitsOK, Published, Unlimited
<1>5. BudgetOK'
  BY <1>1 DEF Inv, BudgetOK, Budget, AnsweredFrom, Counted, Kind
<1>6. FlagOK'
  BY <1>1 DEF Inv, FlagOK, Due, InSlot, RequiresCleanup, At
<1>7. CountOK => CountOK'
  BY <1>1 DEF CountOK, InSlot, Inserting, Recounting, At, One
<1>8. QED
  BY <1>2, <1>3, <1>4, <1>5, <1>6, <1>7 DEF Inv

\* Every step of a call.
LEMMA StepInv ==
    ASSUME Inv, NEW t \in Call, Step(t)
    PROVE  Inv'
<1>1. CASE ReadStep(t)
  BY <1>1, ReadFindQuiet, RangeSimpleQuiet, RangeSimpleValQuiet, ReadBoxQuiet, ReadValQuiet,
     ConsumeHitKeeps, ConsumeReloadQuiet, ReadSlowQuiet, QuietKeeps DEF ReadStep
<1>2. CASE WriteStep(t)
  <2>1. CASE \/ FastFind(t) \/ FastBox(t) \/ SwapData(t)
             \/ InlineFind(t) \/ InlineBox(t) \/ InlineCAS(t) \/ InlineCount(t)
    BY <2>1, FastFindQuiet, FastBoxQuiet, SwapDataQuiet, InlineFindQuiet, InlineBoxQuiet,
       InlineCASKeeps, InlineCountKeeps, QuietKeeps
  <2>2. CASE \/ PutProbe(t) \/ Insert(t) \/ Publish(t)
             \/ ReplaceOrRevive(t) \/ Revive(t) \/ ReplaceCAS(t)
    BY <2>2, PutProbeQuiet, InsertKeeps, PublishKeeps, ReplaceOrReviveQuiet, ReviveKeeps,
       ReplaceCASKeeps, QuietKeeps
  <2>3. CASE \/ LookupFind(t) \/ LookupBox(t) \/ LookupVal(t) \/ Scan(t) \/ ScanVal(t)
             \/ BuildBox(t)
    BY <2>3, LookupFindQuiet, LookupBoxQuiet, LookupValQuiet, ScanQuiet, ScanValQuiet,
       BuildBoxKeeps, QuietKeeps
  <2>4. CASE GateFind(t) \/ MatchBox(t) \/ MatchVal(t) \/ Claim(t) \/ Unlink(t)
    BY <2>4, GateFindQuiet, MatchBoxQuiet, MatchValQuiet, ClaimQuiet, UnlinkKeeps, QuietKeeps
  <2>5. CASE PreFind(t) \/ PreBox(t) \/ PreVal(t) \/ ReplaceData(t) \/ SwapBox(t) \/ UserPanics(t)
    BY <2>5, PreFindQuiet, PreBoxQuiet, PreValQuiet, ReplaceDataQuiet, SwapBoxKeeps,
       UserPanicsQuiet, QuietKeeps
  <2>6. QED
    BY <1>2, <2>1, <2>2, <2>3, <2>4, <2>5 DEF WriteStep
<1>3. CASE RebuildStep(t)
  BY <1>3, CleanupStartQuiet, ResizeTryQuiet, DrainedKeeps, RebuildKeeps, RebuildCountKeeps,
     ClearAcquireQuiet, ClearTableKeeps, QuietKeeps DEF RebuildStep
<1>4. CASE ClearIfMatch(t) \/ ClearCount(t) \/ EndWrite(t) \/ MaybeResize(t)
  BY <1>4, ClearIfMatchKeeps, ClearCountKeeps, EndWriteQuiet, MaybeResizeQuiet, QuietKeeps
<1>5. QED
  BY <1>1, <1>2, <1>3, <1>4 DEF Step

\* A step that changes nothing.
LEMMA StutterKeeps == ASSUME Inv, UNCHANGED vars PROVE Inv'
<1>1. UNCHANGED <<slot, ctrl, value, data, hits, exp, cnt, gate, now, noClone, op, th>>
  BY DEF vars, shared, config
<1>2. StateTypes' /\ LimitsOK' /\ Published' /\ (Unlimited' <=> Unlimited)
  BY <1>1 DEF Inv, StateTypes, TypeOK, LimitsOK, Published, Unlimited
<1>3. \A t \in Call : CallOK(t)'
  BY <1>1
     DEF Inv, CallOK, LocalTypes, KindOK, PathsOK, HoldsOK, GateOK, FreshOK, LoadOK, Fresh, Kind,
         Unlimited
<1>4. BudgetOK'
  BY <1>1 DEF Inv, BudgetOK, Budget, AnsweredFrom, Counted, Kind
<1>5. FlagOK'
  BY <1>1 DEF Inv, FlagOK, Due, InSlot, RequiresCleanup, At
<1>6. CountOK => CountOK'
  BY <1>1 DEF CountOK, InSlot, Inserting, Recounting, At, One
<1>7. QED
  BY <1>2, <1>3, <1>4, <1>5, <1>6 DEF Inv

\* The invariant is inductive.
THEOREM ShardInvariant == Spec => []Inv
<1>1. Inv /\ [Next]_vars => Inv'
  <2> SUFFICES ASSUME Inv, [Next]_vars PROVE Inv'
    OBVIOUS
  <2>1. CASE \E t \in Call : Invoke(t) \/ Step(t)
    BY <2>1, InvokeKeeps, StepInv
  <2>2. CASE Tick
    BY <2>2, TickKeeps
  <2>3. CASE UNCHANGED vars
    BY <2>3, StutterKeeps
  <2>4. QED
    BY <2>1, <2>2, <2>3 DEF Next, Finished
<1>2. QED
  BY <1>1, InitInv, PTL DEF Spec

-------------------------------------------------------------------------------
\* The state has its types, and no control word is set for an empty slot:
\* whatever calls race on the key, with rebuilds and Clear among them.
THEOREM ShardTypes == Spec => []TypeOK
<1>1. Inv => TypeOK
  BY DEF Inv, StateTypes
<1>2. QED
  BY <1>1, ShardInvariant, PTL

\* Len and Stats are exact once the calls are over: the counters that Store,
\* LoadOrStore, Delete and CompareAndSwap add to, and that rebuilds and Clear
\* overwrite, agree with the table, for any number of calls and also after a
\* panic inside the gate.
THEOREM LenIsExact == Spec => []CountersExact
<1>1. Inv => CountersExact
  <2>1. SUFFICES ASSUME Inv, Unlimited, Quiescent
                 PROVE  /\ cnt.live = IF InSlot # Nil THEN 1 ELSE 0
                        /\ cnt.used = IF slot # Nil THEN 1 ELSE 0
                        /\ cnt.tomb = cnt.used - cnt.live
    BY DEF CountersExact
  <2>2. ~Inserting /\ ~Recounting
    BY <2>1 DEF Inserting, Recounting, Quiescent, Blocked, At
  <2>3. cnt.live \in Int /\ cnt.used \in Int /\ CountOK
    BY <2>1 DEF Inv, StateTypes
  <2>4. One(Inserting) = 0
    BY <2>2 DEF One
  <2>5. cnt.live + 0 = One(InSlot # Nil) /\ cnt.used + 0 = One(slot # Nil)
    BY <2>2, <2>3, <2>4 DEF CountOK
  <2>6. QED
    BY <2>3, <2>5 DEF CountOK, One
<1>2. QED
  BY <1>1, ShardInvariant, PTL

\* A hit limit is never overspent: the CompareAndSwaps of consumeHit give out
\* no more answers than the box was stored with, however many Loads race.
THEOREM HitsAreBudgeted == Spec => []HitBudget
<1>1. Inv => HitBudget
  <2>1. SUFFICES ASSUME Inv, NEW b \in Obj, op[b].hits > 0
                 PROVE  Cardinality({t \in Call : /\ Kind(t) = "Load" /\ At(t, "done")
                                                  /\ th[t].res.ok /\ th[t].box = b}) <= op[b].hits
    BY DEF HitBudget
  <2> DEFINE S == {t \in Call : /\ Kind(t) = "Load" /\ At(t, "done")
                                /\ th[t].res.ok /\ th[t].box = b}
  <2>2. S \subseteq AnsweredFrom(b)
    BY DEF AnsweredFrom, Counted, At, Ending
  <2>3. /\ IsFiniteSet(AnsweredFrom(b)) /\ op[b].hits \in Nat /\ hits[b] \in Int
        /\ Cardinality(AnsweredFrom(b)) + (IF hits[b] > 0 THEN hits[b] ELSE 0) <= op[b].hits
    BY <2>1 DEF Inv, BudgetOK, Budget, StateTypes, TypeOK, Operations
  <2> HIDE DEF S
  <2>4. /\ Cardinality(S) <= Cardinality(AnsweredFrom(b))
        /\ Cardinality(S) \in Nat /\ Cardinality(AnsweredFrom(b)) \in Nat
    BY <2>2, <2>3, FS_Subset, FS_CardinalityType
  <2>5. Cardinality(S) <= op[b].hits
    BY <2>3, <2>4
  <2>6. QED
    BY <2>5 DEF S
<1>2. QED
  BY <1>1, ShardInvariant, PTL

\* No method answers from a box that had expired when the call began, but for
\* the Load whose hit-limited box is replaced under it.
THEOREM AnswersAreFresh == Spec => []NoExpiredAnswer
<1>1. Inv => NoExpiredAnswer
  <2>1. SUFFICES ASSUME Inv, NEW t \in Call, th[t].pc = "done", th[t].res.ok, th[t].box # Nil,
                        ~th[t].again, Kind(t) \notin Storing, exp[th[t].box] > 0
                 PROVE  th[t].start < exp[th[t].box]
    BY DEF NoExpiredAnswer, At, Storing
  <2>2. QED
    BY <2>1, Basics DEF CallOK, FreshOK, Fresh, Ending
<1>2. QED
  BY <1>1, ShardInvariant, PTL

\* A limited entry that the calls leave in the table has needsCleanup set, so
\* that the cleaner looks at its shard.
THEOREM CleanerIsTold == Spec => []CleanupNotForgotten
<1>1. Inv => CleanupNotForgotten
  BY DEF Inv, FlagOK, Due, CleanupNotForgotten, AllDone, At
<1>2. QED
  BY <1>1, ShardInvariant, PTL
-------------------------------------------------------------------------------
\* Linearizability. Orders of calls first: how a call is put into one.

\* An order of calls with the contents between them: each has the answer that
\* the content before it gives, and follows those that ended before it began.
Listed(order, t) == \E i \in 1..Len(order) : order[i] = t
Account(ops, r, B, order, h) ==
    /\ order \in Seq(Call)
    /\ \A i, j \in 1..Len(order) : order[i] = order[j] => i = j
    /\ \A i \in 1..Len(order) : /\ h[i] = After(ops[order[i]], h[i - 1])
                                /\ r[order[i]] = Answers(ops[order[i]], h[i - 1])
    /\ \A i, j \in 1..Len(order) : order[i] \in B[order[j]] => i < j

\* The calls in B stand among the first p of an order; the content was v at a
\* time when all of them had taken effect.
Since(order, B, p) == \A i \in 1..Len(order) : order[i] \in B => i <= p
Known(order, h, B, v) == \E p \in 0..Len(order) : h[p] = v /\ Since(order, B, p)

\* A call that leaves the same content and gives the same answer whatever the
\* content before it.
Steady(o) == o.kind \in {"Store", "Clear"}

\* Call u can stand behind the first p calls with the answer it has: it leaves
\* the content alone, or nothing behind it depends on it.
Fits(ops, r, q, B, order, h, u, p) ==
    /\ ~Listed(order, u) /\ u \notin B[u]
    /\ \A i \in 1..Len(order) : q[order[i]] = r[order[i]] /\ u \notin B[order[i]]
    /\ Since(order, B[u], p)
    /\ q[u] = Answers(ops[u], h[p])
    /\ \/ p = Len(order)
       \/ After(ops[u], h[p]) = h[p]
       \/ Steady(ops[order[p + 1]])

\* The order and the contents with it.
Joined(ops, order, h, u, p, o, g) ==
    /\ o \in Seq(Call) /\ Len(o) = Len(order) + 1
    /\ \A i \in 1..p : o[i] = order[i]
    /\ o[p + 1] = u
    /\ \A i \in (p + 1)..Len(order) : o[i + 1] = order[i]
    /\ \A i \in 0..p : g[i] = h[i]
    /\ g[p + 1] = After(ops[u], h[p])
    /\ \A i \in (p + 1)..Len(order) : g[i + 1] = h[i]

\* There are such.
LEMMA JoinExists ==
    ASSUME NEW ops, NEW order \in Seq(Call), NEW h, NEW u \in Call, NEW p \in 0..Len(order)
    PROVE  \E o, g : Joined(ops, order, h, u, p, o, g)
<1> DEFINE n == Len(order)
           v == After(ops[u], h[p])
           o == [i \in 1..(n + 1) |-> IF i <= p THEN order[i]
                                      ELSE IF i = p + 1 THEN u ELSE order[i - 1]]
           g == [i \in 0..(n + 1) |-> IF i <= p THEN h[i]
                                      ELSE IF i = p + 1 THEN v ELSE h[i - 1]]
<1>1. n \in Nat /\ p \in Nat /\ p <= n /\ \A i \in 1..n : order[i] \in Call
  OBVIOUS
<1>2. o \in Seq(Call) /\ Len(o) = n + 1
  <2>1. \A i \in 1..(n + 1) : o[i] \in Call
    BY <1>1
  <2>2. o \in [1..(n + 1) -> Call]
    BY <2>1
  <2> HIDE DEF o
  <2>3. QED
    BY <1>1, <2>2
<1> HIDE DEF v
<1>3. /\ \A i \in 1..p : o[i] = order[i]
      /\ o[p + 1] = u
      /\ \A i \in (p + 1)..n : o[i + 1] = order[i]
  BY <1>1
<1>4. /\ \A i \in 0..p : g[i] = h[i]
      /\ g[p + 1] = v
      /\ \A i \in (p + 1)..n : g[i + 1] = h[i]
  BY <1>1
<1> HIDE DEF o, g, n
<1>5. QED
  BY <1>2, <1>3, <1>4 DEF Joined, n, v

\* Where the calls of an order have gone.
LEMMA JoinedPlaces ==
    ASSUME NEW ops, NEW order \in Seq(Call), NEW h, NEW u \in Call, NEW p \in 0..Len(order),
           NEW o, NEW g, Joined(ops, order, h, u, p, o, g)
    PROVE  /\ \A i \in 1..Len(o) : i # p + 1 =>
                \E x \in 1..Len(order) :
                   o[i] = order[x] /\ i = IF x <= p THEN x ELSE x + 1
           /\ \A x \in 1..Len(order) :
                \E i \in 1..Len(o) : o[i] = order[x] /\ i = IF x <= p THEN x ELSE x + 1
<1> DEFINE n == Len(order)
<1>1. n \in Nat /\ p \in Nat /\ p <= n /\ Len(o) = n + 1
  BY DEF Joined
<1>2. /\ \A i \in 1..p : o[i] = order[i]
      /\ \A i \in (p + 1)..n : o[i + 1] = order[i]
  BY DEF Joined
<1> HIDE DEF n
<1>3. ASSUME NEW i \in 1..(n + 1), i # p + 1
      PROVE  \E x \in 1..n : o[i] = order[x] /\ i = IF x <= p THEN x ELSE x + 1
  <2>1. CASE i <= p
    BY <1>1, <1>2, <2>1
  <2>2. CASE i > p + 1
    <3>1. i - 1 \in (p + 1)..n /\ i - 1 \in 1..n /\ (i - 1) + 1 = i
      BY <1>1, <2>2
    <3>2. o[(i - 1) + 1] = order[i - 1]
      BY <1>2, <3>1
    <3>3. QED
      BY <1>1, <3>1, <3>2
  <2>3. QED
    BY <1>1, <1>3, <2>1, <2>2
<1>4. ASSUME NEW x \in 1..n
      PROVE  \E i \in 1..(n + 1) : o[i] = order[x] /\ i = IF x <= p THEN x ELSE x + 1
  BY <1>1, <1>2
<1>5. QED
  BY <1>1, <1>3, <1>4 DEF n

\* What was known stays known, and a call that could follow the first x still
\* follows them.
LEMMA JoinedSince ==
    ASSUME NEW ops, NEW order \in Seq(Call), NEW h, NEW u \in Call, NEW p \in 0..Len(order),
           NEW o, NEW g, Joined(ops, order, h, u, p, o, g), NEW B, u \notin B
    PROVE  /\ \A x \in 0..Len(order) : Since(order, B, x) =>
                /\ x <= p => Since(o, B, x)
                /\ x >= p => Since(o, B, x + 1)
           /\ \A v : Known(order, h, B, v) => Known(o, g, B, v)
<1> DEFINE n == Len(order)
<1>1. n \in Nat /\ p \in Nat /\ p <= n /\ Len(o) = n + 1 /\ o[p + 1] = u
  BY DEF Joined
<1>5. \A i \in 1..(n + 1) : i # p + 1 =>
         \E x \in 1..n : o[i] = order[x] /\ i = IF x <= p THEN x ELSE x + 1
  <2>1. \A i \in 1..Len(o) : i # p + 1 =>
         \E x \in 1..Len(order) : o[i] = order[x] /\ i = IF x <= p THEN x ELSE x + 1
    <3>1. Joined(ops, order, h, u, p, o, g) /\ order \in Seq(Call) /\ p \in 0..Len(order)
      OBVIOUS
    <3>2. QED
      BY <3>1, JoinedPlaces
  <2>2. QED
    BY <1>1, <2>1
<1>2. ASSUME NEW x \in 0..n, Since(order, B, x)
      PROVE  Since(o, B, IF x <= p THEN x ELSE x + 1) /\ (x <= p => Since(o, B, x))
             /\ (x >= p => Since(o, B, x + 1))
  <2>1. ASSUME NEW i \in 1..(n + 1), o[i] \in B
        PROVE  i <= IF x <= p THEN x ELSE x + 1
    <3>1. i # p + 1
      BY <1>1, <2>1
    <3>2. PICK y \in 1..n : o[i] = order[y] /\ i = IF y <= p THEN y ELSE y + 1
      BY <1>5, <2>1, <3>1
    <3>3. y <= x
      BY <1>2, <2>1, <3>2 DEF Since
    <3>4. QED
      BY <1>1, <3>2, <3>3
  <2>2. \A i \in 1..(n + 1) : o[i] \in B => i <= x + 1 /\ (x <= p => i <= x)
    BY <1>1, <2>1
  <2>3. QED
    BY <1>1, <2>1, <2>2 DEF Since
<1>3. ASSUME NEW v, Known(order, h, B, v) PROVE Known(o, g, B, v)
  <2>1. PICK x \in 0..n : h[x] = v /\ Since(order, B, x)
    BY <1>3 DEF Known
  <2> DEFINE y == IF x <= p THEN x ELSE x + 1
  <2>2. y \in 0..(n + 1)
    BY <1>1
  <2>3. g[y] = h[x]
    BY <1>1 DEF Joined
  <2>4. Since(o, B, y)
    BY <1>2, <2>1
  <2> HIDE DEF y
  <2>5. QED
    BY <1>1, <2>1, <2>2, <2>3, <2>4 DEF Known
<1>4. QED
  BY <1>2, <1>3

\* The account holds with it.
LEMMA AccountInsert ==
    ASSUME NEW ops, NEW r, NEW q, NEW B, NEW order, NEW h, Account(ops, r, B, order, h),
           NEW u \in Call, NEW p \in 0..Len(order), Fits(ops, r, q, B, order, h, u, p),
           NEW o, NEW g, Joined(ops, order, h, u, p, o, g)
    PROVE  /\ Account(ops, q, B, o, g)
           /\ \A t \in Call : Listed(o, t) <=> t = u \/ Listed(order, t)
<1> DEFINE n == Len(order)
           Up(x) == IF x <= p THEN x ELSE x + 1
<1>1. /\ order \in Seq(Call) /\ n \in Nat /\ p \in Nat /\ p <= n /\ o \in Seq(Call)
      /\ Len(o) = n + 1 /\ o[p + 1] = u /\ p + 1 \in 1..(n + 1)
  BY DEF Account, Joined
<1>2. ASSUME NEW i \in 1..(n + 1), i # p + 1 PROVE \E x \in 1..n : o[i] = order[x] /\ i = Up(x)
  <2>1. \A j \in 1..Len(o) : j # p + 1 => \E x \in 1..Len(order) : o[j] = order[x] /\ j = Up(x)
    BY <1>1, JoinedPlaces
  <2>2. QED
    BY <1>1, <1>2, <2>1
<1>3. \A x \in 1..n : \E i \in 1..(n + 1) : o[i] = order[x] /\ i = Up(x)
  <2>1. \A x \in 1..Len(order) : \E i \in 1..Len(o) : o[i] = order[x] /\ i = Up(x)
    BY <1>1, JoinedPlaces
  <2>2. QED
    BY <1>1, <2>1
<1>4. \A x, y \in 1..n : (Up(x) = Up(y) <=> x = y) /\ (x < y => Up(x) < Up(y))
  BY <1>1
<1>5. /\ \A i \in 1..n : order[i] # u /\ u \notin B[order[i]] /\ q[order[i]] = r[order[i]]
      /\ u \notin B[u] /\ \A x \in 1..n : order[x] \in B[u] => x <= p
  BY DEF Fits, Listed, Since, n
<1>6. /\ \A i, j \in 1..n : order[i] = order[j] => i = j
      /\ \A i \in 1..n : /\ h[i] = After(ops[order[i]], h[i - 1])
                        /\ r[order[i]] = Answers(ops[order[i]], h[i - 1])
      /\ \A i, j \in 1..n : order[i] \in B[order[j]] => i < j
  BY DEF Account, n
<1>7. /\ \A i \in 0..p : g[i] = h[i]
      /\ g[p + 1] = After(ops[u], h[p])
      /\ \A i \in (p + 1)..n : g[i + 1] = h[i]
      /\ q[u] = Answers(ops[u], h[p])
  BY DEF Joined, Fits, n
<1>8. p = n \/ After(ops[u], h[p]) = h[p] \/ Steady(ops[order[p + 1]])
  BY DEF Fits, n
<1> HIDE DEF n, Up
<1>9. \A i, j \in 1..(n + 1) : o[i] = o[j] => i = j
  <2> SUFFICES ASSUME NEW i \in 1..(n + 1), NEW j \in 1..(n + 1), o[i] = o[j] PROVE i = j
    OBVIOUS
  <2>1. CASE i = p + 1 \/ j = p + 1
    BY <2>1, <1>1, <1>2, <1>5
  <2>2. CASE i # p + 1 /\ j # p + 1
    BY <2>2, <1>2, <1>6
  <2>3. QED
    BY <2>1, <2>2
<1>10. ASSUME NEW i \in 1..(n + 1)
       PROVE  g[i] = After(ops[o[i]], g[i - 1]) /\ q[o[i]] = Answers(ops[o[i]], g[i - 1])
  <2>1. CASE i = p + 1
    <3>1. i - 1 = p /\ g[i - 1] = h[p]
      BY <1>1, <1>7, <2>1
    <3>2. QED
      BY <1>1, <1>7, <2>1, <3>1
  <2>2. CASE i # p + 1
    <3>1. PICK x \in 1..n : o[i] = order[x] /\ i = Up(x)
      BY <1>2, <2>2
    <3>2. CASE x <= p
      <4>1. i = x /\ x \in 0..p /\ x - 1 \in 0..p
        BY <1>1, <3>1, <3>2 DEF Up
      <4>2. QED
        BY <1>5, <1>6, <1>7, <3>1, <4>1
    <3>3. CASE x > p + 1
      <4>1. i = x + 1 /\ x \in (p + 1)..n /\ x - 1 \in (p + 1)..n /\ i - 1 = (x - 1) + 1
        BY <1>1, <3>1, <3>3 DEF Up
      <4>2. g[i] = h[x] /\ g[i - 1] = h[x - 1]
        BY <1>7, <4>1
      <4>3. QED
        BY <1>5, <1>6, <3>1, <4>2
    <3>4. CASE x = p + 1
      <4>1. i = x + 1 /\ i - 1 = p + 1 /\ x \in (p + 1)..n /\ x - 1 = p /\ p # n
        BY <1>1, <3>1, <3>4 DEF Up
      <4>2. g[i] = h[x] /\ g[i - 1] = After(ops[u], h[p])
        BY <1>7, <4>1
      <4>3. h[x] = After(ops[order[x]], h[p]) /\ q[order[x]] = Answers(ops[order[x]], h[p])
        BY <1>5, <1>6, <4>1
      <4>4. CASE After(ops[u], h[p]) = h[p]
        BY <3>1, <4>2, <4>3, <4>4
      <4>5. CASE Steady(ops[order[x]])
        <5>1. \A v, w : /\ After(ops[order[x]], v) = After(ops[order[x]], w)
                        /\ Answers(ops[order[x]], v) = Answers(ops[order[x]], w)
          BY <4>5 DEF Steady, After, Answers
        <5>2. QED
          BY <3>1, <4>2, <4>3, <5>1
      <4>6. QED
        BY <1>8, <3>4, <4>1, <4>4, <4>5
    <3>5. QED
      BY <1>1, <3>2, <3>3, <3>4
  <2>3. QED
    BY <2>1, <2>2
<1>11. ASSUME NEW i \in 1..(n + 1), NEW j \in 1..(n + 1), o[i] \in B[o[j]] PROVE i < j
  <2>1. CASE j = p + 1
    <3>1. i # p + 1 /\ o[i] \in B[u]
      BY <1>1, <1>5, <1>11, <2>1
    <3>2. PICK x \in 1..n : o[i] = order[x] /\ i = Up(x)
      BY <1>2, <3>1
    <3>3. x <= p
      BY <1>5, <3>1, <3>2
    <3>4. QED
      BY <1>1, <2>1, <3>2, <3>3 DEF Up
  <2>2. CASE j # p + 1
    <3>1. PICK y \in 1..n : o[j] = order[y] /\ j = Up(y)
      BY <1>2, <2>2
    <3>2. i # p + 1
      BY <1>1, <1>5, <1>11, <3>1
    <3>3. PICK x \in 1..n : o[i] = order[x] /\ i = Up(x)
      BY <1>2, <3>2
    <3>4. x < y
      BY <1>6, <1>11, <3>1, <3>3
    <3>5. QED
      BY <1>4, <3>1, <3>3, <3>4
  <2>3. QED
    BY <2>1, <2>2
<1>12. ASSUME NEW t \in Call PROVE Listed(o, t) <=> t = u \/ Listed(order, t)
  <2>1. \A i \in 1..(n + 1) : o[i] = u \/ \E x \in 1..n : o[i] = order[x]
    BY <1>1, <1>2
  <2>2. \A x \in 1..n : \E i \in 1..(n + 1) : o[i] = order[x]
    BY <1>3
  <2>3. \E i \in 1..(n + 1) : o[i] = u
    BY <1>1
  <2>4. QED
    BY <1>1, <2>1, <2>2, <2>3 DEF Listed, n
<1>13. QED
  BY <1>1, <1>9, <1>10, <1>11, <1>12 DEF Account
-------------------------------------------------------------------------------
\* The calls that may store a box; and a key that is present and stays so, with
\* plain values of one type: every Store and Swap finds its box.
Makers == {t \in Call : Kind(t) \in {"Store", "Swap", "LoadOrStore", "CompareAndSwap"}}
            \cup {b \in {Zero} : Kind(b) \notin {"Clear", "Delete"}}
Lasting ==
    /\ noClone /\ Zero \in Makers
    /\ \A b \in Makers : IsSimple(b)
    /\ \A b, c \in Makers : Typ(b) = Typ(c)
    /\ \A t \in Call : Kind(t) \notin Removals \cup {"Clear"}

\* A value that a cloner tracks, whose box therefore has metadata; and a value
\* of the type and the shape of a box.
Tracked(v) == ~noClone /\ Bytes[v] > 0
Alike(v, b) == TypeOf[v] = Typ(b) /\ (Tracked(v) <=> HasMeta(b))

\* The workloads on which the methods are atomic. There are no limits and no
\* nil values. A CompareAndSwap from a value without metadata keeps its type
\* and shape, or it could overwrite another value than it compared with. Swaps
\* are of a key that stays present, or of values that all have metadata, or they
\* could answer a value that was replaced or removed before.
Orderly ==
    /\ Unlimited
    /\ \A t \in Call : Kind(t) \notin Limiting
    /\ \A b \in Makers : op[b].val # Nil
    /\ \A t \in Call : Kind(t) \in {"CompareAndSwap", "CompareAndDelete"} => op[t].old # Nil
    /\ \A t \in Call : Kind(t) = "CompareAndSwap" => Tracked(op[t].old) \/ Alike(op[t].old, t)
    /\ \A t \in Call : Kind(t) = "Swap" => Lasting \/ \A b \in Makers : HasMeta(b)

\* The calls that have taken effect, and what they answer in the end.
Committed(t) == th[t].pc \in Post \/ (At(t, "unlink") /\ IsSimple(th[t].box))
Outcome(t) ==
    IF At(t, "publish") THEN Stored(t)
    ELSE IF At(t, "unlink") THEN Answer(IF Kind(t) = "Delete" THEN th[t].word ELSE Nil, TRUE)
    ELSE th[t].res
Outcomes == [t \in Call |-> Outcome(t)]
Before == [t \in Call |-> th[t].before]

\* Where in an order each stored box has its present word: the one in the slot
\* at the end, another before the call that replaced it; and what comes behind
\* a box that may still change, or that an entry outside the table points to.
Word(b) == IF data[b] = Dead THEN Nil ELSE data[b]
Live(b) == IsSimple(b) /\ data[b] # Dead
Pointed(b) == \E e \in Obj : value[e] = b
PosOK(order, h, pos) ==
    /\ DOMAIN pos \subseteq Makers
    /\ \A b \in DOMAIN pos : pos[b] \in 0..Len(order) /\ h[pos[b]] = Word(b)
    /\ \A b, c \in DOMAIN pos : pos[b] = pos[c] => b = c
    /\ \A b \in DOMAIN pos : b \in Call => Committed(b)
    /\ \A b \in Makers \ DOMAIN pos : data[b] = op[b].val
    /\ \A e \in Obj : value[e] # Nil => value[e] \in DOMAIN pos
    /\ InSlot # Nil => pos[InSlot] = Len(order)
    /\ InSlot = Nil => h[Len(order)] = Nil
    /\ \A b \in DOMAIN pos :
         b # InSlot /\ (Live(b) \/ Pointed(b)) =>
           pos[b] < Len(order) /\ Steady(op[order[pos[b] + 1]])

\* A call outside the gate that goes on with an entry outside the table finds
\* in it what was the content after the call began; so does one that goes on
\* with a box.
Seeking == {"simple", "simpleVal", "read", "fastBox", "inlineBox", "losBox", "preBox"}
Holding == {"val", "simpleVal", "swapData", "losVal", "scanVal", "matchVal", "claim", "unlink",
            "replaceData", "casBox", "replaceCAS", "preVal", "inlineCAS"}
FindsOK(order, h, pos, B, b) ==
    IF b = Nil THEN Known(order, h, B, Nil) ELSE Since(order, B, pos[b])
SeeksOK(order, h, pos, t) ==
    th[t].pc \in Seeking /\ th[t].ent # slot =>
        FindsOK(order, h, pos, th[t].before, value[th[t].ent])
BoxOK(order, pos, t) ==
    th[t].pc \in Holding /\ ~Committed(t) =>
        th[t].box \in DOMAIN pos /\ Since(order, th[t].before, pos[th[t].box])
Explained(order, h, pos) ==
    /\ Account(op, Outcomes, Before, order, h)
    /\ h[0] = First
    /\ \A t \in Call : Committed(t) <=> Listed(order, t)
    /\ PosOK(order, h, pos)
    /\ \A t \in Call : SeeksOK(order, h, pos, t) /\ BoxOK(order, pos, t)

\* What a call knows of the box it holds.
TraceOK(t) ==
    LET b == th[t].box
        k == Kind(t)
        pc == th[t].pc
        w == th[t].word IN
    /\ pc \notin {"consume", "reload", "slow", "clear", "clearCount", "end", "maybeResize"}
    /\ pc \in Holding => b \in Makers
    /\ pc = "val" => k # "Has"
    /\ pc \in {"preFind", "preBox", "preVal"} => k = "CompareAndSwap"
    /\ pc = "swapData" => k \in {"Store", "Swap"} /\ SameShape(b, t)
    /\ pc \in {"claim", "unlink"} => k \in {"Delete", "CompareAndDelete"}
    /\ pc \in {"replaceData", "casBox"} => k = "CompareAndSwap" /\ w = op[t].old
    /\ pc = "replaceData" => SameShape(b, t)
    /\ pc = "casBox" => HasMeta(b) /\ data[b] = w
    /\ pc = "claim" => IsSimple(b) /\ (k = "CompareAndDelete" => w = op[t].old)
    /\ pc = "unlink" /\ IsSimple(b) => data[b] = Dead
    /\ pc = "unlink" /\ HasMeta(b) => data[b] = w /\ (k = "CompareAndDelete" => w = op[t].old)
    /\ pc = "replaceCAS" /\ k = "LoadOrStore" => data[b] = Dead
    /\ pc = "replaceCAS" /\ k = "Swap" => HasMeta(b) /\ data[b] = w
    /\ k \in {"Store", "Clear", "CleanupNow"} => th[t].res = Answer(Nil, TRUE)
    /\ \A u \in th[t].before : u \in Call /\ u # t /\ At(u, "done")
BoxesOK ==
    /\ \A b \in Makers : /\ data[b] \in Value \cup {Dead}
                         /\ HasMeta(b) => data[b] = op[b].val
                         /\ data[b] = Dead \/ Alike(data[b], b)
    /\ \A e \in Obj : value[e] # Nil => value[e] \in Makers
    /\ \A e, f \in Obj : value[e] = value[f] /\ value[e] # Nil => e = f
StaysOK ==
    Lasting =>
        /\ slot = Zero /\ ctrl /\ value[Zero] # Nil
        /\ \A b \in Makers : data[b] # Dead
        /\ \A t \in Call : Kind(t) = "Swap" =>
             /\ th[t].pc \in {"call", "fast", "fastBox", "swapData", "done"}
             /\ th[t].pc = "fastBox" => th[t].ent = Zero
TraceInv == Orderly => BoxesOK /\ \A t \in Call : TraceOK(t)
StaysInv == Orderly => StaysOK
LinInv == Orderly /\ ~gap => \E order, h, pos : Explained(order, h, pos)

\* The state in which the steps are looked at.
Settled == Inv /\ Orderly /\ BoxesOK /\ StaysOK /\ \A t \in Call : TraceOK(t)

\* A step of t, as the others see it.
Acts(t) ==
    /\ \A u \in Call \ {t} : th'[u] = th[u]
    /\ th'[t].before = th[t].before
    /\ th[t].pc # "done"
    /\ UNCHANGED config

\* Without limits no box expires or runs out, and the values are no pointers.
LEMMA NoLimits ==
    ASSUME Settled
    PROVE  /\ \A b \in Obj : exp[b] = 0 /\ hits[b] = 0 /\ ~Expired(b) /\ ~Depleted(b)
           /\ Makers \subseteq Obj /\ Call \subseteq Obj
           /\ \A b \in Makers : op[b].val \in Value /\ op[b].val # Nil /\ op[b].val # Dead
           /\ \A b \in Makers : data[b] # Nil /\ data[b] \in Value \cup {Dead}
           /\ \A b \in Obj : IsSimple(b) <=> ~HasMeta(b)
           /\ \A b \in Makers : Alike(op[b].val, b)
<1>1. ASSUME NEW b \in Obj PROVE exp[b] = 0 /\ hits[b] = 0 /\ ~Expired(b) /\ ~Depleted(b)
  BY DEF Settled, Orderly, Unlimited, Inv, LimitsOK, Expired, Depleted
<1>2. Makers \subseteq Obj /\ Call \subseteq Obj
  BY DEF Makers, Obj
<1>3. ASSUME NEW b \in Makers PROVE op[b].val \in Value /\ op[b].val # Nil /\ op[b].val # Dead
  <2>1. op[b] \in Operations /\ op[b].val # Nil
    BY <1>2 DEF Settled, Orderly, Inv, StateTypes
  <2>2. op[b].val \in Value \cup {Nil}
    BY <2>1 DEF Operations
  <2>3. QED
    BY <2>1, <2>2, NamesAssumption
<1>4. ASSUME NEW b \in Makers PROVE data[b] # Nil /\ data[b] \in Value \cup {Dead}
  BY NamesAssumption DEF Settled, BoxesOK
<1>5. \A b \in Makers : Alike(op[b].val, b)
  BY <1>2, <1>3 DEF Settled, Orderly, Unlimited, Alike, Tracked, HasMeta, BytesOf, Typ
<1>6. QED
  BY <1>1, <1>2, <1>3, <1>4, <1>5 DEF IsSimple

\* The workload does not change.
LEMMA LastingSame == ASSUME op' = op, noClone' = noClone PROVE Lasting' <=> Lasting
<1>1. \A b : IsSimple(b)' = IsSimple(b) /\ Typ(b)' = Typ(b) /\ Kind(b)' = Kind(b)
  BY DEF BytesOf, HasMeta, IsSimple, Typ, Kind
<1>2. Makers' = Makers
  BY <1>1 DEF Makers
<1>3. QED
  BY <1>1, <1>2 DEF Lasting

\* What a step of one call leaves to the others.
LEMMA ActsKeep ==
    ASSUME NEW t \in Call, Acts(t)
    PROVE  /\ Makers' = Makers /\ First' = First
           /\ \A b : Kind(b)' = Kind(b)
           /\ \A b : IsSimple(b)' = IsSimple(b) /\ HasMeta(b)' = HasMeta(b) /\ Typ(b)' = Typ(b)
           /\ \A u \in Call \ {t} : (Committed(u)' <=> Committed(u)) /\ Outcome(u)' = Outcome(u)
           /\ Before' = Before
           /\ Orderly' <=> Orderly
<1>1. op' = op /\ noClone' = noClone
  BY DEF Acts, config
<1>2. \A b : BytesOf(b)' = BytesOf(b) /\ HasMeta(b)' = HasMeta(b) /\ IsSimple(b)' = IsSimple(b)
             /\ Kind(b)' = Kind(b) /\ Typ(b)' = Typ(b)
  BY <1>1 DEF BytesOf, HasMeta, IsSimple, Kind, Typ
<1>3. Makers' = Makers /\ First' = First
  BY <1>1, <1>2 DEF Makers, First
<1>4. ASSUME NEW u \in Call \ {t}
      PROVE  (Committed(u)' <=> Committed(u)) /\ Outcome(u)' = Outcome(u)
  <2>1. th'[u] = th[u]
    BY DEF Acts
  <2>2. Stored(u)' = Stored(u)
    BY <1>1, <1>2 DEF Stored
  <2>3. QED
    BY <1>2, <2>1, <2>2 DEF Committed, Outcome, At
<1>5. Before' = Before
  BY DEF Before, Acts
<1>6. Orderly' <=> Orderly
  BY <1>1, <1>2, <1>3, LastingSame DEF Orderly, Unlimited, Alike, Tracked
<1>7. QED
  BY <1>2, <1>3, <1>4, <1>5, <1>6

\* What a call knows it keeps through the steps of others.
LEMMA TraceStep ==
    ASSUME Settled, NEW t \in Call, Acts(t), BoxesOK', TraceOK(t)',
           \A b \in Makers : data[b] = Dead \/ HasMeta(b) => data'[b] = data[b]
    PROVE  TraceInv'
<1>1. /\ Makers' = Makers
      /\ \A b : /\ IsSimple(b)' = IsSimple(b) /\ HasMeta(b)' = HasMeta(b)
                /\ Kind(b)' = Kind(b) /\ Typ(b)' = Typ(b)
      /\ op' = op
  BY ActsKeep DEF Acts, config
<1>2. ASSUME NEW u \in Call \ {t} PROVE TraceOK(u)'
  <2>1. th'[u] = th[u] /\ TraceOK(u)
    BY DEF Acts, Settled
  <2>2. \A x \in th[u].before : x \in Call /\ x # u /\ At(x, "done")'
    <3>1. \A x \in th[u].before : x \in Call /\ x # u /\ th[x].pc = "done" /\ x # t
      BY <2>1 DEF TraceOK, Acts, At
    <3>2. QED
      BY <3>1 DEF Acts, At
  <2>3. th[u].pc \in Holding => th[u].box \in Makers
    BY <2>1 DEF TraceOK
  <2>4. QED
    BY <1>1, <2>1, <2>2, <2>3 DEF TraceOK, Holding, SameShape
<1>3. QED
  BY <1>2 DEF TraceInv

\* A call that takes effect fits into the order where it has its answer.
LEMMA FitsHere ==
    ASSUME Settled, NEW t \in Call, Acts(t), ~Committed(t),
           NEW order, NEW h, NEW pos, Explained(order, h, pos),
           NEW p \in 0..Len(order), Since(order, th[t].before, p),
           Outcome(t)' = Answers(op[t], h[p]),
           \/ p = Len(order)
           \/ After(op[t], h[p]) = h[p]
           \/ Steady(op[order[p + 1]])
    PROVE  /\ order \in Seq(Call) /\ \A u \in Call : t \notin th[u].before
           /\ \E o, g : /\ Joined(op, order, h, t, p, o, g)
                        /\ Account(op, Outcomes', Before, o, g)
                        /\ \A u \in Call : Listed(o, u) <=> u = t \/ Listed(order, u)
<1>1. order \in Seq(Call) /\ \A i \in 1..Len(order) : order[i] \in Call
  BY DEF Explained, Account
<1>2. \A u \in Call : t \notin th[u].before
  BY DEF Settled, TraceOK, Acts, At
<1>3. ~Listed(order, t)
  BY DEF Explained
<1>4. Fits(op, Outcomes, Outcomes', Before, order, h, t, p)
  <2>1. \A u \in Call : Before[u] = th[u].before
    BY DEF Before
  <2>2. \A u \in Call \ {t} : Outcomes'[u] = Outcomes[u]
    BY ActsKeep DEF Outcomes
  <2>3. Outcomes'[t] = Outcome(t)'
    BY DEF Outcomes
  <2>4. \A i \in 1..Len(order) : order[i] # t
    BY <1>3 DEF Listed
  <2>5. QED
    BY <1>1, <1>2, <1>3, <2>1, <2>2, <2>3, <2>4 DEF Fits
<1>5. PICK o, g : Joined(op, order, h, t, p, o, g)
  BY <1>1, JoinExists
<1>6. Account(op, Outcomes, Before, order, h)
  BY DEF Explained
<1>7. /\ Account(op, Outcomes', Before, o, g)
      /\ \A u \in Call : Listed(o, u) <=> u = t \/ Listed(order, u)
  BY <1>4, <1>5, <1>6, AccountInsert
<1>8. QED
  BY <1>1, <1>2, <1>5, <1>7

\* What the methods mean, one at a time.
LEMMA WritersMean ==
    ASSUME NEW o, NEW v
    PROVE  /\ o.kind = "Store" => After(o, v) = o.val /\ Answers(o, v) = Answer(Nil, TRUE)
           /\ o.kind = "Swap" => After(o, v) = o.val /\ Answers(o, v) = Answer(v, v # Nil)
           /\ o.kind = "LoadOrStore" =>
                /\ After(o, v) = IF v = Nil THEN o.val ELSE v
                /\ Answers(o, v) = Answer(IF v = Nil THEN o.val ELSE v, v # Nil)
           /\ o.kind = "CompareAndSwap" =>
                /\ After(o, v) = IF v = o.old THEN o.val ELSE v
                /\ Answers(o, v) = Answer(Nil, v = o.old)
<1>1. ASSUME o.kind = "Store"
      PROVE  After(o, v) = o.val /\ Answers(o, v) = Answer(Nil, TRUE)
  BY <1>1 DEF After, Answers, Readers
<1>2. ASSUME o.kind = "Swap"
      PROVE  After(o, v) = o.val /\ Answers(o, v) = Answer(v, v # Nil)
  BY <1>2 DEF After, Answers, Readers
<1>3. ASSUME o.kind = "LoadOrStore"
      PROVE  /\ After(o, v) = IF v = Nil THEN o.val ELSE v
             /\ Answers(o, v) = Answer(IF v = Nil THEN o.val ELSE v, v # Nil)
  BY <1>3 DEF After, Answers, Readers
<1>4. ASSUME o.kind = "CompareAndSwap"
      PROVE  /\ After(o, v) = IF v = o.old THEN o.val ELSE v
             /\ Answers(o, v) = Answer(Nil, v = o.old)
  BY <1>4 DEF After, Answers, Readers
<1>5. QED
  BY <1>1, <1>2, <1>3, <1>4

\* The same of the methods that store no value.
LEMMA OthersMean ==
    ASSUME NEW o, NEW v
    PROVE  /\ o.kind = "CompareAndDelete" =>
                /\ After(o, v) = IF v = o.old THEN Nil ELSE v
                /\ Answers(o, v) = Answer(Nil, v = o.old)
           /\ o.kind = "Delete" => After(o, v) = Nil /\ Answers(o, v) = Answer(v, v # Nil)
           /\ o.kind = "Clear" => After(o, v) = Nil /\ Answers(o, v) = Answer(Nil, TRUE)
           /\ o.kind = "CleanupNow" => After(o, v) = v /\ Answers(o, v) = Answer(Nil, TRUE)
           /\ o.kind = "Has" => After(o, v) = v /\ Answers(o, v) = Answer(Nil, v # Nil)
           /\ o.kind \in {"Load", "Peek", "Range"} =>
                After(o, v) = v /\ Answers(o, v) = Answer(v, v # Nil)
<1>1. ASSUME o.kind = "CompareAndDelete"
      PROVE  /\ After(o, v) = IF v = o.old THEN Nil ELSE v
             /\ Answers(o, v) = Answer(Nil, v = o.old)
  BY <1>1 DEF After, Answers, Readers
<1>2. ASSUME o.kind = "Delete"
      PROVE  After(o, v) = Nil /\ Answers(o, v) = Answer(v, v # Nil)
  BY <1>2 DEF After, Answers, Readers
<1>3. ASSUME o.kind = "Clear"
      PROVE  After(o, v) = Nil /\ Answers(o, v) = Answer(Nil, TRUE)
  BY <1>3 DEF After, Answers, Readers
<1>4. ASSUME o.kind = "CleanupNow"
      PROVE  After(o, v) = v /\ Answers(o, v) = Answer(Nil, TRUE)
  BY <1>4 DEF After, Answers, Readers
<1>5. ASSUME o.kind = "Has"
      PROVE  After(o, v) = v /\ Answers(o, v) = Answer(Nil, v # Nil)
  BY <1>5 DEF After, Answers, Readers
<1>6. ASSUME o.kind \in {"Load", "Peek", "Range"}
      PROVE  After(o, v) = v /\ Answers(o, v) = Answer(v, v # Nil)
  BY <1>6 DEF After, Answers, Readers
<1>7. QED
  BY <1>1, <1>2, <1>3, <1>4, <1>5, <1>6

\* What holds of the places of the boxes.
LEMMA PosFacts ==
    ASSUME Settled, NEW order, NEW h, NEW pos, Explained(order, h, pos)
    PROVE  /\ Len(order) \in Nat /\ order \in Seq(Call)
           /\ \A b \in DOMAIN pos : /\ b \in Makers /\ b \in Obj /\ b # Nil
                                    /\ pos[b] \in Nat /\ pos[b] <= Len(order)
                                    /\ h[pos[b]] = Word(b)
           /\ h[Len(order)] = IF InSlot = Nil THEN Nil ELSE Word(InSlot)
           /\ InSlot # Nil => InSlot \in DOMAIN pos
           /\ \A e \in Obj : value[e] # Nil => value[e] \in DOMAIN pos
<1>1. Len(order) \in Nat /\ order \in Seq(Call)
  BY DEF Explained, Account
<1>2. ASSUME NEW b \in DOMAIN pos
      PROVE  /\ b \in Makers /\ b \in Obj /\ b # Nil
             /\ pos[b] \in Nat /\ pos[b] <= Len(order) /\ h[pos[b]] = Word(b)
  <2>1. b \in Makers /\ pos[b] \in 0..Len(order) /\ h[pos[b]] = Word(b)
    BY DEF Explained, PosOK
  <2>2. b \in Obj
    BY <2>1, NoLimits
  <2>3. QED
    BY <1>1, <2>1, <2>2, NamesAssumption DEF Obj
<1>3. \A e \in Obj : value[e] # Nil => value[e] \in DOMAIN pos
  BY DEF Explained, PosOK
<1>4. InSlot # Nil => InSlot \in DOMAIN pos /\ pos[InSlot] = Len(order)
  BY <1>3 DEF InSlot, Settled, Inv, StateTypes, TypeOK, Explained, PosOK
<1>5. InSlot = Nil => h[Len(order)] = Nil
  BY DEF Explained, PosOK
<1>6. QED
  BY <1>1, <1>2, <1>3, <1>4, <1>5

\* A call that takes effect behind the first p calls, in no entry: it answers
\* from the content that was there, or changes the word of the box at p.
LEMMA JoinKeeps ==
    ASSUME Settled, NEW t \in Call, Acts(t), ~Committed(t), Committed(t)',
           UNCHANGED <<slot, value>>,
           NEW order, NEW h, NEW pos, Explained(order, h, pos),
           NEW p \in 0..Len(order), Since(order, th[t].before, p),
           Outcome(t)' = Answers(op[t], h[p]),
           \/ data' = data /\ After(op[t], h[p]) = h[p]
           \/ \E b \in DOMAIN pos :
                /\ pos[b] = p /\ Live(b)
                /\ \A c \in Obj \ {b} : data'[c] = data[c]
                /\ After(op[t], h[p]) = Word(b)'
    PROVE  \E o, g, ps : Explained(o, g, ps)'
<1> DEFINE n == Len(order)
           Up(x) == IF x >= p THEN x + 1 ELSE x
           ps == [c \in DOMAIN pos |-> Up(pos[c])]
<1>1. n \in Nat /\ p \in Nat /\ p <= n /\ order \in Seq(Call)
  BY PosFacts
<1>2. \A b \in DOMAIN pos : /\ b \in Makers /\ b \in Obj /\ b # Nil /\ pos[b] \in Nat
                            /\ pos[b] <= n /\ h[pos[b]] = Word(b)
  BY PosFacts
<1>3. InSlot' = InSlot /\ \A b : Pointed(b)' <=> Pointed(b)
  BY DEF InSlot, Pointed
<1>4. /\ \A b, c \in DOMAIN pos : pos[b] = pos[c] => b = c
      /\ \A b \in DOMAIN pos : b # InSlot /\ (Live(b) \/ Pointed(b)) =>
           pos[b] < n /\ Steady(op[order[pos[b] + 1]])
  BY DEF Explained, PosOK, n
<1>5. InSlot # Nil => InSlot \in DOMAIN pos /\ pos[InSlot] = n
  BY PosFacts DEF Explained, PosOK, n
<1>6. InSlot = Nil => h[n] = Nil
  BY DEF Explained, PosOK, n
<1>7. \/ p = n
      \/ After(op[t], h[p]) = h[p]
      \/ Steady(op[order[p + 1]])
  <2>1. CASE \E b \in DOMAIN pos : pos[b] = p /\ Live(b)
    <3>1. PICK b \in DOMAIN pos : pos[b] = p /\ Live(b)
      BY <2>1
    <3>2. b = InSlot => p = n
      BY <1>2, <1>5, <3>1
    <3>3. QED
      BY <1>4, <3>1, <3>2
  <2>2. CASE After(op[t], h[p]) = h[p]
    BY <2>2
  <2>3. QED
    BY <2>1, <2>2
<1>8. PICK o, g : /\ Joined(op, order, h, t, p, o, g)
                  /\ Account(op, Outcomes', Before, o, g)
                  /\ \A u \in Call : Listed(o, u) <=> u = t \/ Listed(order, u)
  BY <1>7, FitsHere
<1>9. \A u \in Call : t \notin th[u].before
  BY <1>7, FitsHere
<1>10. /\ Len(o) = n + 1
       /\ \A i \in 1..p : o[i] = order[i]
       /\ \A i \in (p + 1)..n : o[i + 1] = order[i]
       /\ \A i \in 0..p : g[i] = h[i]
       /\ g[p + 1] = After(op[t], h[p])
       /\ \A i \in (p + 1)..n : g[i + 1] = h[i]
  BY <1>8 DEF Joined
<1>11. /\ Makers' = Makers /\ First' = First /\ Before' = Before /\ op' = op
       /\ \A b : IsSimple(b)' = IsSimple(b)
       /\ \A u \in Call \ {t} : Committed(u)' <=> Committed(u)
  BY ActsKeep DEF Acts, config
<1>12. Account(op, Outcomes, Before, o, g)' /\ g[0] = First'
  BY <1>1, <1>8, <1>10, <1>11 DEF Explained
<1>13. \A u \in Call : Committed(u)' <=> Listed(o, u)
  BY <1>8, <1>11 DEF Explained
<1> HIDE DEF n
<1>14. /\ DOMAIN ps = DOMAIN pos
       /\ \A c \in DOMAIN pos : ps[c] = Up(pos[c])
       /\ \A x, y \in Nat : Up(x) = Up(y) => x = y
  BY <1>1
<1>15. ASSUME NEW x \in Nat, x <= n
       PROVE  /\ Up(x) \in 0..(n + 1)
              /\ x < p => g[Up(x)] = h[x] /\ x + 1 <= n /\ o[Up(x) + 1] = order[x + 1]
              /\ x = p => g[Up(x)] = After(op[t], h[p])
              /\ x > p => g[Up(x)] = h[x]
              /\ x >= p /\ x < n => Up(x) < n + 1 /\ o[Up(x) + 1] = order[x + 1]
  <2>1. Up(x) \in 0..(n + 1)
    BY <1>1, <1>15
  <2>2. x < p => /\ Up(x) = x /\ x \in 0..p /\ x + 1 <= n /\ x + 1 \in 1..p
    BY <1>1, <1>15
  <2>3. x >= p => Up(x) = x + 1
    OBVIOUS
  <2>4. x > p => x \in (p + 1)..n
    BY <1>1, <1>15
  <2>5. x >= p /\ x < n => x + 1 \in (p + 1)..n
    BY <1>1, <1>15
  <2> HIDE DEF Up
  <2>6. QED
    BY <1>1, <1>10, <1>15, <2>1, <2>2, <2>3, <2>4, <2>5
<1>16. \A c \in DOMAIN pos : pos[c] # p => Word(c)' = Word(c) /\ (Live(c)' <=> Live(c))
  BY <1>2, <1>11 DEF Word, Live
<1>17. ASSUME NEW c \in DOMAIN pos, pos[c] = p PROVE After(op[t], h[p]) = Word(c)'
  <2>1. CASE data' = data /\ After(op[t], h[p]) = h[p]
    BY <1>2, <1>17, <2>1 DEF Word
  <2>2. CASE \E b \in DOMAIN pos : pos[b] = p /\ After(op[t], h[p]) = Word(b)'
    <3>1. PICK b \in DOMAIN pos : pos[b] = p /\ After(op[t], h[p]) = Word(b)'
      BY <2>2
    <3>2. b = c
      BY <1>4, <1>17, <3>1
    <3>3. QED
      BY <3>1, <3>2
  <2>3. QED
    BY <2>1, <2>2
<1>18. ASSUME NEW c \in DOMAIN pos, pos[c] = p, Live(c)' PROVE Live(c)
  BY <1>2, <1>4, <1>11, <1>18 DEF Live
<1> HIDE DEF Up, ps
<1>19. PosOK(o, g, ps)'
  <2>1. ASSUME NEW b \in DOMAIN ps PROVE ps[b] \in 0..(n + 1) /\ g[ps[b]] = Word(b)'
    <3>1. /\ b \in DOMAIN pos /\ pos[b] \in Nat /\ pos[b] <= n /\ h[pos[b]] = Word(b)
          /\ ps[b] = Up(pos[b])
      BY <1>2, <1>14
    <3>2. CASE pos[b] = p
      BY <1>15, <1>17, <3>1, <3>2
    <3>3. CASE pos[b] # p
      BY <1>1, <1>15, <1>16, <3>1, <3>3
    <3>4. QED
      BY <3>2, <3>3
  <2>2. \A b, c \in DOMAIN ps : ps[b] = ps[c] => b = c
    BY <1>2, <1>4, <1>14
  <2>3. DOMAIN ps \subseteq Makers'
    BY <1>2, <1>11, <1>14
  <2>4. \A b \in DOMAIN ps : b \in Call => Committed(b)'
    BY <1>11, <1>14 DEF Explained, PosOK
  <2>5. \A e \in Obj : value'[e] # Nil => value'[e] \in DOMAIN ps
    BY <1>14 DEF Explained, PosOK
  <2>6. InSlot' # Nil => ps[InSlot'] = n + 1
    BY <1>1, <1>3, <1>5, <1>14 DEF Up
  <2>7. InSlot' = Nil => g[n + 1] = Nil
    <3>1. CASE p < n
      BY <1>1, <1>3, <1>6, <1>10, <3>1
    <3>2. CASE p = n /\ After(op[t], h[p]) = h[p]
      BY <1>3, <1>6, <1>10, <3>2
    <3>3. CASE p = n /\ \E b \in DOMAIN pos : pos[b] = p /\ Live(b)
      BY <1>1, <1>2, <1>3, <1>4, <3>3
    <3>4. QED
      BY <1>1, <3>1, <3>2, <3>3
  <2>8. ASSUME NEW b \in DOMAIN ps, b # InSlot', Live(b)' \/ Pointed(b)'
        PROVE  ps[b] < n + 1 /\ Steady(op'[o[ps[b] + 1]])
    <3>1. b \in DOMAIN pos /\ ps[b] = Up(pos[b]) /\ b # InSlot /\ (Live(b) \/ Pointed(b))
      BY <1>3, <1>14, <1>16, <1>18, <2>8
    <3>2. pos[b] < n /\ Steady(op[order[pos[b] + 1]])
      BY <1>4, <3>1
    <3>3. o[Up(pos[b]) + 1] = order[pos[b] + 1] /\ Up(pos[b]) < n + 1
      BY <1>1, <1>2, <1>15, <3>1, <3>2 DEF Up
    <3>4. QED
      BY <1>11, <3>1, <3>2, <3>3
  <2>9. \A b \in Makers' \ DOMAIN ps : data'[b] = op'[b].val
    <3>1. \A b \in Makers \ DOMAIN pos : data[b] = op[b].val
      BY DEF Explained, PosOK
    <3>2. \A b \in Makers \ DOMAIN pos : data'[b] = data[b]
      BY NoLimits
    <3>3. QED
      BY <1>11, <1>14, <3>1, <3>2
  <2>10. QED
    BY <1>10, <2>1, <2>2, <2>3, <2>4, <2>5, <2>6, <2>7, <2>8, <2>9 DEF PosOK
<1>20. ASSUME NEW u \in Call PROVE SeeksOK(o, g, ps, u)' /\ BoxOK(o, ps, u)'
  <2>1. CASE u = t
    <3>1. th'[t].pc \notin Seeking
      BY DEF Committed, Post, Seeking, At
    <3>2. QED
      BY <2>1, <3>1 DEF SeeksOK, BoxOK
  <2>2. CASE u # t
    <3>1. th'[u] = th[u] /\ (Committed(u)' <=> Committed(u))
      BY <1>11, <2>2 DEF Acts
    <3> DEFINE B == th[u].before
    <3>2. t \notin B
      BY <1>9
    <3> HIDE DEF B
    <3>3. /\ \A x \in 0..Len(order) : Since(order, B, x) =>
                /\ x <= p => Since(o, B, x)
                /\ x >= p => Since(o, B, x + 1)
          /\ Known(order, h, B, Nil) => Known(o, g, B, Nil)
      BY <1>1, <1>8, <3>2, JoinedSince
    <3>4. ASSUME NEW c \in DOMAIN pos, Since(order, B, pos[c]) PROVE Since(o, B, ps[c])
      <4>1. pos[c] \in 0..Len(order) /\ pos[c] \in Nat
        BY <1>2 DEF n
      <4>2. QED
        BY <1>1, <1>14, <3>3, <3>4, <4>1 DEF Up
    <3>5. SeeksOK(o, g, ps, u)'
      <4> SUFFICES ASSUME th[u].pc \in Seeking, th[u].ent # slot
                   PROVE  FindsOK(o, g, ps, B, value[th[u].ent])
        BY <3>1 DEF SeeksOK, FindsOK, B
      <4>1. th[u].ent \in Obj
        BY DEF Settled, Inv, CallOK, HoldsOK, Seeking
      <4>2. FindsOK(order, h, pos, B, value[th[u].ent])
        BY DEF Explained, SeeksOK, B
      <4>3. value[th[u].ent] # Nil => value[th[u].ent] \in DOMAIN pos
        BY <4>1, PosFacts
      <4>4. QED
        BY <3>3, <3>4, <4>2, <4>3 DEF FindsOK
    <3>6. BoxOK(o, ps, u)'
      <4> SUFFICES ASSUME th[u].pc \in Holding, ~Committed(u)
                   PROVE  th[u].box \in DOMAIN ps /\ Since(o, B, ps[th[u].box])
        BY <3>1 DEF BoxOK, B
      <4>1. th[u].box \in DOMAIN pos /\ Since(order, B, pos[th[u].box])
        BY DEF Explained, BoxOK, B
      <4>2. QED
        BY <1>14, <3>4, <4>1
    <3>7. QED
      BY <3>5, <3>6
  <2>3. QED
    BY <2>1, <2>2
<1>21. Explained(o, g, ps)'
  BY <1>12, <1>13, <1>19, <1>20 DEF Explained
<1>22. QED
  BY <1>21

\* A call that takes effect on the table: behind all others, it stores its box
\* in the slot, or leaves no box there.
LEMMA LastKeeps ==
    ASSUME Settled, NEW t \in Call, Acts(t), ~Committed(t), Committed(t)', UNCHANGED data,
           slot' \in Obj \cup {Nil},
           \A e \in Obj : e # slot' => value'[e] = value[e],
           NEW order, NEW h, NEW pos, Explained(order, h, pos),
           Outcome(t)' = Answers(op[t], h[Len(order)]),
           \/ InSlot' = Nil /\ After(op[t], h[Len(order)]) = Nil
           \/ InSlot' = t /\ t \in Makers /\ After(op[t], h[Len(order)]) = op[t].val,
           InSlot # Nil => Steady(op[t]) \/ (slot' = slot /\ ~Live(InSlot))
    PROVE  \E o, g, ps : Explained(o, g, ps)'
<1>0. PICK S : S = IF InSlot' = t THEN {t} ELSE {}
  OBVIOUS
<1> DEFINE n == Len(order)
           ps == [c \in DOMAIN pos \cup S |-> IF c = t THEN n + 1 ELSE pos[c]]
<1>1. n \in Nat /\ n \in 0..n /\ order \in Seq(Call)
  BY PosFacts
<1>2. \A b \in DOMAIN pos : /\ b \in Makers /\ b \in Obj /\ b # Nil /\ pos[b] \in Nat
                            /\ pos[b] <= n /\ h[pos[b]] = Word(b)
  BY PosFacts
<1>3. t # Nil /\ t \in Obj /\ t \notin DOMAIN pos
  BY NamesAssumption DEF Obj, Explained, PosOK
<1>4. /\ \A b, c \in DOMAIN pos : pos[b] = pos[c] => b = c
      /\ \A b \in DOMAIN pos : b # InSlot /\ (Live(b) \/ Pointed(b)) =>
           pos[b] < n /\ Steady(op[order[pos[b] + 1]])
      /\ \A e \in Obj : value[e] # Nil => value[e] \in DOMAIN pos
      /\ \A b \in Makers \ DOMAIN pos : data[b] = op[b].val
  BY DEF Explained, PosOK, n
<1>5. InSlot # Nil => InSlot \in DOMAIN pos /\ pos[InSlot] = n
  BY PosFacts DEF Explained, PosOK, n
<1>6. InSlot = Nil => h[n] = Nil
  BY DEF Explained, PosOK, n
<1>7. Since(order, th[t].before, n)
  BY <1>1 DEF Since
<1>8. PICK o, g : /\ Joined(op, order, h, t, n, o, g)
                  /\ Account(op, Outcomes', Before, o, g)
                  /\ \A u \in Call : Listed(o, u) <=> u = t \/ Listed(order, u)
  BY <1>1, <1>7, FitsHere
<1>9. \A u \in Call : t \notin th[u].before
  BY <1>1, <1>7, FitsHere
<1>10. /\ Len(o) = n + 1
       /\ \A i \in 1..n : o[i] = order[i]
       /\ o[n + 1] = t
       /\ \A i \in 0..n : g[i] = h[i]
       /\ g[n + 1] = After(op[t], h[n])
  BY <1>8 DEF Joined
<1>11. /\ Makers' = Makers /\ First' = First /\ Before' = Before /\ op' = op
       /\ \A b : IsSimple(b)' = IsSimple(b)
       /\ \A u \in Call \ {t} : Committed(u)' <=> Committed(u)
  BY ActsKeep DEF Acts, config
<1>12. Account(op, Outcomes, Before, o, g)' /\ g[0] = First'
  BY <1>1, <1>8, <1>10, <1>11 DEF Explained
<1>13. \A u \in Call : Committed(u)' <=> Listed(o, u)
  BY <1>8, <1>11 DEF Explained
<1>14. \A b : Word(b)' = Word(b) /\ (Live(b)' <=> Live(b))
  BY <1>11 DEF Word, Live
<1>15. slot' # Nil => InSlot' = value'[slot']
  BY DEF InSlot
<1>16. slot # Nil => InSlot = value[slot] /\ slot \in Obj
  BY DEF InSlot, Settled, Inv, StateTypes, TypeOK
<1> HIDE DEF n
<1>17. /\ DOMAIN ps = DOMAIN pos \cup S
       /\ \A c \in DOMAIN pos : ps[c] = pos[c]
       /\ InSlot' = t => t \in DOMAIN ps /\ ps[t] = n + 1
       /\ \A c \in DOMAIN ps : c \in DOMAIN pos \/ (c = t /\ InSlot' = t)
  BY <1>0, <1>3
<1> HIDE DEF ps
<1>18. \A c \in DOMAIN ps : c \in Makers
  BY <1>2, <1>3, <1>17
<1>19. InSlot' = t => Word(t) = op[t].val
  BY <1>3, <1>4, NoLimits DEF Word
<1>20. PosOK(o, g, ps)'
  <2>1. \A b \in DOMAIN ps : ps[b] \in 0..Len(o) /\ g[ps[b]] = Word(b)'
    <3>1. \A b \in DOMAIN pos : ps[b] \in 0..n /\ g[ps[b]] = Word(b)'
      BY <1>1, <1>2, <1>10, <1>14, <1>17
    <3>2. InSlot' = t => g[n + 1] = Word(t)'
      BY <1>3, <1>10, <1>14, <1>19 DEF n
    <3>3. QED
      BY <1>1, <1>10, <1>17, <3>1, <3>2
  <2>2. \A b, c \in DOMAIN ps : ps[b] = ps[c] => b = c
    BY <1>1, <1>2, <1>4, <1>17
  <2>3. DOMAIN ps \subseteq Makers'
    BY <1>11, <1>18
  <2>4. \A b \in DOMAIN ps : b \in Call => Committed(b)'
    BY <1>11, <1>17 DEF Explained, PosOK
  <2>5. ASSUME NEW e \in Obj, value'[e] # Nil PROVE value'[e] \in DOMAIN ps
    <3>1. CASE e = slot'
      BY <1>15, <1>17, <2>5, <3>1, NamesAssumption DEF Obj
    <3>2. CASE e # slot'
      BY <1>4, <1>17, <2>5, <3>2
    <3>3. QED
      BY <3>1, <3>2
  <2>6. InSlot' # Nil => ps[InSlot'] = Len(o)
    BY <1>10, <1>17
  <2>7. InSlot' = Nil => g[Len(o)] = Nil
    BY <1>3, <1>10 DEF n
  <2>8. ASSUME NEW b \in DOMAIN ps, b # InSlot', Live(b)' \/ Pointed(b)'
        PROVE  ps[b] < Len(o) /\ Steady(op'[o[ps[b] + 1]])
    <3>1. b \in DOMAIN pos /\ ps[b] = pos[b] /\ pos[b] \in Nat /\ pos[b] <= n /\ b # Nil
      BY <1>2, <1>17, <2>8
    <3>2. Pointed(b)' => \E e \in Obj : value[e] = b /\ e # slot'
      <4> SUFFICES ASSUME NEW e \in Obj, value'[e] = b PROVE value[e] = b /\ e # slot'
        BY DEF Pointed
      <4>1. e # slot'
        BY <1>15, <2>8, NamesAssumption DEF Obj
      <4>2. QED
        BY <4>1
    <3>3. CASE b # InSlot
      <4>1. pos[b] < n /\ Steady(op[order[pos[b] + 1]])
        BY <1>4, <1>14, <2>8, <3>1, <3>2, <3>3 DEF Pointed
      <4>2. o[pos[b] + 1] = order[pos[b] + 1]
        BY <1>1, <1>10, <3>1, <4>1
      <4>3. QED
        BY <1>1, <1>10, <1>11, <3>1, <4>1, <4>2
    <3>4. CASE b = InSlot
      <4>1. pos[b] = n /\ o[n + 1] = t
        BY <1>5, <1>10, <3>1, <3>4
      <4>2. Steady(op[t])
        <5> SUFFICES ASSUME slot' = slot, ~Live(b) PROVE FALSE
          BY <3>1, <3>4
        <5>1. slot # Nil /\ slot \in Obj /\ value[slot] = b
          BY <1>16, <3>1, <3>4 DEF InSlot
        <5>2. PICK e \in Obj : value[e] = b /\ e # slot
          BY <1>14, <2>8, <3>2
        <5>3. QED
          BY <3>1, <5>1, <5>2 DEF Settled, BoxesOK
      <4>3. QED
        BY <1>1, <1>10, <1>11, <3>1, <4>1, <4>2
    <3>5. QED
      BY <3>3, <3>4
  <2>9. \A b \in Makers' \ DOMAIN ps : data'[b] = op'[b].val
    BY <1>4, <1>11, <1>17
  <2>10. QED
    BY <2>1, <2>2, <2>3, <2>4, <2>5, <2>6, <2>7, <2>8, <2>9 DEF PosOK
<1>21. ASSUME NEW u \in Call PROVE SeeksOK(o, g, ps, u)' /\ BoxOK(o, ps, u)'
  <2>1. CASE u = t
    <3>1. th'[t].pc \notin Seeking
      BY DEF Committed, Post, Seeking, At
    <3>2. QED
      BY <2>1, <3>1 DEF SeeksOK, BoxOK
  <2>2. CASE u # t
    <3>1. th'[u] = th[u] /\ (Committed(u)' <=> Committed(u))
      BY <1>11, <2>2 DEF Acts
    <3> DEFINE B == th[u].before
    <3>2. t \notin B
      BY <1>9
    <3> HIDE DEF B
    <3>3. /\ \A x \in 0..n : Since(order, B, x) => Since(o, B, x)
          /\ Known(order, h, B, Nil) => Known(o, g, B, Nil)
      <4>1. /\ \A x \in 0..Len(order) : Since(order, B, x) =>
                 /\ x <= n => Since(o, B, x)
                 /\ x >= n => Since(o, B, x + 1)
            /\ Known(order, h, B, Nil) => Known(o, g, B, Nil)
        BY <1>1, <1>8, <3>2, JoinedSince DEF n
      <4>2. QED
        BY <1>1, <4>1 DEF n
    <3>4. ASSUME NEW c \in DOMAIN pos, Since(order, B, pos[c]) PROVE Since(o, B, ps[c])
      <4>1. pos[c] \in 0..n
        BY <1>1, <1>2
      <4>2. QED
        BY <1>17, <3>3, <3>4, <4>1
    <3> DEFINE e == th[u].ent
    <3>5. ASSUME th[u].pc \in Seeking, e # slot' PROVE FindsOK(o, g, ps, B, value'[e])
      <4>1. e \in Obj /\ value'[e] = value[e]
        BY <3>5 DEF Settled, Inv, CallOK, HoldsOK, Seeking
      <4>2. FindsOK(order, h, pos, B, value[e])
        <5>1. CASE e # slot
          BY <3>5, <5>1 DEF Explained, SeeksOK, B
        <5>2. CASE e = slot
          <6>1. value[e] = InSlot
            BY <1>16, <4>1, <5>2, NamesAssumption DEF Obj
          <6>2. Since(order, B, n)
            BY <1>1 DEF Since, n
          <6>3. CASE InSlot = Nil
            BY <1>1, <1>6, <6>1, <6>2, <6>3 DEF FindsOK, Known, n
          <6>4. CASE InSlot # Nil
            BY <1>5, <6>1, <6>2, <6>4 DEF FindsOK
          <6>5. QED
            BY <6>3, <6>4
        <5>3. QED
          BY <5>1, <5>2
      <4>3. value[e] # Nil => value[e] \in DOMAIN pos
        BY <1>4, <4>1
      <4>4. QED
        BY <3>3, <3>4, <4>1, <4>2, <4>3 DEF FindsOK
    <3>6. ASSUME th[u].pc \in Holding, ~Committed(u)
          PROVE  th[u].box \in DOMAIN ps /\ Since(o, B, ps[th[u].box])
      <4>1. th[u].box \in DOMAIN pos /\ Since(order, B, pos[th[u].box])
        BY <3>6 DEF Explained, BoxOK, B
      <4>2. QED
        BY <1>17, <3>4, <4>1
    <3>7. QED
      BY <3>1, <3>5, <3>6 DEF SeeksOK, BoxOK, FindsOK, B
  <2>3. QED
    BY <2>1, <2>2
<1>22. Explained(o, g, ps)'
  BY <1>12, <1>13, <1>20, <1>21 DEF Explained
<1>23. QED
  BY <1>22

\* A Store that replaces the box of an entry outside the table: it stands right
\* behind the calls on that box, before the Clear that took the entry away.
LEMMA AsideKeeps ==
    ASSUME Settled, NEW t \in Call, Acts(t), ~Committed(t), Committed(t)',
           UNCHANGED <<slot, data>>, Kind(t) = "Store",
           NEW e \in Obj, e # slot, value[e] # Nil, value'[e] = t,
           \A f \in Obj \ {e} : value'[f] = value[f],
           NEW order, NEW h, NEW pos, Explained(order, h, pos),
           Since(order, th[t].before, pos[value[e]]),
           Outcome(t)' = Answer(Nil, TRUE)
    PROVE  \E o, g, ps : Explained(o, g, ps)'
<1>0. PICK b \in DOMAIN pos : b = value[e]
  BY PosFacts
<1> DEFINE n == Len(order)
           p == pos[b]
           ps == [c \in DOMAIN pos \cup {t} |->
                     IF c = t THEN p + 1 ELSE IF pos[c] > p THEN pos[c] + 1 ELSE pos[c]]
<1>1. n \in Nat /\ p \in Nat /\ p \in 0..n /\ order \in Seq(Call)
  BY PosFacts
<1>2. \A c \in DOMAIN pos : /\ c \in Makers /\ c \in Obj /\ c # Nil /\ pos[c] \in Nat
                            /\ pos[c] <= n /\ h[pos[c]] = Word(c)
  BY PosFacts
<1>3. t # Nil /\ t \in Obj /\ t \notin DOMAIN pos /\ t \in Makers
  BY NamesAssumption DEF Obj, Explained, PosOK, Makers
<1>4. /\ \A c, d \in DOMAIN pos : pos[c] = pos[d] => c = d
      /\ \A c \in DOMAIN pos : c # InSlot /\ (Live(c) \/ Pointed(c)) =>
           pos[c] < n /\ Steady(op[order[pos[c] + 1]])
      /\ \A f \in Obj : value[f] # Nil => value[f] \in DOMAIN pos
      /\ \A c \in Makers \ DOMAIN pos : data[c] = op[c].val
  BY DEF Explained, PosOK, n
<1>5. InSlot # Nil => InSlot \in DOMAIN pos /\ pos[InSlot] = n
  BY PosFacts DEF Explained, PosOK, n
<1>6. InSlot = Nil => h[n] = Nil
  BY DEF Explained, PosOK, n
<1>7. slot \in Obj \cup {Nil} /\ (slot # Nil => InSlot = value[slot]) /\ Nil \notin Obj
  BY NamesAssumption DEF InSlot, Settled, Inv, StateTypes, TypeOK, Obj
<1>8. b # InSlot /\ \A f \in Obj : value[f] = b => f = e
  <2>1. \A f \in Obj : value[f] = b => f = e
    BY <1>0, <1>2 DEF Settled, BoxesOK
  <2>2. QED
    BY <1>0, <1>2, <1>7, <2>1 DEF InSlot
<1>9. p < n /\ Steady(op[order[p + 1]])
  BY <1>0, <1>4, <1>8 DEF Pointed
<1>10. /\ After(op[t], h[p]) = op[t].val /\ Outcome(t)' = Answers(op[t], h[p]) /\ Steady(op[t])
  BY WritersMean DEF Steady, Kind
<1>11. Since(order, th[t].before, p)
  BY <1>0
<1>12. PICK o, g : /\ Joined(op, order, h, t, p, o, g)
                   /\ Account(op, Outcomes', Before, o, g)
                   /\ \A u \in Call : Listed(o, u) <=> u = t \/ Listed(order, u)
  BY <1>1, <1>9, <1>10, <1>11, FitsHere
<1>13. \A u \in Call : t \notin th[u].before
  BY <1>1, <1>9, <1>10, <1>11, FitsHere
<1>14. /\ Len(o) = n + 1
       /\ \A i \in 1..p : o[i] = order[i]
       /\ o[p + 1] = t
       /\ \A i \in (p + 1)..n : o[i + 1] = order[i]
       /\ \A i \in 0..p : g[i] = h[i]
       /\ g[p + 1] = op[t].val
       /\ \A i \in (p + 1)..n : g[i + 1] = h[i]
  BY <1>10, <1>12 DEF Joined
<1>15. /\ Makers' = Makers /\ First' = First /\ Before' = Before /\ op' = op
       /\ \A c : IsSimple(c)' = IsSimple(c)
       /\ \A u \in Call \ {t} : Committed(u)' <=> Committed(u)
  BY ActsKeep DEF Acts, config
<1>16. Account(op, Outcomes, Before, o, g)' /\ g[0] = First'
  BY <1>1, <1>12, <1>14, <1>15 DEF Explained
<1>17. \A u \in Call : Committed(u)' <=> Listed(o, u)
  BY <1>12, <1>15 DEF Explained
<1>18. \A c : Word(c)' = Word(c) /\ (Live(c)' <=> Live(c))
  BY <1>15 DEF Word, Live
<1>19. InSlot' = InSlot
  BY <1>7 DEF InSlot
<1> HIDE DEF n, p
<1>20. /\ DOMAIN ps = DOMAIN pos \cup {t} /\ ps[t] = p + 1
       /\ \A c \in DOMAIN pos : ps[c] = IF pos[c] > p THEN pos[c] + 1 ELSE pos[c]
  BY <1>3
<1> HIDE DEF ps
<1>21. ASSUME NEW c \in DOMAIN pos
       PROVE  /\ ps[c] \in 0..(n + 1) /\ g[ps[c]] = Word(c)
              /\ c # b /\ pos[c] < n => ps[c] < n + 1 /\ o[ps[c] + 1] = order[pos[c] + 1]
              /\ c = b => ps[c] = p
  <2>1. pos[c] \in Nat /\ pos[c] <= n /\ h[pos[c]] = Word(c)
    BY <1>2
  <2>2. CASE pos[c] > p
    <3>1. pos[c] \in (p + 1)..n /\ ps[c] = pos[c] + 1
      BY <1>1, <1>20, <2>1, <2>2
    <3>2. pos[c] < n => pos[c] + 1 \in (p + 1)..n
      BY <1>1, <2>1, <2>2
    <3>3. c # b
      BY <1>1, <2>2 DEF p
    <3>4. QED
      BY <1>1, <1>14, <2>1, <3>1, <3>2, <3>3
  <2>3. CASE pos[c] <= p
    <3>1. ps[c] = pos[c] /\ pos[c] \in 0..p
      BY <1>1, <1>20, <2>1, <2>3
    <3>2. c # b => pos[c] # p
      BY <1>0, <1>4 DEF p
    <3>3. c # b => pos[c] + 1 \in 1..p
      BY <1>1, <2>1, <2>3, <3>2
    <3>4. c = b => ps[c] = p
      BY <3>1 DEF p
    <3>5. QED
      BY <1>1, <1>14, <2>1, <3>1, <3>3, <3>4
  <2>4. QED
    BY <1>1, <2>1, <2>2, <2>3
<1>22. PosOK(o, g, ps)'
  <2>1. \A c \in DOMAIN ps : ps[c] \in 0..Len(o) /\ g[ps[c]] = Word(c)'
    <3>1. Word(t) = op[t].val
      BY <1>3, <1>4, NoLimits DEF Word
    <3>2. QED
      BY <1>1, <1>9, <1>14, <1>18, <1>20, <1>21, <3>1
  <2>2. \A c, d \in DOMAIN ps : ps[c] = ps[d] => c = d
    <3>1. \A c \in DOMAIN pos : ps[c] # p + 1
      BY <1>1, <1>2, <1>20
    <3>2. \A c, d \in DOMAIN pos : ps[c] = ps[d] => pos[c] = pos[d]
      BY <1>1, <1>2, <1>20
    <3>3. QED
      BY <1>4, <1>20, <3>1, <3>2
  <2>3. DOMAIN ps \subseteq Makers'
    BY <1>2, <1>3, <1>15, <1>20
  <2>4. \A c \in DOMAIN ps : c \in Call => Committed(c)'
    BY <1>15, <1>20 DEF Explained, PosOK
  <2>5. \A f \in Obj : value'[f] # Nil => value'[f] \in DOMAIN ps
    BY <1>4, <1>20
  <2>6. InSlot' # Nil => ps[InSlot'] = Len(o)
    BY <1>1, <1>5, <1>9, <1>14, <1>19, <1>20
  <2>7. InSlot' = Nil => g[Len(o)] = Nil
    BY <1>1, <1>6, <1>9, <1>14, <1>19
  <2>8. ASSUME NEW c \in DOMAIN ps, c # InSlot', Live(c)' \/ Pointed(c)'
        PROVE  ps[c] < Len(o) /\ Steady(op'[o[ps[c] + 1]])
    <3>1. CASE c = t
      <4>1. p + 1 \in (p + 1)..n
        BY <1>1, <1>9
      <4>2. o[ps[c] + 1] = order[p + 1] /\ ps[c] < n + 1
        BY <1>1, <1>9, <1>14, <1>20, <3>1, <4>1
      <4>3. QED
        BY <1>9, <1>14, <1>15, <4>2
    <3>2. CASE c = b
      <4>1. ps[c] = p
        BY <1>21, <3>2
      <4>2. o[ps[c] + 1] = t /\ ps[c] < n + 1
        BY <1>1, <1>14, <4>1
      <4>3. QED
        BY <1>10, <1>14, <1>15, <4>2
    <3>3. CASE c # t /\ c # b
      <4>1. c \in DOMAIN pos
        BY <1>20, <3>3
      <4>2. Pointed(c)' => Pointed(c)
        BY <3>3 DEF Pointed
      <4>3. pos[c] < n /\ Steady(op[order[pos[c] + 1]])
        BY <1>4, <1>18, <1>19, <2>8, <4>1, <4>2
      <4>4. QED
        BY <1>14, <1>15, <1>21, <3>3, <4>1, <4>3
    <3>4. QED
      BY <3>1, <3>2, <3>3
  <2>9. \A c \in Makers' \ DOMAIN ps : data'[c] = op'[c].val
    BY <1>4, <1>15, <1>20
  <2>10. QED
    BY <2>1, <2>2, <2>3, <2>4, <2>5, <2>6, <2>7, <2>8, <2>9 DEF PosOK
<1>23. ASSUME NEW u \in Call PROVE SeeksOK(o, g, ps, u)' /\ BoxOK(o, ps, u)'
  <2>1. CASE u = t
    <3>1. th'[t].pc \notin Seeking
      BY DEF Committed, Post, Seeking, At
    <3>2. QED
      BY <2>1, <3>1 DEF SeeksOK, BoxOK
  <2>2. CASE u # t
    <3>1. th'[u] = th[u] /\ (Committed(u)' <=> Committed(u))
      BY <1>15, <2>2 DEF Acts
    <3> DEFINE B == th[u].before
    <3>2. t \notin B
      BY <1>13
    <3> HIDE DEF B
    <3>3. /\ \A x \in 0..Len(order) : Since(order, B, x) =>
                /\ x <= p => Since(o, B, x)
                /\ x >= p => Since(o, B, x + 1)
          /\ Known(order, h, B, Nil) => Known(o, g, B, Nil)
      BY <1>1, <1>12, <3>2, JoinedSince DEF n
    <3>4. ASSUME NEW c \in DOMAIN pos, Since(order, B, pos[c]) PROVE Since(o, B, ps[c])
      <4>1. pos[c] \in 0..Len(order) /\ pos[c] \in Nat
        BY <1>2 DEF n
      <4>2. QED
        BY <1>1, <1>20, <3>3, <3>4, <4>1
    <3>5. SeeksOK(o, g, ps, u)'
      <4> DEFINE f == th[u].ent
      <4> SUFFICES ASSUME th[u].pc \in Seeking, f # slot
                   PROVE  FindsOK(o, g, ps, B, value'[f])
        BY <3>1 DEF SeeksOK, FindsOK, B
      <4>1. f \in Obj
        BY DEF Settled, Inv, CallOK, HoldsOK, Seeking
      <4>2. FindsOK(order, h, pos, B, value[f])
        BY DEF Explained, SeeksOK, B
      <4>3. CASE f # e
        <5>1. value[f] # Nil => value[f] \in DOMAIN pos
          BY <1>4, <4>1
        <5>2. QED
          BY <3>3, <3>4, <4>1, <4>2, <4>3, <5>1 DEF FindsOK
      <4>4. CASE f = e
        <5>1. Since(order, B, p)
          BY <1>0, <4>2, <4>4 DEF FindsOK, p
        <5>2. Since(o, B, p + 1)
          BY <1>1, <3>3, <5>1 DEF n
        <5>3. QED
          BY <1>3, <1>20, <4>4, <5>2 DEF FindsOK
      <4>5. QED
        BY <4>3, <4>4
    <3>6. BoxOK(o, ps, u)'
      <4> SUFFICES ASSUME th[u].pc \in Holding, ~Committed(u)
                   PROVE  th[u].box \in DOMAIN ps /\ Since(o, B, ps[th[u].box])
        BY <3>1 DEF BoxOK, B
      <4>1. th[u].box \in DOMAIN pos /\ Since(order, B, pos[th[u].box])
        BY DEF Explained, BoxOK, B
      <4>2. QED
        BY <1>20, <3>4, <4>1
    <3>7. QED
      BY <3>5, <3>6
  <2>3. QED
    BY <2>1, <2>2
<1>24. Explained(o, g, ps)'
  BY <1>16, <1>17, <1>22, <1>23 DEF Explained
<1>25. QED
  BY <1>24

-------------------------------------------------------------------------------
\* A step of t keeps the invariants: what the boxes are, what t knows, and
\* that there is an order.
Carries(t) ==
    /\ Acts(t) /\ BoxesOK' /\ TraceOK(t)'
    /\ \A b \in Makers : data[b] = Dead \/ HasMeta(b) => data'[b] = data[b]
    /\ gap => gap'
    /\ ~gap' => \A order, h, pos : Explained(order, h, pos) => \E o, g, ps : Explained(o, g, ps)'

\* The content was v after call t began.
Sees(t, v) == \A order, h, pos : Explained(order, h, pos) => Known(order, h, th[t].before, v)

\* The boxes stay as they are.
LEMMA BoxesSame ==
    ASSUME Settled, NEW t \in Call, Acts(t), UNCHANGED <<value, data>> PROVE BoxesOK'
<1>1. /\ Makers' = Makers /\ op' = op /\ noClone' = noClone
      /\ \A b : HasMeta(b)' = HasMeta(b) /\ Typ(b)' = Typ(b)
  BY ActsKeep DEF Acts, config
<1>2. QED
  BY <1>1 DEF Settled, BoxesOK, Alike, Tracked

\* The calls that had ended before t began have still ended.
LEMMA BeforeLater ==
    ASSUME Settled, NEW t \in Call, Acts(t)
    PROVE  \A u \in th'[t].before : u \in Call /\ u # t /\ At(u, "done")'
<1>1. \A u \in th[t].before : u \in Call /\ u # t /\ th[u].pc = "done"
  BY DEF Settled, TraceOK, At
<1>2. th'[t].before = th[t].before /\ \A u \in Call : u # t => th'[u].pc = th[u].pc
  BY DEF Acts
<1>3. QED
  BY <1>1, <1>2 DEF At

\* What a call finds in the entry it has.
LEMMA EntryFinds ==
    ASSUME Settled, NEW t \in Call, NEW order, NEW h, NEW pos, Explained(order, h, pos),
           th[t].ent \in Obj, th[t].pc \in Seeking \/ th[t].ent = slot
    PROVE  /\ FindsOK(order, h, pos, th[t].before, value[th[t].ent])
           /\ value[th[t].ent] # Nil => value[th[t].ent] \in DOMAIN pos
<1> DEFINE n == Len(order)
<1>1. value[th[t].ent] # Nil => value[th[t].ent] \in DOMAIN pos
  BY PosFacts
<1>2. CASE th[t].ent # slot
  BY <1>1, <1>2 DEF Explained, SeeksOK
<1>3. CASE th[t].ent = slot
  <2>1. value[th[t].ent] = InSlot
    BY <1>3, NamesAssumption DEF InSlot, Obj
  <2>2. n \in 0..n /\ Since(order, th[t].before, n)
    BY PosFacts DEF Since
  <2>3. CASE InSlot = Nil
    <3>1. h[n] = Nil
      BY <2>3 DEF Explained, PosOK
    <3>2. QED
      BY <2>1, <2>2, <2>3, <3>1 DEF FindsOK, Known
  <2>4. CASE InSlot # Nil
    <3>1. pos[InSlot] = n
      BY <2>4 DEF Explained, PosOK
    <3>2. Since(order, th[t].before, pos[InSlot])
      BY <2>2, <3>1
    <3> HIDE DEF n
    <3>3. FindsOK(order, h, pos, th[t].before, InSlot)
      BY <2>4, <3>2 DEF FindsOK
    <3>4. QED
      BY <1>1, <2>1, <3>3
  <2>5. QED
    BY <1>1, <2>3, <2>4
<1>4. QED
  BY <1>1, <1>2, <1>3

\* It sees the word of the box it holds.
LEMMA SeesBox ==
    ASSUME Settled, NEW t \in Call, th[t].pc \in Holding, ~Committed(t)
    PROVE  Sees(t, Word(th[t].box)) /\ th[t].box \in Makers
<1>1. ASSUME NEW order, NEW h, NEW pos, Explained(order, h, pos)
      PROVE  Known(order, h, th[t].before, Word(th[t].box))
  <2> DEFINE b == th[t].box
  <2>1. b \in DOMAIN pos /\ Since(order, th[t].before, pos[b])
    BY <1>1 DEF Explained, BoxOK
  <2>2. pos[b] \in 0..Len(order) /\ h[pos[b]] = Word(b)
    BY <1>1, <2>1 DEF Explained, PosOK
  <2>3. QED
    BY <2>1, <2>2 DEF Known
<1>2. QED
  BY <1>1 DEF Sees, Settled, TraceOK

\* It sees the word of the box in the entry that it has.
LEMMA SeesEntry ==
    ASSUME Settled, NEW t \in Call, th[t].ent \in Obj, th[t].pc \in Seeking \/ th[t].ent = slot
    PROVE  /\ value[th[t].ent] = Nil => Sees(t, Nil)
           /\ value[th[t].ent] # Nil =>
                Sees(t, Word(value[th[t].ent])) /\ value[th[t].ent] \in Makers
<1> DEFINE b == value[th[t].ent]
<1>1. ASSUME NEW order, NEW h, NEW pos, Explained(order, h, pos)
      PROVE  Known(order, h, th[t].before, IF b = Nil THEN Nil ELSE Word(b))
  <2>1. FindsOK(order, h, pos, th[t].before, b) /\ (b # Nil => b \in DOMAIN pos)
    BY <1>1, EntryFinds
  <2>2. b # Nil => pos[b] \in 0..Len(order) /\ h[pos[b]] = Word(b)
    BY <1>1, <2>1 DEF Explained, PosOK
  <2> HIDE DEF b
  <2>3. QED
    BY <2>1, <2>2 DEF FindsOK, Known
<1>2. b # Nil => b \in Makers
  BY DEF Settled, BoxesOK
<1> HIDE DEF b
<1>3. QED
  BY <1>1, <1>2 DEF Sees, b

\* It sees what is in the slot now.
LEMMA SeesSlot ==
    ASSUME Settled, NEW t \in Call
    PROVE  /\ InSlot = Nil => Sees(t, Nil)
           /\ InSlot # Nil => Sees(t, Word(InSlot))
<1>1. ASSUME NEW order, NEW h, NEW pos, Explained(order, h, pos)
      PROVE  Known(order, h, th[t].before, IF InSlot = Nil THEN Nil ELSE Word(InSlot))
  <2>1. /\ Len(order) \in 0..Len(order)
        /\ h[Len(order)] = IF InSlot = Nil THEN Nil ELSE Word(InSlot)
    BY <1>1, PosFacts
  <2>2. Since(order, th[t].before, Len(order))
    BY <2>1 DEF Since
  <2>3. QED
    BY <2>1, <2>2 DEF Known
<1>2. QED
  BY <1>1 DEF Sees

\* With the table, the entries and the boxes unchanged an order stays one if it
\* does for the call that moves.
LEMMA OrderStands ==
    ASSUME Settled, NEW t \in Call, Acts(t), UNCHANGED <<slot, value, data>>,
           NEW order, NEW h, NEW pos, Explained(order, h, pos),
           Committed(t)' <=> Committed(t), Committed(t) => Outcome(t)' = Outcome(t),
           SeeksOK(order, h, pos, t)', BoxOK(order, pos, t)'
    PROVE  Explained(order, h, pos)'
<1>1. /\ Makers' = Makers /\ First' = First /\ Before' = Before /\ op' = op
      /\ \A b : IsSimple(b)' = IsSimple(b)
      /\ \A u \in Call \ {t} : (Committed(u)' <=> Committed(u)) /\ Outcome(u)' = Outcome(u)
  BY ActsKeep DEF Acts, config
<1>2. \A u \in Call : Committed(u)' <=> Committed(u)
  BY <1>1
<1>3. Account(op, Outcomes, Before, order, h)'
  <2>1. \A u \in Call : Committed(u) => Outcomes'[u] = Outcomes[u]
    BY <1>1 DEF Outcomes
  <2>2. \A i \in 1..Len(order) : order[i] \in Call /\ Committed(order[i])
    BY DEF Explained, Account, Listed
  <2>3. \A i \in 1..Len(order) : Outcomes'[order[i]] = Outcomes[order[i]]
    BY <2>1, <2>2
  <2>4. QED
    BY <1>1, <2>3 DEF Explained, Account
<1>4. PosOK(order, h, pos)'
  <2>1. \A b : Word(b)' = Word(b) /\ (Live(b)' <=> Live(b)) /\ (Pointed(b)' <=> Pointed(b))
    BY <1>1 DEF Word, Live, Pointed
  <2>2. InSlot' = InSlot
    BY DEF InSlot
  <2>3. \A b \in DOMAIN pos : b \in Call => Committed(b)'
    BY <1>2 DEF Explained, PosOK
  <2>4. QED
    BY <1>1, <2>1, <2>2, <2>3 DEF Explained, PosOK
<1>5. ASSUME NEW u \in Call \ {t} PROVE SeeksOK(order, h, pos, u)' /\ BoxOK(order, pos, u)'
  <2>1. th'[u] = th[u] /\ (Committed(u)' <=> Committed(u))
    BY <1>1 DEF Acts
  <2>2. SeeksOK(order, h, pos, u) /\ BoxOK(order, pos, u)
    BY DEF Explained
  <2>3. QED
    BY <2>1, <2>2 DEF SeeksOK, BoxOK, FindsOK
<1>6. QED
  BY <1>1, <1>2, <1>3, <1>4, <1>5 DEF Explained

\* A call goes on with what it has found, before it has taken effect.
LEMMA CarriesOn ==
    ASSUME Settled, NEW t \in Call, Acts(t), UNCHANGED <<slot, value, data>>, gap => gap',
           ~Committed(t), ~Committed(t)', TraceOK(t)',
           th'[t].pc \in Seeking =>
             th'[t].ent = slot \/ (th'[t].ent = th[t].ent /\ th[t].pc \in Seeking),
           th'[t].pc \in Holding =>
             \/ th'[t].box = th[t].box /\ th[t].pc \in Holding
             \/ /\ th[t].ent \in Obj /\ (th[t].pc \in Seeking \/ th[t].ent = slot)
                /\ th'[t].box = value[th[t].ent] /\ th'[t].box # Nil
    PROVE  Carries(t)
<1>1. ASSUME NEW order, NEW h, NEW pos, Explained(order, h, pos)
      PROVE  Explained(order, h, pos)'
  <2>1. SeeksOK(order, h, pos, t)'
    <3> SUFFICES ASSUME th'[t].pc \in Seeking, th'[t].ent # slot
                 PROVE  FindsOK(order, h, pos, th[t].before, value[th[t].ent])
      BY DEF SeeksOK, FindsOK, Acts
    <3>1. QED
      BY <1>1 DEF Explained, SeeksOK
  <2>2. BoxOK(order, pos, t)'
    <3> SUFFICES ASSUME th'[t].pc \in Holding
                 PROVE  /\ th'[t].box \in DOMAIN pos
                        /\ Since(order, th[t].before, pos[th'[t].box])
      BY DEF BoxOK, Acts
    <3>1. CASE th'[t].box = th[t].box /\ th[t].pc \in Holding
      BY <1>1, <3>1 DEF Explained, BoxOK
    <3>2. CASE /\ th[t].ent \in Obj /\ (th[t].pc \in Seeking \/ th[t].ent = slot)
               /\ th'[t].box = value[th[t].ent] /\ th'[t].box # Nil
      <4>1. /\ FindsOK(order, h, pos, th[t].before, value[th[t].ent])
            /\ value[th[t].ent] # Nil => value[th[t].ent] \in DOMAIN pos
        BY <1>1, <3>2, EntryFinds
      <4>2. QED
        BY <3>2, <4>1 DEF FindsOK
    <3>3. QED
      BY <3>1, <3>2
  <2>3. QED
    BY <1>1, <2>1, <2>2, OrderStands
<1>2. BoxesOK'
  BY BoxesSame
<1>3. QED
  BY <1>1, <1>2 DEF Carries

\* A call that has taken effect goes on.
LEMMA CarriesDone ==
    ASSUME Settled, NEW t \in Call, Acts(t), UNCHANGED <<slot, value, data>>, gap => gap',
           Committed(t), Committed(t)', TraceOK(t)', Outcome(t)' = Outcome(t)
    PROVE  Carries(t)
<1>1. ASSUME NEW order, NEW h, NEW pos, Explained(order, h, pos)
      PROVE  Explained(order, h, pos)'
  <2>1. SeeksOK(order, h, pos, t)' /\ BoxOK(order, pos, t)'
    BY DEF SeeksOK, BoxOK, Committed, Post, Seeking, At
  <2>2. QED
    BY <1>1, <2>1, OrderStands
<1>2. BoxesOK'
  BY BoxesSame
<1>3. QED
  BY <1>1, <1>2 DEF Carries

\* A call answers from a content that it sees, and leaves it alone.
LEMMA CarriesAnswer ==
    ASSUME Settled, NEW t \in Call, Acts(t), UNCHANGED <<slot, value, data>>, gap => gap',
           ~Committed(t), Committed(t)', TraceOK(t)',
           NEW v, ~gap' => /\ Sees(t, v) /\ After(op[t], v) = v
                           /\ Outcome(t)' = Answers(op[t], v)
    PROVE  Carries(t)
<1>1. ASSUME ~gap', NEW order, NEW h, NEW pos, Explained(order, h, pos)
      PROVE  \E o, g, ps : Explained(o, g, ps)'
  <2>1. PICK p \in 0..Len(order) : h[p] = v /\ Since(order, th[t].before, p)
    BY <1>1 DEF Sees, Known
  <2>2. QED
    BY <1>1, <2>1, JoinKeeps
<1>2. BoxesOK'
  BY BoxesSame
<1>3. QED
  BY <1>1, <1>2 DEF Carries

-------------------------------------------------------------------------------
\* Where a step takes call t: to p, with an entry, a box and a word, or to the
\* end of its work on the entry, with an answer.
Comes(t, p, e, b, w) ==
    /\ Acts(t)
    /\ th'[t].pc = p /\ th'[t].ent = e /\ th'[t].box = b /\ th'[t].word = w
    /\ th'[t].res = th[t].res
Stops(t, p, r) == Acts(t) /\ th'[t].pc = p /\ th'[t].res = r

\* The labels that only calls with limits reach, and those at which a call
\* knows more of its box than that it may be stored.
Off == {"consume", "reload", "slow", "clear", "clearCount", "end", "maybeResize"}
Strict == {"val", "preBox", "preVal", "swapData", "claim", "unlink", "replaceData", "casBox",
           "replaceCAS"}

\* What it knows then.
LEMMA Knows ==
    ASSUME Settled, NEW t \in Call, NEW p, NEW e, NEW b, NEW w, Comes(t, p, e, b, w), p \notin Off,
           p \in Holding => b \in Makers,
           p = "val" => Kind(t) # "Has",
           p \in {"preFind", "preBox", "preVal"} => Kind(t) = "CompareAndSwap",
           p = "swapData" => Kind(t) \in {"Store", "Swap"} /\ SameShape(b, t),
           p \in {"claim", "unlink"} => Kind(t) \in {"Delete", "CompareAndDelete"},
           p \in {"replaceData", "casBox"} => Kind(t) = "CompareAndSwap" /\ w = op[t].old,
           p = "replaceData" => SameShape(b, t),
           p = "casBox" => HasMeta(b) /\ data'[b] = w,
           p = "claim" => IsSimple(b) /\ (Kind(t) = "CompareAndDelete" => w = op[t].old),
           p = "unlink" /\ IsSimple(b) => data'[b] = Dead,
           p = "unlink" /\ HasMeta(b) =>
             data'[b] = w /\ (Kind(t) = "CompareAndDelete" => w = op[t].old),
           p = "replaceCAS" /\ Kind(t) = "LoadOrStore" => data'[b] = Dead,
           p = "replaceCAS" /\ Kind(t) = "Swap" => HasMeta(b) /\ data'[b] = w
    PROVE  TraceOK(t)'
<1>1. /\ Acts(t) /\ th'[t].pc = p /\ th'[t].ent = e /\ th'[t].box = b /\ th'[t].word = w
      /\ th'[t].res = th[t].res
  BY DEF Comes
<1>2. /\ Makers' = Makers /\ op' = op
      /\ \A u : /\ Kind(u)' = Kind(u) /\ IsSimple(u)' = IsSimple(u)
                /\ HasMeta(u)' = HasMeta(u) /\ Typ(u)' = Typ(u)
  BY <1>1, ActsKeep DEF Acts, config
<1>3. \A u \in th'[t].before : u \in Call /\ u # t /\ At(u, "done")'
  BY <1>1, BeforeLater
<1>4. Kind(t) \in {"Store", "Clear", "CleanupNow"} => th[t].res = Answer(Nil, TRUE)
  BY DEF Settled, TraceOK
<1>5. QED
  BY <1>1, <1>2, <1>3, <1>4 DEF TraceOK, Off, SameShape

\* A call goes on, and the table, the entries and the boxes stay as they are.
LEMMA GoesOn ==
    ASSUME Settled, NEW t \in Call, NEW p, NEW e, NEW b, NEW w, Comes(t, p, e, b, w),
           UNCHANGED <<slot, value, data>>, gap => gap', ~Committed(t),
           p \notin Post \cup Off, p # "preFind", p \in Strict => TraceOK(t)',
           p \in Seeking => e = slot \/ (e = th[t].ent /\ th[t].pc \in Seeking),
           p \in Holding =>
             \/ b = th[t].box /\ th[t].pc \in Holding
             \/ /\ th[t].ent \in Obj /\ (th[t].pc \in Seeking \/ th[t].ent = slot)
                /\ b = value[th[t].ent] /\ b # Nil,
           p # "unlink"
    PROVE  Carries(t)
<1>1. /\ Acts(t) /\ th'[t].pc = p /\ th'[t].ent = e /\ th'[t].box = b
      /\ th'[t].res = th[t].res
  BY DEF Comes
<1>2. ~Committed(t)'
  BY <1>1 DEF Committed, At
<1>3. TraceOK(t)'
  <2> SUFFICES ASSUME p \notin Strict PROVE TraceOK(t)'
    OBVIOUS
  <2>1. p \in Holding => b \in Makers
    BY DEF Settled, TraceOK, BoxesOK
  <2>2. QED
    BY <2>1, Knows DEF Strict
<1>4. QED
  BY <1>1, <1>2, <1>3, CarriesOn

\* A call that has its answer knows no more than that.
LEMMA EndKnows ==
    ASSUME Settled, NEW t \in Call, NEW p, NEW r, Stops(t, p, r),
           p \in {"done", "resize", "drain", "rebuild", "rebuildCount", "publish", "inlineCount"},
           Kind(t) \in {"Store", "Clear", "CleanupNow"} => r = Answer(Nil, TRUE)
    PROVE  TraceOK(t)' /\ Committed(t)' /\ (p # "publish" => Outcome(t)' = r)
<1>1. Acts(t) /\ th'[t].pc = p /\ th'[t].res = r
  BY DEF Stops
<1>2. \A u : Kind(u)' = Kind(u)
  BY <1>1, ActsKeep
<1>3. \A u \in th'[t].before : u \in Call /\ u # t /\ At(u, "done")'
  BY <1>1, BeforeLater
<1>4. QED
  BY <1>1, <1>2, <1>3 DEF TraceOK, Committed, Outcome, Post, At, Holding

\* One that has done its work.
LEMMA AnswerKnows ==
    ASSUME Settled, NEW t \in Call, NEW p \in {"done", "resize"}, NEW r, Stops(t, p, r),
           Kind(t) \in {"Store", "Clear", "CleanupNow"} => r = Answer(Nil, TRUE)
    PROVE  TraceOK(t)' /\ Committed(t)' /\ Outcome(t)' = r
  BY EndKnows

\* A call answers from a content that it sees.
LEMMA Replies ==
    ASSUME Settled, NEW t \in Call, NEW p \in {"done", "resize"}, NEW r, NEW v, Stops(t, p, r),
           UNCHANGED <<slot, value, data>>, gap => gap', ~Committed(t),
           ~gap' => Sees(t, v) /\ After(op[t], v) = v /\ r = Answers(op[t], v),
           Kind(t) \in {"Store", "Clear", "CleanupNow"} => r = Answer(Nil, TRUE)
    PROVE  Carries(t)
<1>1. TraceOK(t)' /\ Committed(t)' /\ Outcome(t)' = r
  BY EndKnows
<1>2. Acts(t)
  BY DEF Stops
<1>3. QED
  BY <1>1, <1>2, CarriesAnswer

\* A call that finds nothing, or not the value it compares with.
LEMMA AbsentMeans ==
    ASSUME Settled, NEW t \in Call
    PROVE  /\ Kind(t) \in Readers \cup Removals \cup {"CompareAndSwap"} =>
                After(op[t], Nil) = Nil /\ Answers(op[t], Nil) = Absent
           /\ Kind(t) \in {"CompareAndDelete", "CompareAndSwap"} =>
                \A v : v # op[t].old => After(op[t], v) = v /\ Answers(op[t], v) = Absent
<1>1. Kind(t) \in {"CompareAndDelete", "CompareAndSwap"} => op[t].old # Nil
  BY DEF Settled, Orderly
<1>2. ASSUME Kind(t) \in Readers \cup {"Delete"}
      PROVE  After(op[t], Nil) = Nil /\ Answers(op[t], Nil) = Absent
  BY <1>2 DEF Kind, Readers, Absent, After, Answers
<1>3. ASSUME Kind(t) \in {"CompareAndDelete", "CompareAndSwap"}, NEW v, v # op[t].old
      PROVE  After(op[t], v) = v /\ Answers(op[t], v) = Absent
  <2>1. CASE op[t].kind = "CompareAndDelete"
    BY <1>3, <2>1, OthersMean DEF Absent
  <2>2. CASE op[t].kind = "CompareAndSwap"
    BY <1>3, <2>2, WritersMean DEF Absent
  <2>3. QED
    BY <1>3, <2>1, <2>2 DEF Kind
<1>4. QED
  BY <1>1, <1>2, <1>3 DEF Removals

\* A call that answers the value it finds.
LEMMA ReadMeans ==
    ASSUME NEW t \in Call, NEW v, v # Nil,
           Kind(t) \in {"Load", "Peek", "Range", "LoadOrStore"}
    PROVE  After(op[t], v) = v /\ Answers(op[t], v) = Answer(v, TRUE)
<1>1. CASE op[t].kind \in {"Load", "Peek", "Range"}
  BY <1>1 DEF After, Answers, Readers
<1>2. CASE op[t].kind = "LoadOrStore"
  BY <1>2, WritersMean
<1>3. QED
  BY <1>1, <1>2 DEF Kind

\* A live box has its data word for its value.
LEMMA WordIs ==
    ASSUME Settled, NEW b \in Makers
    PROVE  /\ data[b] # Dead => Word(b) = data[b] /\ data[b] # Nil
           /\ data[b] = Dead => Word(b) = Nil
  BY NoLimits DEF Word

-------------------------------------------------------------------------------
\* What the steps start from.
LEMMA Bases ==
    ASSUME Settled, NEW t \in Call
    PROVE  /\ HasLocals(t) /\ CallOK(t) /\ TraceOK(t) /\ Unlimited /\ Kind(t) \notin Limiting
           /\ t \in Obj /\ Nil \notin Obj /\ slot \in Obj \cup {Nil}
           /\ value \in [Obj -> Obj \cup {Nil}] /\ data \in [Obj -> Value \cup {Dead, Nil}]
           /\ \A e \in Obj : value[e] # Nil => value[e] \in Makers
  BY Basics DEF Settled, Orderly, BoxesOK

\* The moves in these terms: Goto, the finding of an entry and of a box,
\* Return, and the end of a call that may have to resize.
LEMMA GotoComes ==
    ASSUME Settled, NEW t \in Call, th[t].pc # "done", UNCHANGED config,
           NEW p, p \notin Tidying, Goto(t, p)
    PROVE  Comes(t, p, th[t].ent, th[t].box, th[t].word)
  BY Bases DEF HasLocals, Tidying, Goto, Set, With, Tidy, Comes, Acts, Fields

\* It finds an entry.
LEMMA EntComes ==
    ASSUME Settled, NEW t \in Call, th[t].pc # "done", UNCHANGED config,
           NEW p, p \notin Tidying, NEW e, Set(t, [pc |-> p, ent |-> e])
    PROVE  Comes(t, p, e, th[t].box, th[t].word)
  BY Bases DEF HasLocals, Tidying, Set, With, Tidy, Comes, Acts, Fields

\* It finds a box.
LEMMA BoxComes ==
    ASSUME Settled, NEW t \in Call, th[t].pc # "done", UNCHANGED config,
           NEW p, p \notin Tidying, NEW b, Set(t, [pc |-> p, box |-> b])
    PROVE  Comes(t, p, th[t].ent, b, th[t].word)
  BY Bases DEF HasLocals, Tidying, Set, With, Tidy, Comes, Acts, Fields

\* It finds a word.
LEMMA WordComes ==
    ASSUME Settled, NEW t \in Call, th[t].pc # "done", UNCHANGED config,
           NEW p, p \notin Tidying, NEW w, Set(t, [pc |-> p, word |-> w])
    PROVE  Comes(t, p, th[t].ent, th[t].box, w)
  BY Bases DEF HasLocals, Tidying, Set, With, Tidy, Comes, Acts, Fields

\* It ends with an answer.
LEMMA AnswerStops ==
    ASSUME Settled, NEW t \in Call, th[t].pc # "done", UNCHANGED config,
           NEW p \in {"done", "resize"}, NEW r, Set(t, [pc |-> p, res |-> r])
    PROVE  Stops(t, p, r)
  BY Bases DEF HasLocals, Set, With, Tidy, Stops, Acts, Fields

\* It returns.
LEMMA ReturnStops ==
    ASSUME Settled, NEW t \in Call, th[t].pc # "done", UNCHANGED config, NEW r, Return(t, r)
    PROVE  Stops(t, "done", r)
  BY AnswerStops DEF Return

\* A lookup finds what is in the slot, and nothing where it is empty.
LEMMA FoundIs ==
    ASSUME Settled
    PROVE  /\ Found # Nil => Found = slot /\ Found \in Obj
           /\ Found = Nil /\ ~MissedInGap => InSlot = Nil
<1>1. slot \in Obj \cup {Nil} /\ (ctrl => slot # Nil)
  BY DEF Settled, Inv, StateTypes, TypeOK
<1>2. QED
  BY <1>1 DEF Found, MissedInGap, InSlot
-------------------------------------------------------------------------------
\* The reads.
LEMMA ReadFindCarries == ASSUME Settled, NEW t \in Call, ReadFind(t) PROVE Carries(t)
<1>1. /\ th[t].pc = "find" /\ ~Committed(t) /\ UNCHANGED config /\ UNCHANGED <<slot, value, data>>
      /\ gap => gap'
      /\ ~gap' => ~MissedInGap
  BY DEF ReadFind, At, Committed, Post, shared
<1>2. Kind(t) \in Readers
  BY <1>1, Bases DEF CallOK, KindOK
<1>3. CASE Found = Nil
  <2>1. Stops(t, "done", Absent)
    BY <1>1, <1>3, ReturnStops DEF ReadFind
  <2>2. ~gap' => Sees(t, Nil)
    BY <1>1, <1>3, FoundIs, SeesSlot
  <2>3. QED
    BY <1>1, <1>2, <2>1, <2>2, Replies, AbsentMeans DEF Readers
<1>4. CASE Found # Nil
  <2>1. PICK p \in {"simple", "read"} : Set(t, [pc |-> p, ent |-> Found])
    BY <1>4 DEF ReadFind
  <2>2. Comes(t, p, slot, th[t].box, th[t].word)
    BY <1>1, <1>4, <2>1, FoundIs, EntComes DEF Tidying
  <2>3. QED
    BY <1>1, <2>1, <2>2, GoesOn DEF Post, Off, Strict, Holding
<1>5. QED
  BY <1>3, <1>4

\* Range has found a box, or not.
LEMMA RangeSimpleCarries == ASSUME Settled, NEW t \in Call, RangeSimple(t) PROVE Carries(t)
<1> DEFINE b == value[th[t].ent]
<1>1. /\ th[t].pc = "simple" /\ ~Committed(t) /\ UNCHANGED config
      /\ UNCHANGED <<slot, value, data>> /\ UNCHANGED gap
  BY DEF RangeSimple, At, Committed, Post, shared
<1>2. th[t].ent \in Obj
  BY <1>1, Bases DEF CallOK, HoldsOK
<1>3. CASE b # Nil /\ IsSimple(b)
  <2>1. Set(t, [pc |-> "simpleVal", box |-> b])
    BY <1>3 DEF RangeSimple
  <2>2. Comes(t, "simpleVal", th[t].ent, b, th[t].word)
    BY <1>1, <2>1, BoxComes DEF Tidying
  <2>3. QED
    BY <1>1, <1>2, <1>3, <2>2, GoesOn DEF Post, Off, Strict, Seeking
<1>4. CASE ~(b # Nil /\ IsSimple(b))
  <2>1. Set(t, [pc |-> "read", box |-> b])
    BY <1>4 DEF RangeSimple
  <2>2. Comes(t, "read", th[t].ent, b, th[t].word)
    BY <1>1, <2>1, BoxComes DEF Tidying
  <2>3. QED
    BY <1>1, <2>2, GoesOn DEF Post, Off, Strict, Seeking, Holding
<1>5. QED
  BY <1>3, <1>4

\* It visits the value, unless the box is claimed.
LEMMA RangeSimpleValCarries ==
    ASSUME Settled, NEW t \in Call, RangeSimpleVal(t) PROVE Carries(t)
<1> DEFINE b == th[t].box
<1>1. /\ th[t].pc = "simpleVal" /\ ~Committed(t) /\ UNCHANGED config
      /\ UNCHANGED <<slot, value, data>> /\ UNCHANGED gap
  BY DEF RangeSimpleVal, At, Committed, Post, shared
<1>2. Kind(t) = "Range"
  BY <1>1, Bases DEF CallOK, KindOK
<1>3. b \in Makers /\ Sees(t, Word(b))
  BY <1>1, SeesBox DEF Holding
<1>4. CASE data[b] = Dead
  <2>1. Comes(t, "read", th[t].ent, b, th[t].word)
    BY <1>1, <1>4, GotoComes DEF RangeSimpleVal, Tidying
  <2>2. QED
    BY <1>1, <2>1, GoesOn DEF Post, Off, Strict, Seeking, Holding
<1>5. CASE data[b] # Dead
  <2>1. Stops(t, "done", Answer(data[b], TRUE))
    BY <1>1, <1>5, ReturnStops DEF RangeSimpleVal
  <2>2. Word(b) = data[b] /\ data[b] # Nil
    BY <1>3, <1>5, WordIs
  <2>3. After(op[t], data[b]) = data[b] /\ Answers(op[t], data[b]) = Answer(data[b], TRUE)
    BY <1>2, <2>2, ReadMeans
  <2>4. QED
    BY <1>1, <1>2, <1>3, <2>1, <2>2, <2>3, Replies
<1>6. QED
  BY <1>4, <1>5

\* Has answers from the box alone; it is right where the box is not claimed.
LEMMA HasBoxCarries ==
    ASSUME Settled, NEW t \in Call, At(t, "read"), Kind(t) = "Has",
           NEW b, b = value[th[t].ent], b # Nil, HasBox(t, b), UNCHANGED <<shared, now, config>>
    PROVE  Carries(t)
<1>1. /\ th[t].pc = "read" /\ ~Committed(t) /\ UNCHANGED config /\ UNCHANGED <<slot, value, data>>
      /\ gap => gap'
      /\ ~gap' => ~(IsSimple(b) /\ data[b] = Dead)
  BY DEF HasBox, At, Committed, Post, shared
<1>2. th[t].ent \in Obj
  BY <1>1, Bases DEF CallOK, HoldsOK
<1>3. b \in Makers /\ Sees(t, Word(b))
  BY <1>1, <1>2, SeesEntry DEF Seeking
<1>4. Stops(t, "done", Answer(Nil, TRUE))
  <2>1. IsSimple(b) \/ (~Expired(b) /\ ~Depleted(b))
    BY <1>3, NoLimits
  <2>2. Set(t, [pc |-> "done", box |-> b, res |-> Answer(Nil, TRUE)])
    BY <2>1 DEF HasBox
  <2>3. QED
    BY <1>1, <2>2, Bases DEF HasLocals, Set, With, Tidy, Stops, Acts, Fields
<1>5. ~gap' => Word(b) # Nil
  <2>1. ~gap' => data[b] # Dead
    <3>1. HasMeta(b) => data[b] # Dead
      BY <1>3, NoLimits DEF Settled, BoxesOK
    <3>2. QED
      BY <1>1, <3>1 DEF IsSimple
  <2>2. QED
    BY <1>3, <2>1, WordIs
<1>6. /\ After(op[t], Word(b)) = Word(b)
      /\ ~gap' => Answers(op[t], Word(b)) = Answer(Nil, TRUE)
  <2>1. op[t].kind = "Has"
    BY DEF Kind
  <2>2. QED
    BY <1>5, <2>1, OthersMean
<1>7. QED
  BY <1>1, <1>3, <1>4, <1>6, Replies

\* The first look at the box.
LEMMA ReadBoxCarries == ASSUME Settled, NEW t \in Call, ReadBox(t) PROVE Carries(t)
<1>0. PICK b : b = value[th[t].ent]
  OBVIOUS
<1>1. /\ th[t].pc = "read" /\ ~Committed(t) /\ UNCHANGED config /\ UNCHANGED <<slot, value, data>>
  BY DEF ReadBox, At, Committed, Post, shared
<1>2. th[t].ent \in Obj /\ Kind(t) \in Readers
  BY <1>1, Bases DEF CallOK, HoldsOK, KindOK
<1>3. CASE b # Nil /\ Kind(t) = "Has"
  <2>1. HasBox(t, b) /\ At(t, "read") /\ UNCHANGED <<shared, now, config>>
    BY <1>0, <1>3 DEF ReadBox
  <2>2. QED
    BY <1>0, <1>3, <2>1, HasBoxCarries
<1>4. CASE b = Nil
  <2>1. Return(t, Absent) /\ UNCHANGED gap
    BY <1>0, <1>4 DEF ReadBox
  <2>2. Stops(t, "done", Absent)
    BY <1>1, <2>1, ReturnStops
  <2>3. Sees(t, Nil)
    BY <1>0, <1>1, <1>2, <1>4, SeesEntry DEF Seeking
  <2>4. QED
    BY <1>1, <1>2, <2>1, <2>2, <2>3, Replies, AbsentMeans DEF Readers
<1>5. CASE b # Nil /\ Kind(t) # "Has"
  <2>1. b \in Obj /\ exp[b] = 0 /\ hits[b] = 0
    BY <1>0, <1>2, <1>5, NoLimits, SeesEntry, <1>1 DEF Seeking
  <2>2. Set(t, [pc |-> "val", box |-> b]) /\ UNCHANGED gap
    BY <1>0, <1>5, <2>1 DEF ReadBox, LimitedBox, Depleted
  <2>3. Comes(t, "val", th[t].ent, b, th[t].word)
    BY <1>1, <2>2, BoxComes DEF Tidying
  <2>4. TraceOK(t)'
    BY <1>0, <1>1, <1>2, <1>5, <2>3, Knows, SeesEntry DEF Off, Seeking
  <2>5. QED
    BY <1>0, <1>1, <1>2, <1>5, <2>2, <2>3, <2>4, GoesOn DEF Post, Off, Seeking
<1>6. QED
  BY <1>3, <1>4, <1>5

\* A claimed box reads as absent.
LEMMA ReadValCarries == ASSUME Settled, NEW t \in Call, ReadVal(t) PROVE Carries(t)
<1> DEFINE b == th[t].box
<1>1. /\ th[t].pc = "val" /\ ~Committed(t) /\ UNCHANGED config
      /\ UNCHANGED <<slot, value, data>> /\ UNCHANGED gap
  BY DEF ReadVal, At, Committed, Post, shared
<1>2. Kind(t) \in Readers /\ Kind(t) # "Has"
  BY <1>1, Bases DEF CallOK, KindOK, TraceOK
<1>3. b \in Makers /\ Sees(t, Word(b))
  BY <1>1, SeesBox DEF Holding
<1>4. CASE data[b] = Dead
  <2>1. Stops(t, "done", Absent)
    BY <1>1, <1>4, ReturnStops DEF ReadVal
  <2>2. Sees(t, Nil)
    BY <1>3, <1>4, WordIs
  <2>3. QED
    BY <1>1, <1>2, <2>1, <2>2, Replies, AbsentMeans DEF Readers
<1>5. CASE data[b] # Dead
  <2>1. Stops(t, "done", Answer(data[b], TRUE))
    BY <1>1, <1>5, ReturnStops DEF ReadVal
  <2>2. Word(b) = data[b] /\ data[b] # Nil
    BY <1>3, <1>5, WordIs
  <2>3. After(op[t], data[b]) = data[b] /\ Answers(op[t], data[b]) = Answer(data[b], TRUE)
    BY <1>2, <2>2, ReadMeans DEF Readers
  <2>4. QED
    BY <1>1, <1>2, <1>3, <2>1, <2>2, <2>3, Replies DEF Readers
<1>6. QED
  BY <1>4, <1>5

-------------------------------------------------------------------------------
\* What is stored into a box of the same shape is of its type and shape.
LEMMA ShapeIs ==
    ASSUME Settled, NEW t \in Makers, NEW b, SameShape(b, t) PROVE Alike(op[t].val, b)
  BY NoLimits DEF SameShape, Alike, IsSimple

\* A call that replaces the word of a live simple box takes effect where that
\* word was the content.
LEMMA InPlace ==
    ASSUME Settled, NEW t \in Call, Acts(t), ~Committed(t), Committed(t)', TraceOK(t)',
           UNCHANGED <<slot, value>>, gap => gap', th[t].pc \in Holding,
           NEW b, b = th[t].box, IsSimple(b), data[b] # Dead,
           NEW d \in Value \cup {Dead}, data' = [data EXCEPT ![b] = d],
           d = Dead \/ Alike(d, b),
           Outcome(t)' = Answers(op[t], data[b]),
           After(op[t], data[b]) = IF d = Dead THEN Nil ELSE d
    PROVE  Carries(t)
<1>1. b \in Makers /\ b \in Obj /\ Word(b) = data[b] /\ ~HasMeta(b) /\ Live(b)
  BY SeesBox, NoLimits, WordIs DEF IsSimple, Live
<1>2. data'[b] = d /\ \A c \in Obj \ {b} : data'[c] = data[c]
  BY <1>1, Bases
<1>3. /\ Makers' = Makers /\ op' = op /\ noClone' = noClone
      /\ \A c : HasMeta(c)' = HasMeta(c) /\ Typ(c)' = Typ(c)
  BY ActsKeep DEF Acts, config
<1>4. BoxesOK'
  <2>1. \A c \in Makers : c \in Obj
    BY NoLimits
  <2>2. QED
    BY <1>1, <1>2, <1>3, <2>1 DEF Settled, BoxesOK, Alike, Tracked
<1>5. \A c \in Makers : data[c] = Dead \/ HasMeta(c) => data'[c] = data[c]
  BY <1>1, <1>2, NoLimits
<1>6. ASSUME NEW order, NEW h, NEW pos, Explained(order, h, pos)
      PROVE  \E o, g, ps : Explained(o, g, ps)'
  <2>1. b \in DOMAIN pos /\ Since(order, th[t].before, pos[b])
    BY <1>6 DEF Explained, BoxOK
  <2>2. PICK p \in 0..Len(order) : p = pos[b] /\ h[p] = Word(b)
    BY <1>6, <2>1 DEF Explained, PosOK
  <2>3. Word(b)' = IF d = Dead THEN Nil ELSE d
    BY <1>2 DEF Word
  <2>4. \E c \in DOMAIN pos :
            /\ pos[c] = p /\ Live(c)
            /\ \A x \in Obj \ {c} : data'[x] = data[x]
            /\ After(op[t], h[p]) = Word(c)'
    BY <1>1, <1>2, <2>1, <2>2, <2>3
  <2>5. Outcome(t)' = Answers(op[t], h[p]) /\ Since(order, th[t].before, p)
    BY <1>1, <2>1, <2>2
  <2>6. QED
    BY <1>6, <2>4, <2>5, JoinKeeps
<1>7. QED
  BY <1>4, <1>5, <1>6 DEF Carries

\* The lookups of Store and Swap outside the gate.
LEMMA FastFindCarries == ASSUME Settled, NEW t \in Call, FastFind(t) PROVE Carries(t)
<1>1. /\ th[t].pc = "fast" /\ ~Committed(t) /\ UNCHANGED config
      /\ UNCHANGED <<slot, value, data>> /\ UNCHANGED gap
  BY DEF FastFind, At, Committed, Post, shared
<1>2. CASE Found = Nil
  <2>1. PICK p \in {"find2", "put"} : Goto(t, p)
    BY <1>2 DEF FastFind, AfterFast
  <2>2. Comes(t, p, th[t].ent, th[t].box, th[t].word)
    BY <1>1, <2>1, GotoComes DEF Tidying
  <2>3. QED
    BY <1>1, <2>1, <2>2, GoesOn DEF Post, Off, Strict, Seeking, Holding
<1>3. CASE Found # Nil
  <2>1. Set(t, [pc |-> "fastBox", ent |-> Found])
    BY <1>3 DEF FastFind
  <2>2. Comes(t, "fastBox", slot, th[t].box, th[t].word)
    BY <1>1, <1>3, <2>1, FoundIs, EntComes DEF Tidying
  <2>3. QED
    BY <1>1, <2>2, GoesOn DEF Post, Off, Strict, Holding
<1>4. QED
  BY <1>2, <1>3

\* Store's second lookup.
LEMMA InlineFindCarries == ASSUME Settled, NEW t \in Call, InlineFind(t) PROVE Carries(t)
<1>1. /\ th[t].pc = "find2" /\ ~Committed(t) /\ UNCHANGED config
      /\ UNCHANGED <<slot, value, data>> /\ UNCHANGED gap
  BY DEF InlineFind, At, Committed, Post, shared
<1>2. CASE Found = Nil
  <2>1. Comes(t, "put", th[t].ent, th[t].box, th[t].word)
    BY <1>1, <1>2, GotoComes DEF InlineFind, Tidying
  <2>2. QED
    BY <1>1, <2>1, GoesOn DEF Post, Off, Strict, Seeking, Holding
<1>3. CASE Found # Nil
  <2>1. Set(t, [pc |-> "inlineBox", ent |-> Found])
    BY <1>3 DEF InlineFind
  <2>2. Comes(t, "inlineBox", slot, th[t].box, th[t].word)
    BY <1>1, <1>3, <2>1, FoundIs, EntComes DEF Tidying
  <2>3. QED
    BY <1>1, <2>2, GoesOn DEF Post, Off, Strict, Holding
<1>4. QED
  BY <1>2, <1>3

\* A simple box of the type that is stored.
LEMMA FastBoxCarries == ASSUME Settled, NEW t \in Call, FastBox(t) PROVE Carries(t)
<1>0. PICK b : b = value[th[t].ent]
  OBVIOUS
<1>1. /\ th[t].pc = "fastBox" /\ ~Committed(t) /\ UNCHANGED config
      /\ UNCHANGED <<slot, value, data>> /\ UNCHANGED gap
  BY DEF FastBox, At, Committed, Post, shared
<1>2. th[t].ent \in Obj /\ Kind(t) \in {"Store", "Swap"}
  BY <1>1, Bases DEF CallOK, HoldsOK, KindOK
<1>3. CASE b # Nil /\ SameShape(b, t)
  <2>1. Set(t, [pc |-> "swapData", box |-> b])
    BY <1>0, <1>3 DEF FastBox
  <2>2. Comes(t, "swapData", th[t].ent, b, th[t].word)
    BY <1>1, <2>1, BoxComes DEF Tidying
  <2>3. b \in Makers
    BY <1>0, <1>1, <1>2, <1>3, SeesEntry DEF Seeking
  <2>5. TraceOK(t)'
    BY <1>2, <1>3, <2>2, <2>3, Knows DEF Off
  <2>6. QED
    BY <1>0, <1>1, <1>2, <1>3, <2>2, <2>5, GoesOn DEF Post, Off, Seeking
<1>4. CASE ~(b # Nil /\ SameShape(b, t))
  <2>1. PICK p \in {"find2", "put"} : Goto(t, p)
    BY <1>0, <1>4 DEF FastBox, AfterFast
  <2>2. Comes(t, p, th[t].ent, th[t].box, th[t].word)
    BY <1>1, <2>1, GotoComes DEF Tidying
  <2>3. QED
    BY <1>1, <2>1, <2>2, GoesOn DEF Post, Off, Strict, Seeking, Holding
<1>5. QED
  BY <1>3, <1>4

\* Nothing is stored into a claimed box.
LEMMA SwapDataCarries == ASSUME Settled, NEW t \in Call, SwapData(t) PROVE Carries(t)
<1>0. PICK b : b = th[t].box
  OBVIOUS
<1>1. /\ th[t].pc = "swapData" /\ ~Committed(t) /\ UNCHANGED config
      /\ UNCHANGED <<slot, value>> /\ UNCHANGED gap
  BY DEF SwapData, At, Committed, Post, shared
<1>2. Kind(t) \in {"Store", "Swap"} /\ IsSimple(b) /\ b \in Makers /\ SameShape(b, t)
  BY <1>0, <1>1, Bases DEF TraceOK, Holding, SameShape
<1>3. CASE data[b] = Dead
  <2>1. PICK p \in {"find2", "put"} : Goto(t, p) /\ UNCHANGED data
    BY <1>0, <1>3 DEF SwapData, AfterFast
  <2>2. Comes(t, p, th[t].ent, th[t].box, th[t].word)
    BY <1>1, <2>1, GotoComes DEF Tidying
  <2>3. QED
    BY <1>1, <2>1, <2>2, GoesOn DEF Post, Off, Strict, Seeking, Holding
<1>4. CASE data[b] # Dead
  <2>1. PICK r : /\ r = Answer(IF Kind(t) = "Swap" THEN data[b] ELSE Nil, TRUE)
                 /\ data' = [data EXCEPT ![b] = op[t].val] /\ Return(t, r)
    BY <1>0, <1>4 DEF SwapData
  <2>2. Stops(t, "done", r)
    BY <1>1, <2>1, ReturnStops
  <2>3. Kind(t) \in {"Store", "Clear", "CleanupNow"} => r = Answer(Nil, TRUE)
    BY <2>1
  <2>4. TraceOK(t)' /\ Committed(t)' /\ Outcome(t)' = r
    <3>1. PICK p \in {"done", "resize"} : Stops(t, p, r)
      BY <2>2
    <3>2. QED
      BY <2>3, <3>1, AnswerKnows
  <2>5. t \in Makers /\ op[t].val \in Value /\ op[t].val # Dead
    BY <1>2, NoLimits DEF Makers
  <2>6. After(op[t], data[b]) = op[t].val /\ r = Answers(op[t], data[b])
    <3>1. CASE Kind(t) = "Store"
      BY <2>1, <3>1, WritersMean DEF Kind
    <3>2. CASE Kind(t) = "Swap"
      <4>1. data[b] # Nil /\ r = Answer(data[b], TRUE)
        BY <1>2, <1>4, <2>1, <3>2, WordIs
      <4>2. Answer(data[b], data[b] # Nil) = Answer(data[b], TRUE)
        BY <4>1 DEF Answer
      <4>3. QED
        BY <3>2, <4>1, <4>2, WritersMean DEF Kind
    <3>3. QED
      BY <1>2, <3>1, <3>2
  <2>7. Alike(op[t].val, b)
    BY <1>2, <2>5, ShapeIs
  <2>8. QED
    BY <1>0, <1>1, <1>2, <1>4, <2>1, <2>2, <2>4, <2>5, <2>6, <2>7, InPlace DEF Stops, Holding
<1>5. QED
  BY <1>3, <1>4

\* Any box may be replaced as a whole.
LEMMA InlineBoxCarries == ASSUME Settled, NEW t \in Call, InlineBox(t) PROVE Carries(t)
<1>0. PICK b : b = value[th[t].ent]
  OBVIOUS
<1>1. /\ th[t].pc = "inlineBox" /\ ~Committed(t) /\ UNCHANGED config
      /\ UNCHANGED <<slot, value, data>> /\ UNCHANGED gap
  BY DEF InlineBox, At, Committed, Post, shared
<1>2. th[t].ent \in Obj
  BY <1>1, Bases DEF CallOK, HoldsOK
<1>3. CASE b # Nil /\ exp[b] = 0 /\ ~Depleted(b)
  <2>1. Set(t, [pc |-> "inlineCAS", box |-> b])
    BY <1>0, <1>3 DEF InlineBox
  <2>2. Comes(t, "inlineCAS", th[t].ent, b, th[t].word)
    BY <1>1, <2>1, BoxComes DEF Tidying
  <2>3. QED
    BY <1>0, <1>1, <1>2, <1>3, <2>2, GoesOn DEF Post, Off, Strict, Seeking
<1>4. CASE ~(b # Nil /\ exp[b] = 0 /\ ~Depleted(b))
  <2>1. Goto(t, "put")
    BY <1>0, <1>4 DEF InlineBox
  <2>2. Comes(t, "put", th[t].ent, th[t].box, th[t].word)
    BY <1>1, <2>1, GotoComes DEF Tidying
  <2>3. QED
    BY <1>1, <2>2, GoesOn DEF Post, Off, Strict, Seeking, Holding
<1>5. QED
  BY <1>3, <1>4

-------------------------------------------------------------------------------
\* A call that takes effect on the table does so behind all others.
LEMMA AtEnd ==
    ASSUME Settled, NEW t \in Call, Acts(t), ~Committed(t), Committed(t)', TraceOK(t)', BoxesOK',
           UNCHANGED data, gap => gap', slot' \in Obj \cup {Nil},
           \A e \in Obj : e # slot' => value'[e] = value[e],
           NEW v, v = IF InSlot = Nil THEN Nil ELSE Word(InSlot),
           Outcome(t)' = Answers(op[t], v),
           \/ InSlot' = Nil /\ After(op[t], v) = Nil
           \/ InSlot' = t /\ t \in Makers /\ After(op[t], v) = op[t].val,
           InSlot # Nil => Steady(op[t]) \/ (slot' = slot /\ ~Live(InSlot))
    PROVE  Carries(t)
<1>1. ASSUME NEW order, NEW h, NEW pos, Explained(order, h, pos)
      PROVE  \E o, g, ps : Explained(o, g, ps)'
  <2>1. h[Len(order)] = v
    BY <1>1, PosFacts
  <2>2. /\ Outcome(t)' = Answers(op[t], h[Len(order)])
        /\ \/ InSlot' = Nil /\ After(op[t], h[Len(order)]) = Nil
           \/ InSlot' = t /\ t \in Makers /\ After(op[t], h[Len(order)]) = op[t].val
    BY <2>1
  <2>3. QED
    BY <1>1, <2>2, LastKeeps
<1>2. QED
  BY <1>1 DEF Carries

\* The entry points to a box that no entry has pointed to, or to none.
LEMMA BoxStored ==
    ASSUME Settled, NEW t \in Call, Acts(t), UNCHANGED data, th[t].pc \notin Post,
           NEW e \in Obj, t \in Makers, value' = [value EXCEPT ![e] = t]
    PROVE  BoxesOK'
<1>1. /\ Makers' = Makers /\ op' = op /\ noClone' = noClone
      /\ \A b : HasMeta(b)' = HasMeta(b) /\ Typ(b)' = Typ(b)
  BY ActsKeep DEF Acts, config
<1>2. \A f \in Obj : value[f] # t
  BY DEF Settled, Inv, Published
<1>3. value'[e] = t /\ \A f \in Obj \ {e} : value'[f] = value[f]
  BY Bases
<1>4. QED
  BY <1>1, <1>2, <1>3 DEF Settled, BoxesOK, Alike, Tracked

\* It points to none.
LEMMA BoxTaken ==
    ASSUME Settled, NEW t \in Call, Acts(t), UNCHANGED data, NEW e \in Obj,
           value' = [value EXCEPT ![e] = Nil]
    PROVE  BoxesOK'
<1>1. /\ Makers' = Makers /\ op' = op /\ noClone' = noClone
      /\ \A b : HasMeta(b)' = HasMeta(b) /\ Typ(b)' = Typ(b)
  BY ActsKeep DEF Acts, config
<1>2. value'[e] = Nil /\ \A f \in Obj \ {e} : value'[f] = value[f]
  BY Bases
<1>3. QED
  BY <1>1, <1>2 DEF Settled, BoxesOK, Alike, Tracked

\* Store replaces the box outside the gate: of the entry in the table behind all
\* others, of another before the calls that took the entry away.
LEMMA InlineCASCarries == ASSUME Settled, NEW t \in Call, InlineCAS(t) PROVE Carries(t)
<1>0. PICK e, b : e = th[t].ent /\ b = th[t].box
  OBVIOUS
<1>1. /\ th[t].pc = "inlineCAS" /\ ~Committed(t) /\ UNCHANGED config
      /\ UNCHANGED <<slot, data>> /\ UNCHANGED gap /\ th[t].pc \notin Post
  BY DEF InlineCAS, At, Committed, Post, shared
<1>2. Kind(t) = "Store" /\ e \in Obj /\ b \in Makers /\ t \in Makers /\ b # Nil /\ t \in Obj
  BY <1>0, <1>1, Bases, SeesBox DEF CallOK, KindOK, HoldsOK, Makers, Holding
<1>3. CASE value[e] = b
  <2>1. value' = [value EXCEPT ![e] = t] /\ Goto(t, "inlineCount")
    BY <1>0, <1>3 DEF InlineCAS, PointsTo, Point
  <2>2. Comes(t, "inlineCount", e, b, th[t].word)
    BY <1>0, <1>1, <2>1, GotoComes DEF Tidying
  <2>3. value'[e] = t /\ \A f \in Obj \ {e} : value'[f] = value[f]
    BY <1>2, <2>1, Bases
  <2>4. th[t].res = Answer(Nil, TRUE)
    BY <1>2, Bases DEF TraceOK
  <2>5. TraceOK(t)' /\ Committed(t)' /\ Outcome(t)' = Answer(Nil, TRUE) /\ Acts(t)
    <3>1. PICK p, r : Stops(t, p, r) /\ p = "inlineCount" /\ r = Answer(Nil, TRUE)
      BY <2>2, <2>4 DEF Comes, Stops
    <3>2. /\ p \in {"done", "resize", "drain", "rebuild", "rebuildCount", "publish", "inlineCount"}
          /\ p # "publish"
          /\ Kind(t) \in {"Store", "Clear", "CleanupNow"} => r = Answer(Nil, TRUE)
      BY <3>1
    <3>3. TraceOK(t)' /\ Committed(t)' /\ Outcome(t)' = r
      BY <3>1, <3>2, EndKnows
    <3>4. QED
      BY <3>1, <3>3 DEF Stops
  <2>6. BoxesOK'
    BY <1>1, <1>2, <2>1, <2>5, BoxStored
  <2>7. \A v : /\ After(op[t], v) = op[t].val /\ Answers(op[t], v) = Answer(Nil, TRUE)
               /\ Steady(op[t])
    BY <1>2, WritersMean DEF Kind, Steady
  <2>8. CASE e = slot
    <3>1. /\ InSlot' = t /\ slot' \in Obj \cup {Nil}
          /\ \A f \in Obj : f # slot' => value'[f] = value[f]
      BY <1>1, <1>2, <2>3, <2>8, Bases DEF InSlot
    <3>2. PICK v : v = IF InSlot = Nil THEN Nil ELSE Word(InSlot)
      OBVIOUS
    <3>3. QED
      BY <1>1, <1>2, <2>5, <2>6, <2>7, <3>1, <3>2, AtEnd
  <2>9. CASE e # slot
    <3>1. ASSUME NEW order, NEW h, NEW pos, Explained(order, h, pos)
          PROVE  \E o, g, ps : Explained(o, g, ps)'
      <4>1. Since(order, th[t].before, pos[value[e]])
        BY <1>0, <1>1, <1>3, <3>1 DEF Explained, BoxOK, Holding
      <4>2. QED
        BY <1>1, <1>2, <1>3, <2>3, <2>5, <2>9, <3>1, <4>1, AsideKeeps
    <3>2. QED
      BY <1>1, <2>5, <2>6, <3>1 DEF Carries
  <2>10. QED
    BY <2>8, <2>9
<1>4. CASE value[e] # b
  <2>1. Goto(t, "put") /\ UNCHANGED value
    BY <1>0, <1>4 DEF InlineCAS, PointsTo
  <2>2. Comes(t, "put", th[t].ent, th[t].box, th[t].word)
    BY <1>1, <2>1, GotoComes DEF Tidying
  <2>3. QED
    BY <1>1, <2>1, <2>2, GoesOn DEF Post, Off, Strict, Seeking, Holding
<1>5. QED
  BY <1>3, <1>4

\* The methods that store without limits.
LEMMA PutKinds ==
    ASSUME Settled, NEW t \in Call, Kind(t) \in Putters
    PROVE  /\ Kind(t) \in {"Store", "Swap", "LoadOrStore"} /\ t \in Makers
           /\ Again(t) \in {"current", "replace"}
           /\ Kind(t) = "Store" => Stored(t) = Answer(Nil, TRUE)
           /\ Kind(t) = "Swap" => Stored(t) = Answer(Nil, FALSE)
           /\ Kind(t) = "LoadOrStore" => Stored(t) = Answer(op[t].val, FALSE)
  BY Bases DEF Putters, Storing, Swaps, LoadOrStores, Limiting, Makers, Stored, Again

\* What such a call answers and leaves, by the content it finds.
LEMMA PutMeans ==
    ASSUME Settled, NEW t \in Call, Kind(t) \in Putters, NEW v
    PROVE  /\ Kind(t) = "Store" => Steady(op[t])
           /\ v = Nil => After(op[t], v) = op[t].val /\ Answers(op[t], v) = Stored(t)
           /\ Kind(t) = "Store" => After(op[t], v) = op[t].val /\ Answers(op[t], v) = Stored(t)
           /\ Kind(t) = "Swap" =>
                After(op[t], v) = op[t].val /\ Answers(op[t], v) = Answer(v, v # Nil)
<1>1. ASSUME Kind(t) = "Store"
      PROVE  /\ Steady(op[t]) /\ After(op[t], v) = op[t].val /\ Answers(op[t], v) = Stored(t)
  <2>1. Stored(t) = Answer(Nil, TRUE)
    BY <1>1, PutKinds
  <2>2. QED
    BY <1>1, <2>1, WritersMean DEF Kind, Steady
<1>2. ASSUME Kind(t) = "Swap"
      PROVE  /\ After(op[t], v) = op[t].val /\ Answers(op[t], v) = Answer(v, v # Nil)
             /\ v = Nil => Answers(op[t], v) = Stored(t)
  <2>1. Stored(t) = Answer(Nil, FALSE)
    BY <1>2, PutKinds
  <2>2. After(op[t], v) = op[t].val /\ Answers(op[t], v) = Answer(v, v # Nil)
    BY <1>2, WritersMean DEF Kind
  <2>3. v = Nil => Answer(v, v # Nil) = Answer(Nil, FALSE)
    BY DEF Answer
  <2>4. QED
    BY <2>1, <2>2, <2>3
<1>3. ASSUME Kind(t) = "LoadOrStore", v = Nil
      PROVE  After(op[t], v) = op[t].val /\ Answers(op[t], v) = Stored(t)
  <2>1. Stored(t) = Answer(op[t].val, FALSE)
    BY <1>3, PutKinds
  <2>2. /\ After(op[t], v) = IF v = Nil THEN op[t].val ELSE v
        /\ Answers(op[t], v) = Answer(IF v = Nil THEN op[t].val ELSE v, v # Nil)
    BY <1>3, WritersMean DEF Kind
  <2>3. Answer(IF v = Nil THEN op[t].val ELSE v, v # Nil) = Answer(op[t].val, FALSE)
    BY <1>3 DEF Answer
  <2>4. QED
    BY <1>3, <2>1, <2>2, <2>3
<1>4. Kind(t) \in {"Store", "Swap", "LoadOrStore"}
  BY PutKinds
<1>5. QED
  BY <1>1, <1>2, <1>3, <1>4

\* Store's counters follow.
LEMMA InlineCountCarries == ASSUME Settled, NEW t \in Call, InlineCount(t) PROVE Carries(t)
<1>1. /\ th[t].pc = "inlineCount" /\ Committed(t) /\ Outcome(t) = th[t].res /\ UNCHANGED config
      /\ UNCHANGED <<slot, value, data>> /\ UNCHANGED gap
  BY DEF InlineCount, At, Committed, Post, shared, Outcome
<1>2. Stops(t, "done", th[t].res)
  BY <1>1, Bases DEF InlineCount, HasLocals, Goto, Set, With, Tidy, Stops, Acts, Fields
<1>3. PICK p, r :
        p \in {"done", "resize"} /\ Stops(t, p, r) /\ r = th[t].res
  BY <1>2
<1>4. Kind(t) \in {"Store", "Clear", "CleanupNow"} => r = Answer(Nil, TRUE)
  BY <1>3, Bases DEF TraceOK
<1>5. TraceOK(t)' /\ Committed(t)' /\ Outcome(t)' = r
  BY <1>3, <1>4, AnswerKnows
<1>6. QED
  BY <1>1, <1>3, <1>5, CarriesDone DEF Stops

\* The control word follows the slot.
LEMMA PublishCarries == ASSUME Settled, NEW t \in Call, Publish(t) PROVE Carries(t)
<1>1. /\ th[t].pc = "publish" /\ Committed(t) /\ Outcome(t) = Stored(t) /\ UNCHANGED config
      /\ UNCHANGED <<slot, value, data>> /\ UNCHANGED gap
  BY DEF Publish, At, Committed, Post, shared, Outcome
<1>2. Kind(t) \in Putters
  BY <1>1, Bases DEF CallOK, KindOK
<1>3. PICK p \in {"done", "resize"} : Set(t, [pc |-> p, res |-> Stored(t)])
  BY DEF Publish, EndWith
<1>4. PICK r : r = Stored(t)
  OBVIOUS
<1>5. Stops(t, p, r)
  BY <1>1, <1>3, <1>4, AnswerStops
<1>6. Kind(t) \in {"Store", "Clear", "CleanupNow"} => r = Answer(Nil, TRUE)
  BY <1>2, <1>4, PutKinds
<1>7. TraceOK(t)' /\ Committed(t)' /\ Outcome(t)' = r
  BY <1>5, <1>6, AnswerKnows
<1>8. QED
  BY <1>1, <1>4, <1>5, <1>7, CarriesDone DEF Stops

\* Inside the gate a call finds the slot empty, or an entry there.
LEMMA PutProbeCarries == ASSUME Settled, NEW t \in Call, PutProbe(t) PROVE Carries(t)
<1>1. /\ th[t].pc = "put" /\ ~Committed(t) /\ UNCHANGED config
      /\ UNCHANGED <<slot, value, data>> /\ UNCHANGED gap
  BY DEF PutProbe, At, Committed, Post, shared
<1>2. CASE slot = Nil
  <2>1. Comes(t, "insert", th[t].ent, th[t].box, th[t].word)
    BY <1>1, <1>2, GotoComes DEF PutProbe, Tidying
  <2>2. QED
    BY <1>1, <2>1, GoesOn DEF Post, Off, Strict, Seeking, Holding
<1>3. CASE slot # Nil
  <2>1. PICK p \in {"scan", "replace"} : Set(t, [pc |-> p, ent |-> slot])
    BY <1>3 DEF PutProbe
  <2>2. Comes(t, p, slot, th[t].box, th[t].word)
    BY <1>1, <2>1, EntComes DEF Tidying
  <2>3. QED
    BY <1>1, <2>1, <2>2, GoesOn DEF Post, Off, Strict, Holding
<1>4. QED
  BY <1>2, <1>3

\* The entry in the slot gets the box of a call.
LEMMA SlotGets ==
    ASSUME Settled, NEW t \in Call, Acts(t), ~Committed(t), th[t].pc \notin Post,
           Committed(t)', TraceOK(t)', t \in Makers, UNCHANGED <<slot, data>>, gap => gap',
           slot # Nil, value' = [value EXCEPT ![slot] = t],
           NEW v, v = IF InSlot = Nil THEN Nil ELSE Word(InSlot),
           Outcome(t)' = Answers(op[t], v), After(op[t], v) = op[t].val,
           InSlot # Nil => Steady(op[t]) \/ ~Live(InSlot)
    PROVE  Carries(t)
<1>1. slot \in Obj
  BY Bases
<1>2. BoxesOK'
  BY <1>1, BoxStored
<1>3. value'[slot] = t /\ \A e \in Obj : e # slot => value'[e] = value[e]
  BY <1>1, Bases
<1>4. InSlot' = t
  BY <1>3 DEF InSlot
<1>5. QED
  BY <1>1, <1>2, <1>3, <1>4, AtEnd

\* An insertion into the empty slot, behind all others.
LEMMA InsertCarries == ASSUME Settled, NEW t \in Call, Insert(t) PROVE Carries(t)
<1>1. /\ th[t].pc = "insert" /\ ~Committed(t) /\ UNCHANGED config /\ th[t].pc \notin Post
      /\ UNCHANGED data /\ UNCHANGED gap
  BY DEF Insert, At, Committed, Post, shared
<1>2. Kind(t) \in Putters /\ t \in Makers /\ t \in Obj
  BY <1>1, Bases, PutKinds DEF CallOK, KindOK
<1>3. CASE slot = Nil
  <2>1. slot' = t /\ value' = [value EXCEPT ![t] = t] /\ Goto(t, "publish")
    BY <1>3 DEF Insert
  <2>2. Comes(t, "publish", th[t].ent, th[t].box, th[t].word)
    BY <1>1, <2>1, GotoComes DEF Tidying
  <2>3. PICK p, r : Stops(t, p, r) /\ p = "publish" /\ r = th[t].res
    BY <2>2 DEF Comes, Stops
  <2>4. /\ p \in {"done", "resize", "drain", "rebuild", "rebuildCount", "publish", "inlineCount"}
        /\ Kind(t) \in {"Store", "Clear", "CleanupNow"} => r = Answer(Nil, TRUE)
    BY <2>3, Bases DEF TraceOK
  <2>5. TraceOK(t)' /\ Committed(t)'
    BY <2>3, <2>4, EndKnows
  <2>6. Acts(t) /\ op' = op
    BY <2>3 DEF Stops, Acts, config
  <2>7. Outcome(t)' = Stored(t)
    BY <2>3, <2>6 DEF Outcome, At, Stops, Stored, Kind
  <2>8. BoxesOK'
    BY <1>1, <1>2, <2>1, <2>6, BoxStored
  <2>9. value'[t] = t /\ \A e \in Obj : e # t => value'[e] = value[e]
    BY <1>2, <2>1, Bases
  <2>10. InSlot' = t /\ InSlot = Nil
    BY <1>2, <1>3, <2>1, <2>9, Bases DEF InSlot
  <2>11. PICK v : v = Nil
    OBVIOUS
  <2>12. After(op[t], v) = op[t].val /\ Answers(op[t], v) = Stored(t)
    BY <1>2, <2>11, PutMeans
  <2>13. QED
    BY <1>1, <1>2, <2>1, <2>5, <2>6, <2>7, <2>8, <2>9, <2>10, <2>11, <2>12, AtEnd
<1>4. CASE slot # Nil
  <2>1. Goto(t, "put") /\ UNCHANGED <<slot, value>>
    BY <1>4 DEF Insert
  <2>2. Comes(t, "put", th[t].ent, th[t].box, th[t].word)
    BY <1>1, <2>1, GotoComes DEF Tidying
  <2>3. QED
    BY <1>1, <2>1, <2>2, GoesOn DEF Post, Off, Strict, Seeking, Holding
<1>5. QED
  BY <1>3, <1>4

\* A revival of the entry in the slot.
LEMMA ReviveCarries == ASSUME Settled, NEW t \in Call, Revive(t) PROVE Carries(t)
<1>1. /\ th[t].pc = "revive" /\ ~Committed(t) /\ UNCHANGED config /\ th[t].pc \notin Post
      /\ UNCHANGED <<slot, data>> /\ UNCHANGED gap
  BY DEF Revive, At, Committed, Post, shared
<1>2. Kind(t) \in Putters /\ slot # Nil /\ th[t].ent = slot
  BY <1>1, Bases DEF CallOK, KindOK, GateOK, Working
<1>3. CASE PointsTo(t, Nil)
  <2>1. value' = [value EXCEPT ![slot] = t] /\ EndWith(t, Stored(t))
    BY <1>2, <1>3 DEF Revive, Point
  <2>2. PICK p, r :
        p \in {"done", "resize"} /\ Set(t, [pc |-> p, res |-> r]) /\ r = Stored(t)
    BY <2>1 DEF EndWith
  <2>3. Stops(t, p, r)
    BY <1>1, <2>2, AnswerStops
  <2>4. Kind(t) \in {"Store", "Clear", "CleanupNow"} => r = Answer(Nil, TRUE)
    BY <1>2, <2>2, PutKinds
  <2>5. TraceOK(t)' /\ Committed(t)' /\ Outcome(t)' = r /\ Acts(t)
    BY <2>2, <2>3, <2>4, AnswerKnows DEF Stops
  <2>6. PICK v : v = Nil
    OBVIOUS
  <2>7. InSlot = Nil
    BY <1>2, <1>3 DEF InSlot, PointsTo
  <2>8. After(op[t], v) = op[t].val /\ Answers(op[t], v) = Stored(t) /\ t \in Makers
    BY <1>2, <2>6, PutMeans, PutKinds
  <2>9. QED
    BY <1>1, <1>2, <2>1, <2>2, <2>5, <2>6, <2>7, <2>8, SlotGets
<1>4. CASE ~PointsTo(t, Nil)
  <2>1. PICK p \in {"current", "replace"} : Goto(t, p) /\ UNCHANGED value
    BY <1>2, <1>4, PutKinds DEF Revive
  <2>2. Comes(t, p, th[t].ent, th[t].box, th[t].word)
    BY <1>1, <2>1, GotoComes DEF Tidying
  <2>3. QED
    BY <1>1, <2>1, <2>2, GoesOn DEF Post, Off, Strict, Seeking, Holding
<1>5. QED
  BY <1>3, <1>4

\* The box is looked at, and its word is kept for the answer of Swap.
LEMMA ReplaceOrReviveCarries ==
    ASSUME Settled, NEW t \in Call, ReplaceOrRevive(t) PROVE Carries(t)
<1>0. PICK b : b = value[th[t].ent]
  OBVIOUS
<1>1. /\ th[t].pc = "replace" /\ ~Committed(t) /\ UNCHANGED config
      /\ UNCHANGED <<slot, value, data>> /\ UNCHANGED gap
  BY DEF ReplaceOrRevive, At, Committed, Post, shared
<1>2. /\ Kind(t) \in Putters \ LoadOrStores /\ th[t].ent = slot /\ slot # Nil /\ slot \in Obj
  BY <1>1, Bases DEF CallOK, KindOK, GateOK, Working
<1>3. CASE b = Nil
  <2>1. Comes(t, "revive", th[t].ent, th[t].box, th[t].word)
    BY <1>0, <1>1, <1>3, GotoComes DEF ReplaceOrRevive, Tidying
  <2>2. QED
    BY <1>1, <2>1, GoesOn DEF Post, Off, Strict, Seeking, Holding
<1>4. CASE b # Nil
  <2>1. b \in Makers /\ ~Expired(b) /\ ~Depleted(b)
    BY <1>0, <1>2, <1>4, Bases, NoLimits
  <2>2. Set(t, [pc |-> "replaceCAS", box |-> b, word |-> data[b]])
    BY <1>0, <1>4, <2>1 DEF ReplaceOrRevive
  <2>3. Comes(t, "replaceCAS", th[t].ent, b, data[b])
    BY <1>1, <2>2, Bases DEF HasLocals, Set, With, Tidy, Comes, Acts, Fields
  <2>4. Kind(t) # "LoadOrStore" /\ (Kind(t) = "Swap" => HasMeta(b))
    <3>1. Kind(t) = "Swap" => ~Lasting
      BY <1>1 DEF Settled, StaysOK
    <3>2. QED
      BY <1>2, <2>1, <3>1 DEF LoadOrStores, Settled, Orderly
  <2>5. TraceOK(t)'
    BY <1>1, <2>1, <2>3, <2>4, Knows DEF Off
  <2>6. QED
    BY <1>0, <1>1, <1>2, <1>4, <2>3, <2>5, GoesOn DEF Post, Off, Seeking
<1>5. QED
  BY <1>3, <1>4

\* What a call that replaces the box in the slot answers and leaves.
LEMMA ReplacedMeans ==
    ASSUME Settled, NEW t \in Call, th[t].pc \in {"replaceCAS", "casBox"},
           NEW b, b = th[t].box, NEW v, v = Word(b)
    PROVE  /\ t \in Makers /\ b \in Makers
           /\ Replaced(t) = Answers(op[t], v) /\ After(op[t], v) = op[t].val
           /\ Steady(op[t]) \/ ~Live(b)
           /\ Kind(t) \in {"Store", "Clear", "CleanupNow"} => Replaced(t) = Answer(Nil, TRUE)
<1>1. TraceOK(t) /\ b \in Makers
  BY Bases DEF TraceOK, Holding
<1>2. ASSUME th[t].pc = "casBox"
      PROVE  /\ Kind(t) = "CompareAndSwap" /\ t \in Makers
             /\ Replaced(t) = Answers(op[t], v) /\ After(op[t], v) = op[t].val
             /\ ~Live(b)
  <2>1. Kind(t) = "CompareAndSwap" /\ HasMeta(b) /\ data[b] = op[t].old
    BY <1>1, <1>2 DEF TraceOK
  <2>2. v = op[t].old
    BY <1>1, <2>1, NoLimits, WordIs DEF Settled, BoxesOK
  <2>3. Replaced(t) = Answer(Nil, TRUE)
    BY <2>1 DEF Replaced, Swaps
  <2>4. After(op[t], v) = op[t].val /\ Answers(op[t], v) = Answer(Nil, v = op[t].old)
    BY <2>1, <2>2, WritersMean DEF Kind
  <2>5. Answer(Nil, v = op[t].old) = Answer(Nil, TRUE)
    BY <2>2 DEF Answer
  <2>6. QED
    BY <2>1, <2>3, <2>4, <2>5 DEF Makers, Live, IsSimple
<1>3. ASSUME th[t].pc = "replaceCAS"
      PROVE  /\ Kind(t) \in Putters
             /\ Replaced(t) = Answers(op[t], v) /\ After(op[t], v) = op[t].val
             /\ Steady(op[t]) \/ ~Live(b)
             /\ Kind(t) \in {"Store", "Clear", "CleanupNow"} => Replaced(t) = Answer(Nil, TRUE)
  <2>1. Kind(t) \in Putters
    BY <1>3, Bases DEF CallOK, KindOK
  <2>2. Kind(t) \in {"Store", "Swap", "LoadOrStore"}
    BY <2>1, PutKinds
  <2>3. CASE Kind(t) = "Store"
    <3>1. Replaced(t) = Stored(t)
      BY <2>3 DEF Replaced, Swaps
    <3>2. QED
      BY <2>1, <2>3, <3>1, PutMeans, PutKinds
  <2>4. CASE Kind(t) = "Swap"
    <3>1. HasMeta(b) /\ data[b] = th[t].word
      BY <1>1, <1>3, <2>4 DEF TraceOK
    <3>2. data[b] # Dead
      BY <1>1, <3>1, NoLimits DEF Settled, BoxesOK
    <3>3. v = th[t].word /\ v # Nil
      BY <1>1, <3>1, <3>2, WordIs
    <3>4. Replaced(t) = Answer(v, TRUE)
      BY <2>4, <3>1, <3>2, <3>3 DEF Replaced, Swaps
    <3>5. After(op[t], v) = op[t].val /\ Answers(op[t], v) = Answer(v, v # Nil)
      BY <2>1, <2>4, PutMeans
    <3>6. Answer(v, v # Nil) = Answer(v, TRUE)
      BY <3>3 DEF Answer
    <3>7. QED
      BY <2>1, <2>4, <3>1, <3>4, <3>5, <3>6 DEF Live, IsSimple
  <2>5. CASE Kind(t) = "LoadOrStore"
    <3>1. data[b] = Dead
      BY <1>1, <1>3, <2>5 DEF TraceOK
    <3>2. v = Nil
      BY <1>1, <3>1, WordIs
    <3>3. Replaced(t) = Stored(t)
      BY <2>5 DEF Replaced, Swaps
    <3>4. QED
      BY <2>1, <2>5, <3>1, <3>2, <3>3, PutMeans DEF Live
  <2>6. QED
    BY <2>2, <2>3, <2>4, <2>5
<1>4. QED
  BY <1>1, <1>2, <1>3, PutKinds

\* The box that was looked at is replaced, or the call looks again.
LEMMA ReplaceBoxCarries ==
    ASSUME Settled, NEW t \in Call, th[t].pc \in {"replaceCAS", "casBox"},
           NEW a \in {"current", "replace", "match"}, ReplaceBox(t, a)
    PROVE  Carries(t)
<1>0. PICK b : b = th[t].box
  OBVIOUS
<1>1. /\ ~Committed(t) /\ UNCHANGED config /\ th[t].pc \notin Post /\ th[t].pc # "done"
      /\ UNCHANGED <<slot, data>> /\ UNCHANGED gap
  BY DEF ReplaceBox, At, Committed, Post, shared
<1>2. slot # Nil /\ th[t].ent = slot
  BY Bases DEF CallOK, GateOK, Working
<1>3. CASE PointsTo(t, b)
  <2>1. value' = [value EXCEPT ![slot] = t] /\ EndWith(t, Replaced(t))
    BY <1>0, <1>2, <1>3 DEF ReplaceBox, Point
  <2>2. PICK p, r :
        p \in {"done", "resize"} /\ Set(t, [pc |-> p, res |-> r]) /\ r = Replaced(t)
    BY <2>1 DEF EndWith
  <2>3. Stops(t, p, r)
    BY <1>1, <2>2, AnswerStops
  <2>4. PICK v : v = Word(b)
    OBVIOUS
  <2>5. /\ t \in Makers /\ b \in Makers /\ r = Answers(op[t], v) /\ After(op[t], v) = op[t].val
        /\ Steady(op[t]) \/ ~Live(b)
        /\ Kind(t) \in {"Store", "Clear", "CleanupNow"} => r = Answer(Nil, TRUE)
    BY <1>0, <2>2, <2>4, ReplacedMeans
  <2>6. TraceOK(t)' /\ Committed(t)' /\ Outcome(t)' = r /\ Acts(t)
    BY <2>2, <2>3, <2>5, AnswerKnows DEF Stops
  <2>7. InSlot = b /\ b # Nil
    BY <1>2, <1>3, <2>5, NoLimits, Bases DEF InSlot, PointsTo
  <2>8. v = IF InSlot = Nil THEN Nil ELSE Word(InSlot)
    BY <2>4, <2>7
  <2>9. InSlot # Nil => Steady(op[t]) \/ ~Live(InSlot)
    BY <2>5, <2>7
  <2>10. QED
    BY <1>1, <1>2, <2>1, <2>5, <2>6, <2>8, <2>9, SlotGets
<1>4. CASE ~PointsTo(t, b)
  <2>1. Goto(t, a) /\ UNCHANGED value
    BY <1>0, <1>4 DEF ReplaceBox
  <2>2. Comes(t, a, th[t].ent, th[t].box, th[t].word)
    BY <1>1, <2>1, GotoComes DEF Tidying
  <2>3. QED
    BY <1>1, <2>1, <2>2, GoesOn DEF Post, Off, Strict, Seeking, Holding
<1>5. QED
  BY <1>3, <1>4

\* In both places.
LEMMA ReplacesCarry ==
    ASSUME Settled, NEW t \in Call, ReplaceCAS(t) \/ SwapBox(t) PROVE Carries(t)
<1>1. CASE ReplaceCAS(t)
  <2>1. Kind(t) \in Putters
    BY <1>1, Bases DEF CallOK, KindOK, ReplaceCAS, At
  <2>2. PICK a \in {"current", "replace", "match"} : ReplaceBox(t, a)
    BY <1>1, <2>1, PutKinds DEF ReplaceCAS
  <2>3. QED
    BY <1>1, <2>2, ReplaceBoxCarries DEF ReplaceCAS, At
<1>2. CASE SwapBox(t)
  <2>1. PICK a \in {"current", "replace", "match"} : ReplaceBox(t, a)
    BY <1>2 DEF SwapBox
  <2>2. QED
    BY <1>2, <2>1, ReplaceBoxCarries DEF SwapBox, At
<1>3. QED
  BY <1>1, <1>2

\* LoadOrStore's lookups outside the gate.
LEMMA LookupFindCarries == ASSUME Settled, NEW t \in Call, LookupFind(t) PROVE Carries(t)
<1>1. /\ th[t].pc \in {"los1", "los2"} /\ ~Committed(t) /\ UNCHANGED config /\ th[t].pc # "done"
      /\ UNCHANGED <<slot, value, data>> /\ UNCHANGED gap
  BY DEF LookupFind, At, Committed, Post, shared
<1>2. CASE Found = Nil
  <2>1. PICK p \in {"los2", "put"} : Goto(t, p)
    BY <1>2 DEF LookupFind
  <2>2. Comes(t, p, th[t].ent, th[t].box, th[t].word)
    BY <1>1, <2>1, GotoComes DEF Tidying
  <2>3. QED
    BY <1>1, <2>1, <2>2, GoesOn DEF Post, Off, Strict, Seeking, Holding
<1>3. CASE Found # Nil
  <2>1. Set(t, [pc |-> "losBox", ent |-> Found, ok |-> th[t].pc])
    BY <1>3 DEF LookupFind
  <2>2. Comes(t, "losBox", slot, th[t].box, th[t].word)
    BY <1>1, <1>3, <2>1, FoundIs, Bases DEF HasLocals, Set, With, Tidy, Comes, Acts, Fields
  <2>3. QED
    BY <1>1, <2>2, GoesOn DEF Post, Off, Strict, Holding
<1>4. QED
  BY <1>2, <1>3

\* The box it finds there.
LEMMA LookupBoxCarries == ASSUME Settled, NEW t \in Call, LookupBox(t) PROVE Carries(t)
<1>0. PICK b : b = value[th[t].ent]
  OBVIOUS
<1>1. /\ th[t].pc = "losBox" /\ ~Committed(t) /\ UNCHANGED config
      /\ UNCHANGED <<slot, value, data>> /\ UNCHANGED gap
  BY DEF LookupBox, At, Committed, Post, shared
<1>2. th[t].ent \in Obj
  BY <1>1, Bases DEF CallOK, HoldsOK
<1>3. CASE b # Nil /\ exp[b] = 0 /\ hits[b] = 0
  <2>1. Set(t, [pc |-> "losVal", box |-> b])
    BY <1>0, <1>3 DEF LookupBox
  <2>2. Comes(t, "losVal", th[t].ent, b, th[t].word)
    BY <1>1, <2>1, BoxComes DEF Tidying
  <2>3. QED
    BY <1>0, <1>1, <1>2, <1>3, <2>2, GoesOn DEF Post, Off, Strict, Seeking
<1>4. CASE ~(b # Nil /\ exp[b] = 0 /\ hits[b] = 0)
  <2>1. PICK p \in {"los2", "put"} : Goto(t, p)
    BY <1>0, <1>4 DEF LookupBox, AfterLookup
  <2>2. Comes(t, p, th[t].ent, th[t].box, th[t].word)
    BY <1>1, <2>1, GotoComes DEF Tidying
  <2>3. QED
    BY <1>1, <2>1, <2>2, GoesOn DEF Post, Off, Strict, Seeking, Holding
<1>5. QED
  BY <1>3, <1>4

\* A live value is answered.
LEMMA LiveValue ==
    ASSUME Settled, NEW t \in Call, th[t].pc \in {"losVal", "scanVal"},
           UNCHANGED config, UNCHANGED <<slot, value, data>>, UNCHANGED gap,
           data[th[t].box] # Dead, Return(t, Answer(data[th[t].box], TRUE))
    PROVE  Carries(t)
<1> DEFINE b == th[t].box
<1>1. ~Committed(t) /\ th[t].pc # "done"
  BY DEF At, Committed, Post
<1>2. b \in Makers /\ Sees(t, Word(b))
  BY <1>1, SeesBox DEF Holding
<1>3. Kind(t) = "LoadOrStore"
  BY Bases DEF CallOK, KindOK, LoadOrStores, Limiting
<1>4. Stops(t, "done", Answer(data[b], TRUE))
  BY <1>1, ReturnStops
<1>5. Word(b) = data[b] /\ data[b] # Nil
  BY <1>2, WordIs
<1>6. After(op[t], data[b]) = data[b] /\ Answers(op[t], data[b]) = Answer(data[b], TRUE)
  BY <1>3, <1>5, ReadMeans
<1>7. QED
  BY <1>1, <1>2, <1>3, <1>4, <1>5, <1>6, Replies

\* A claimed box is passed over.
LEMMA LookupValCarries == ASSUME Settled, NEW t \in Call, LookupVal(t) PROVE Carries(t)
<1>1. /\ th[t].pc = "losVal" /\ ~Committed(t) /\ UNCHANGED config
      /\ UNCHANGED <<slot, value, data>> /\ UNCHANGED gap
  BY DEF LookupVal, At, Committed, Post, shared
<1>2. CASE data[th[t].box] = Dead
  <2>1. PICK p \in {"los2", "put"} : Goto(t, p)
    BY <1>2 DEF LookupVal, AfterLookup
  <2>2. Comes(t, p, th[t].ent, th[t].box, th[t].word)
    BY <1>1, <2>1, GotoComes DEF Tidying
  <2>3. QED
    BY <1>1, <2>1, <2>2, GoesOn DEF Post, Off, Strict, Seeking, Holding
<1>3. CASE data[th[t].box] # Dead
  <2>1. Return(t, Answer(data[th[t].box], TRUE))
    BY <1>3 DEF LookupVal
  <2>2. QED
    BY <1>1, <1>3, <2>1, LiveValue
<1>4. QED
  BY <1>2, <1>3

\* The scan of the entry in the slot, inside the gate.
LEMMA ScanCarries == ASSUME Settled, NEW t \in Call, Scan(t) PROVE Carries(t)
<1>0. PICK b : b = value[th[t].ent]
  OBVIOUS
<1>1. /\ th[t].pc \in {"scan", "current"} /\ ~Committed(t) /\ UNCHANGED config
      /\ UNCHANGED <<slot, value, data>> /\ UNCHANGED gap /\ th[t].pc # "done"
  BY DEF Scan, At, Committed, Post, shared
<1>2. /\ th[t].ent = slot /\ slot # Nil /\ slot \in Obj
  BY <1>1, Bases DEF CallOK, GateOK, Working
<1>3. CASE b = Nil
  <2>1. PICK p \in {"build", "revive"} : Goto(t, p)
    BY <1>0, <1>3 DEF Scan
  <2>2. Comes(t, p, th[t].ent, th[t].box, th[t].word)
    BY <1>1, <2>1, GotoComes DEF Tidying
  <2>3. QED
    BY <1>1, <2>1, <2>2, GoesOn DEF Post, Off, Strict, Seeking, Holding
<1>4. CASE b # Nil
  <2>1. b \in Makers /\ ~Expired(b) /\ ~Depleted(b)
    BY <1>0, <1>2, <1>4, Bases, NoLimits
  <2>2. Set(t, [pc |-> "scanVal", box |-> b,
                ok |-> IF At(t, "scan") THEN "build" ELSE "replaceCAS"])
    BY <1>0, <1>4, <2>1 DEF Scan
  <2>3. Comes(t, "scanVal", th[t].ent, b, th[t].word)
    BY <1>1, <2>2, Bases DEF HasLocals, Set, With, Tidy, Comes, Acts, Fields
  <2>4. QED
    BY <1>0, <1>1, <1>2, <1>4, <2>3, GoesOn DEF Post, Off, Strict, Seeking
<1>5. QED
  BY <1>3, <1>4

\* A live value is answered, a claimed box replaced.
LEMMA ScanValCarries == ASSUME Settled, NEW t \in Call, ScanVal(t) PROVE Carries(t)
<1>0. PICK b : b = th[t].box
  OBVIOUS
<1>1. /\ th[t].pc = "scanVal" /\ ~Committed(t) /\ UNCHANGED config
      /\ UNCHANGED <<slot, value, data>> /\ UNCHANGED gap
  BY DEF ScanVal, At, Committed, Post, shared
<1>2. /\ Kind(t) = "LoadOrStore" /\ th[t].ok \in {"build", "replaceCAS"} /\ b \in Makers
  BY <1>0, <1>1, Bases, SeesBox
     DEF CallOK, KindOK, PathsOK, LoadOrStores, Limiting, Holding
<1>3. CASE data[b] = Dead
  <2>1. PICK p \in {"build", "replaceCAS"} : Goto(t, p)
    BY <1>0, <1>2, <1>3 DEF ScanVal
  <2>2. Comes(t, p, th[t].ent, b, th[t].word)
    BY <1>0, <1>1, <2>1, GotoComes DEF Tidying
  <2>3. TraceOK(t)'
    BY <1>1, <1>2, <1>3, <2>1, <2>2, Knows DEF Off, Holding
  <2>4. QED
    BY <1>0, <1>1, <2>1, <2>2, <2>3, GoesOn DEF Post, Off, Seeking, Holding
<1>4. CASE data[b] # Dead
  <2>1. Return(t, Answer(data[th[t].box], TRUE))
    BY <1>0, <1>4 DEF ScanVal, LeaveWith
  <2>2. QED
    BY <1>0, <1>1, <1>4, <2>1, LiveValue
<1>5. QED
  BY <1>3, <1>4

\* The box is built.
LEMMA BuildBoxCarries == ASSUME Settled, NEW t \in Call, BuildBox(t) PROVE Carries(t)
<1>1. /\ th[t].pc = "build" /\ ~Committed(t) /\ UNCHANGED config
      /\ UNCHANGED <<slot, value, data>> /\ UNCHANGED gap
  BY DEF BuildBox, At, Committed, Post, shared
<1>2. Comes(t, "current", th[t].ent, th[t].box, th[t].word)
  BY <1>1, GotoComes DEF BuildBox, Tidying
<1>3. QED
  BY <1>1, <1>2, GoesOn DEF Post, Off, Strict, Seeking, Holding

-------------------------------------------------------------------------------
\* The removals and CompareAndSwap, without limits.
LEMMA MatchKinds ==
    ASSUME Settled, NEW t \in Call, Kind(t) \in Matchers
    PROVE  /\ Kind(t) \in {"Delete", "CompareAndDelete", "CompareAndSwap"}
           /\ Kind(t) \in Removals \cup {"CompareAndSwap"}
           /\ Kind(t) \notin {"Store", "Clear", "CleanupNow"}
  BY Bases DEF Matchers, Removals, Limiting

\* Such a call answers that there is nothing.
LEMMA MatchAbsent ==
    ASSUME Settled, NEW t \in Call, Kind(t) \in Matchers, UNCHANGED config,
           UNCHANGED <<slot, value, data>>, gap => gap', ~Committed(t), th[t].pc # "done",
           ~gap' => Sees(t, Nil), Return(t, Absent)
    PROVE  Carries(t)
<1>1. Stops(t, "done", Absent)
  BY ReturnStops
<1>2. After(op[t], Nil) = Nil /\ Answers(op[t], Nil) = Absent
  BY MatchKinds, AbsentMeans
<1>3. QED
  BY <1>1, <1>2, MatchKinds, Replies

\* It answers that the value is another.
LEMMA MatchMisses ==
    ASSUME Settled, NEW t \in Call, Kind(t) \in {"CompareAndDelete", "CompareAndSwap"},
           UNCHANGED config, UNCHANGED <<slot, value, data>>, gap => gap',
           ~Committed(t), th[t].pc # "done",
           NEW v, v # op[t].old, Sees(t, v), Return(t, Absent)
    PROVE  Carries(t)
<1>1. Stops(t, "done", Absent)
  BY ReturnStops
<1>2. After(op[t], v) = v /\ Answers(op[t], v) = Absent
  BY AbsentMeans
<1>3. QED
  BY <1>1, <1>2, Replies

\* The lookup inside the gate.
LEMMA GateFindCarries == ASSUME Settled, NEW t \in Call, GateFind(t) PROVE Carries(t)
<1>1. /\ th[t].pc = "gateFind" /\ ~Committed(t) /\ UNCHANGED config
      /\ UNCHANGED <<slot, value, data>>
      /\ gap => gap'
      /\ ~gap' => ~MissedInGap
  BY DEF GateFind, At, Committed, Post, shared
<1>2. Kind(t) \in Matchers
  BY <1>1, Bases DEF CallOK, KindOK
<1>3. CASE Found = Nil
  <2>1. Return(t, Absent)
    BY <1>3 DEF GateFind, LeaveWith
  <2>2. ~gap' => Sees(t, Nil)
    BY <1>1, <1>3, FoundIs, SeesSlot
  <2>3. QED
    BY <1>1, <1>2, <2>1, <2>2, MatchAbsent
<1>4. CASE Found # Nil
  <2>1. Set(t, [pc |-> "match", ent |-> Found])
    BY <1>4 DEF GateFind
  <2>2. Comes(t, "match", slot, th[t].box, th[t].word)
    BY <1>1, <1>4, <2>1, FoundIs, EntComes DEF Tidying
  <2>3. QED
    BY <1>1, <2>2, GoesOn DEF Post, Off, Strict, Seeking, Holding
<1>5. QED
  BY <1>3, <1>4

\* The box in the slot: Delete claims a simple one without a look at its value.
LEMMA MatchBoxCarries == ASSUME Settled, NEW t \in Call, MatchBox(t) PROVE Carries(t)
<1>0. PICK b : b = value[th[t].ent]
  OBVIOUS
<1>1. /\ th[t].pc = "match" /\ ~Committed(t) /\ UNCHANGED config
      /\ UNCHANGED <<slot, value, data>> /\ UNCHANGED gap
  BY DEF MatchBox, At, Committed, Post, shared
<1>2. Kind(t) \in Matchers /\ th[t].ent = slot /\ slot # Nil /\ slot \in Obj
  BY <1>1, Bases DEF CallOK, KindOK, GateOK, Working
<1>3. CASE b = Nil
  <2>1. Return(t, Absent)
    BY <1>0, <1>3 DEF MatchBox, LeaveWith
  <2>2. Sees(t, Nil)
    BY <1>0, <1>2, <1>3, SeesEntry
  <2>3. QED
    BY <1>1, <1>2, <2>1, <2>2, MatchAbsent
<1>4. CASE b # Nil
  <2>1. b \in Makers /\ ~Expired(b) /\ ~Depleted(b)
    BY <1>0, <1>2, <1>4, Bases, NoLimits
  <2>2. PICK p : /\ Set(t, [box |-> b, pc |-> p])
                 /\ p = IF Kind(t) = "Delete" /\ IsSimple(b) THEN "claim" ELSE "matchVal"
    BY <1>0, <1>4, <2>1 DEF MatchBox
  <2>3. Comes(t, p, th[t].ent, b, th[t].word)
    BY <1>1, <2>2, Bases DEF HasLocals, Set, With, Tidy, Comes, Acts, Fields
  <2>4. TraceOK(t)'
    BY <1>1, <2>1, <2>2, <2>3, Knows DEF Off, Holding
  <2>5. p \in {"claim", "matchVal"}
    BY <2>2
  <2>6. QED
    BY <1>0, <1>1, <1>2, <1>4, <2>3, <2>4, <2>5, GoesOn DEF Post, Off, Seeking
<1>5. QED
  BY <1>3, <1>4

\* The comparison.
LEMMA MatchValCarries == ASSUME Settled, NEW t \in Call, MatchVal(t) PROVE Carries(t)
<1>0. PICK b, d : b = th[t].box /\ d = data[b]
  OBVIOUS
<1>1. /\ th[t].pc = "matchVal" /\ ~Committed(t) /\ UNCHANGED config
      /\ UNCHANGED <<slot, value, data>> /\ UNCHANGED gap
  BY DEF MatchVal, At, Committed, Post, shared
<1>2. Kind(t) \in Matchers /\ b \in Makers /\ Sees(t, Word(b))
  BY <1>0, <1>1, Bases, SeesBox DEF CallOK, KindOK, Holding
<1>3. Kind(t) \in {"Delete", "CompareAndDelete", "CompareAndSwap"}
  BY <1>2, MatchKinds
<1>4. CASE d = Dead
  <2>1. Return(t, Absent)
    BY <1>0, <1>4 DEF MatchVal, LeaveWith
  <2>2. Sees(t, Nil)
    BY <1>0, <1>2, <1>4, WordIs
  <2>3. QED
    BY <1>1, <1>2, <2>1, <2>2, MatchAbsent
<1>5. CASE d # Dead /\ Kind(t) # "Delete" /\ d # op[t].old
  <2>1. Return(t, Absent)
    BY <1>0, <1>5 DEF MatchVal, LeaveWith
  <2>2. Sees(t, d)
    BY <1>0, <1>2, <1>5, WordIs
  <2>3. QED
    BY <1>1, <1>3, <1>5, <2>1, <2>2, MatchMisses
<1>6. CASE d # Dead /\ (Kind(t) = "Delete" \/ d = op[t].old)
  <2>1. PICK p : /\ Set(t, [pc |-> p, word |-> d])
                 /\ p = IF Kind(t) \in Removals
                        THEN IF IsSimple(b) THEN "claim" ELSE "unlink"
                        ELSE IF SameShape(b, t) THEN "replaceData" ELSE "casBox"
    BY <1>0, <1>6 DEF MatchVal
  <2>2. p \in {"claim", "unlink", "replaceData", "casBox"}
    BY <2>1
  <2>3. Comes(t, p, th[t].ent, b, d)
    BY <1>0, <1>1, <2>1, <2>2, WordComes DEF Tidying
  <2>4. /\ p \in {"claim", "unlink"} => Kind(t) \in {"Delete", "CompareAndDelete"}
        /\ p \in {"replaceData", "casBox"} => Kind(t) = "CompareAndSwap" /\ d = op[t].old
        /\ p = "claim" => IsSimple(b) /\ (Kind(t) = "CompareAndDelete" => d = op[t].old)
        /\ p = "unlink" => ~IsSimple(b) /\ (Kind(t) = "CompareAndDelete" => d = op[t].old)
    BY <1>3, <1>6, <2>1 DEF Removals
  <2>5. p = "replaceData" => SameShape(b, t)
    BY <2>1
  <2>6. p = "casBox" => HasMeta(b)
    <3> SUFFICES ASSUME p = "casBox", IsSimple(b) PROVE FALSE
      BY DEF IsSimple
    <3>1. ~SameShape(b, t) /\ t \in Makers /\ Kind(t) = "CompareAndSwap" /\ d = op[t].old
      BY <1>3, <1>6, <2>1 DEF Removals, Makers
    <3>2. Alike(d, b)
      BY <1>0, <1>2, <1>6 DEF Settled, BoxesOK
    <3>3. Tracked(d) \/ Alike(d, t)
      BY <3>1 DEF Settled, Orderly
    <3>4. QED
      BY <3>1, <3>2, <3>3 DEF SameShape, Alike, IsSimple
  <2>7. TraceOK(t)'
    BY <1>0, <1>1, <1>2, <2>2, <2>3, <2>4, <2>5, <2>6, Knows DEF Off, Holding, IsSimple
  <2>8. CASE p # "unlink"
    BY <1>0, <1>1, <2>2, <2>3, <2>7, <2>8, GoesOn DEF Post, Off, Seeking, Holding
  <2>9. CASE p = "unlink"
    <3>1. Acts(t) /\ th'[t].pc = p /\ th'[t].box = b
      BY <2>3 DEF Comes
    <3>2. ~Committed(t)'
      BY <2>4, <2>9, <3>1, ActsKeep DEF Committed, At, Post
    <3>3. QED
      BY <1>0, <1>1, <2>7, <2>9, <3>1, <3>2, CarriesOn DEF Seeking, Holding
  <2>10. QED
    BY <2>8, <2>9
<1>7. QED
  BY <1>4, <1>5, <1>6

\* What is compared with is a value.
LEMMA OldIs == ASSUME Settled, NEW t \in Call PROVE op[t].old # Dead
<1>1. op[t] \in Operations
  BY Basics DEF Settled
<1>2. op[t].old \in Value \cup {Nil}
  BY <1>1 DEF Operations
<1>3. QED
  BY <1>2, NamesAssumption

\* A claim takes effect as it is made.
LEMMA ClaimCarries == ASSUME Settled, NEW t \in Call, Claim(t) PROVE Carries(t)
<1>0. PICK b : b = th[t].box
  OBVIOUS
<1>1. /\ th[t].pc = "claim" /\ ~Committed(t) /\ UNCHANGED config
      /\ UNCHANGED <<slot, value>> /\ UNCHANGED gap
  BY DEF Claim, At, Committed, Post, shared
<1>2. /\ b \in Makers /\ IsSimple(b) /\ Kind(t) \in {"Delete", "CompareAndDelete"}
      /\ Kind(t) = "CompareAndDelete" => th[t].word = op[t].old
      /\ Kind(t) \in Matchers
  BY <1>0, <1>1, Bases DEF TraceOK, Holding, Matchers, Removals
<1>3. PICK mine : mine = IF Kind(t) = "Delete" THEN data[b] # Dead ELSE data[b] = th[t].word
  OBVIOUS
<1>4. CASE mine
  <2>1. data' = [data EXCEPT ![b] = Dead] /\ Set(t, [pc |-> "unlink", word |-> data[b]])
    BY <1>0, <1>3, <1>4 DEF Claim
  <2>2. Comes(t, "unlink", th[t].ent, b, data[b])
    BY <1>0, <1>1, <2>1, WordComes DEF Tidying
  <2>3. b \in Obj /\ data'[b] = Dead /\ ~HasMeta(b)
    BY <1>2, <2>1, NoLimits, Bases
  <2>4. TraceOK(t)'
    BY <1>2, <2>2, <2>3, Knows DEF Off, Holding
  <2>5. /\ Acts(t) /\ th'[t].pc = "unlink" /\ th'[t].box = b /\ th'[t].word = data[b]
        /\ Kind(t)' = Kind(t) /\ (IsSimple(b)' <=> IsSimple(b))
    BY <2>2, ActsKeep DEF Comes
  <2>6. Committed(t)'
    BY <1>2, <2>5 DEF Committed, At
  <2>7. Outcome(t)' = Answer(IF Kind(t) = "Delete" THEN data[b] ELSE Nil, TRUE)
    BY <2>5 DEF Outcome, At
  <2>8. data[b] # Dead /\ data[b] # Nil
    <3>1. Kind(t) = "CompareAndDelete" => op[t].old # Dead
      BY OldIs
    <3>2. QED
      BY <1>2, <1>3, <1>4, <3>1, WordIs
  <2>9. /\ After(op[t], data[b]) = Nil
        /\ Answers(op[t], data[b]) = Answer(IF Kind(t) = "Delete" THEN data[b] ELSE Nil, TRUE)
    <3>1. CASE Kind(t) = "Delete"
      <4>1. After(op[t], data[b]) = Nil /\ Answers(op[t], data[b]) = Answer(data[b], data[b] # Nil)
        BY <3>1, OthersMean DEF Kind
      <4>2. Answer(data[b], data[b] # Nil) = Answer(data[b], TRUE)
        BY <2>8 DEF Answer
      <4>3. QED
        BY <3>1, <4>1, <4>2
    <3>2. CASE Kind(t) = "CompareAndDelete"
      <4>1. data[b] = op[t].old
        BY <1>2, <1>3, <1>4, <3>2
      <4>2. /\ After(op[t], data[b]) = IF data[b] = op[t].old THEN Nil ELSE data[b]
            /\ Answers(op[t], data[b]) = Answer(Nil, data[b] = op[t].old)
        BY <3>2, OthersMean DEF Kind
      <4>3. Answer(Nil, data[b] = op[t].old) = Answer(Nil, TRUE)
        BY <4>1 DEF Answer
      <4>4. QED
        BY <3>2, <4>1, <4>2, <4>3
    <3>3. QED
      BY <1>2, <3>1, <3>2
  <2>10. QED
    BY <1>0, <1>1, <1>2, <2>1, <2>4, <2>5, <2>6, <2>7, <2>8, <2>9, InPlace DEF Holding
<1>5. CASE ~mine /\ Kind(t) = "Delete"
  <2>1. Return(t, Absent) /\ UNCHANGED data
    BY <1>0, <1>3, <1>5 DEF Claim, LeaveWith
  <2>2. Sees(t, Nil)
    BY <1>0, <1>1, <1>2, <1>3, <1>5, SeesBox, WordIs DEF Holding
  <2>3. QED
    BY <1>1, <1>2, <2>1, <2>2, MatchAbsent
<1>6. CASE ~mine /\ Kind(t) # "Delete"
  <2>1. Goto(t, "match") /\ UNCHANGED data
    BY <1>0, <1>3, <1>6 DEF Claim
  <2>2. Comes(t, "match", th[t].ent, th[t].box, th[t].word)
    BY <1>1, <2>1, GotoComes DEF Tidying
  <2>3. QED
    BY <1>1, <2>1, <2>2, GoesOn DEF Post, Off, Strict, Seeking, Holding
<1>7. QED
  BY <1>4, <1>5, <1>6

\* CompareAndSwap replaces exactly the word that it compared.
LEMMA ReplaceDataCarries == ASSUME Settled, NEW t \in Call, ReplaceData(t) PROVE Carries(t)
<1>0. PICK b : b = th[t].box
  OBVIOUS
<1>1. /\ th[t].pc = "replaceData" /\ ~Committed(t) /\ UNCHANGED config
      /\ UNCHANGED <<slot, value>> /\ UNCHANGED gap
  BY DEF ReplaceData, At, Committed, Post, shared
<1>2. /\ b \in Makers /\ IsSimple(b) /\ Kind(t) = "CompareAndSwap" /\ th[t].word = op[t].old
      /\ t \in Makers /\ SameShape(b, t)
  BY <1>0, <1>1, Bases DEF TraceOK, Holding, Makers, SameShape
<1>3. CASE data[b] = th[t].word
  <2>1. data' = [data EXCEPT ![b] = op[t].val] /\ EndWith(t, Answer(Nil, TRUE))
    BY <1>0, <1>3 DEF ReplaceData
  <2>2. PICK p, r :
        p \in {"done", "resize"} /\ Set(t, [pc |-> p, res |-> r]) /\ r = Answer(Nil, TRUE)
    BY <2>1 DEF EndWith
  <2>3. Stops(t, p, r)
    BY <1>1, <2>2, AnswerStops
  <2>4. TraceOK(t)' /\ Committed(t)' /\ Outcome(t)' = r /\ Acts(t)
    BY <2>2, <2>3, AnswerKnows DEF Stops
  <2>5. data[b] # Dead /\ op[t].val \in Value /\ op[t].val # Dead
    <3>1. op[t].old # Dead
      BY OldIs
    <3>2. QED
      BY <1>2, <1>3, <3>1, NoLimits
  <2>6. /\ After(op[t], data[b]) = IF data[b] = op[t].old THEN op[t].val ELSE data[b]
        /\ Answers(op[t], data[b]) = Answer(Nil, data[b] = op[t].old)
    BY <1>2, WritersMean DEF Kind
  <2>7. Answer(Nil, data[b] = op[t].old) = Answer(Nil, TRUE)
    BY <1>2, <1>3 DEF Answer
  <2>8. After(op[t], data[b]) = op[t].val /\ Answers(op[t], data[b]) = r
    BY <1>2, <1>3, <2>2, <2>6, <2>7
  <2>9. Alike(op[t].val, b)
    BY <1>2, ShapeIs
  <2>10. QED
    BY <1>0, <1>1, <1>2, <2>1, <2>4, <2>5, <2>8, <2>9, InPlace DEF Holding
<1>4. CASE data[b] # th[t].word
  <2>1. Goto(t, "match") /\ UNCHANGED data
    BY <1>0, <1>4 DEF ReplaceData
  <2>2. Comes(t, "match", th[t].ent, th[t].box, th[t].word)
    BY <1>1, <2>1, GotoComes DEF Tidying
  <2>3. QED
    BY <1>1, <2>1, <2>2, GoesOn DEF Post, Off, Strict, Seeking, Holding
<1>5. QED
  BY <1>3, <1>4

\* CompareAndSwap's comparison outside the gate.
LEMMA PreFindCarries == ASSUME Settled, NEW t \in Call, PreFind(t) PROVE Carries(t)
<1>1. /\ th[t].pc = "preFind" /\ ~Committed(t) /\ UNCHANGED config
      /\ UNCHANGED <<slot, value, data>>
      /\ gap => gap'
      /\ ~gap' => ~MissedInGap
  BY DEF PreFind, At, Committed, Post, shared
<1>2. Kind(t) \in Matchers
  BY <1>1, Bases DEF CallOK, KindOK
<1>3. CASE Found = Nil
  <2>1. Return(t, Absent)
    BY <1>3 DEF PreFind
  <2>2. ~gap' => Sees(t, Nil)
    BY <1>1, <1>3, FoundIs, SeesSlot
  <2>3. QED
    BY <1>1, <1>2, <2>1, <2>2, MatchAbsent
<1>4. CASE Found # Nil
  <2>1. Set(t, [pc |-> "preBox", ent |-> Found])
    BY <1>4 DEF PreFind
  <2>2. Comes(t, "preBox", slot, th[t].box, th[t].word)
    BY <1>1, <1>4, <2>1, FoundIs, EntComes DEF Tidying
  <2>3. Kind(t) = "CompareAndSwap"
    BY <1>1, Bases DEF TraceOK
  <2>4. TraceOK(t)'
    BY <1>1, <2>2, <2>3, Knows DEF Off, Holding
  <2>5. QED
    BY <1>1, <2>2, <2>4, GoesOn DEF Post, Off, Holding
<1>5. QED
  BY <1>3, <1>4

\* Its box.
LEMMA PreBoxCarries == ASSUME Settled, NEW t \in Call, PreBox(t) PROVE Carries(t)
<1>0. PICK b : b = value[th[t].ent]
  OBVIOUS
<1>1. /\ th[t].pc = "preBox" /\ ~Committed(t) /\ UNCHANGED config
      /\ UNCHANGED <<slot, value, data>> /\ UNCHANGED gap
  BY DEF PreBox, At, Committed, Post, shared
<1>2. Kind(t) \in Matchers /\ th[t].ent \in Obj
  BY <1>1, Bases DEF CallOK, KindOK, HoldsOK
<1>3. CASE b = Nil
  <2>1. Return(t, Absent)
    BY <1>0, <1>3 DEF PreBox
  <2>2. Sees(t, Nil)
    BY <1>0, <1>1, <1>2, <1>3, SeesEntry DEF Seeking
  <2>3. QED
    BY <1>1, <1>2, <2>1, <2>2, MatchAbsent
<1>4. CASE b # Nil
  <2>1. b \in Obj /\ exp[b] = 0 /\ ~Depleted(b)
    BY <1>0, <1>2, <1>4, Bases, NoLimits
  <2>2. Set(t, [pc |-> "preVal", box |-> b])
    BY <1>0, <1>4, <2>1 DEF PreBox
  <2>3. Comes(t, "preVal", th[t].ent, b, th[t].word)
    BY <1>1, <2>2, BoxComes DEF Tidying
  <2>4. Kind(t) = "CompareAndSwap" /\ b \in Makers
    BY <1>0, <1>1, <1>2, <1>4, Bases DEF TraceOK
  <2>5. TraceOK(t)'
    BY <1>1, <2>3, <2>4, Knows DEF Off, Holding
  <2>6. QED
    BY <1>0, <1>1, <1>2, <1>4, <2>3, <2>5, GoesOn DEF Post, Off, Seeking
<1>5. QED
  BY <1>3, <1>4

\* The call enters the gate only if the value is the one it compares with.
LEMMA PreValCarries == ASSUME Settled, NEW t \in Call, PreVal(t) PROVE Carries(t)
<1>0. PICK b, d : b = th[t].box /\ d = data[b]
  OBVIOUS
<1>1. /\ th[t].pc = "preVal" /\ ~Committed(t) /\ UNCHANGED config
      /\ UNCHANGED <<slot, value, data>> /\ UNCHANGED gap
  BY DEF PreVal, At, Committed, Post, shared
<1>2. Kind(t) \in Matchers /\ b \in Makers /\ Sees(t, Word(b))
  BY <1>0, <1>1, Bases, SeesBox DEF CallOK, KindOK, Holding
<1>3. CASE d = op[t].old
  <2>1. Comes(t, "gateFind", th[t].ent, th[t].box, th[t].word)
    BY <1>0, <1>1, <1>3, GotoComes DEF PreVal, Tidying
  <2>2. QED
    BY <1>1, <2>1, GoesOn DEF Post, Off, Strict, Seeking, Holding
<1>4. CASE d # op[t].old
  <2>1. Return(t, Absent)
    BY <1>0, <1>4 DEF PreVal
  <2>2. CASE d = Dead
    BY <1>0, <1>1, <1>2, <2>1, <2>2, WordIs, MatchAbsent
  <2>3. CASE d # Dead
    <3>1. Sees(t, d)
      BY <1>0, <1>2, <2>3, WordIs
    <3>2. Kind(t) \in {"CompareAndDelete", "CompareAndSwap"}
      BY <1>1, Bases DEF TraceOK
    <3>3. QED
      BY <1>1, <1>4, <2>1, <3>1, <3>2, MatchMisses
  <2>4. QED
    BY <2>2, <2>3
<1>5. QED
  BY <1>3, <1>4

\* A call that unwinds has no effect.
LEMMA UserPanicsCarries == ASSUME Settled, NEW t \in Call, UserPanics(t) PROVE Carries(t)
<1>1. /\ th[t].pc \in {"preVal", "matchVal", "insert", "build"} /\ ~Committed(t) /\ UNCHANGED config
      /\ UNCHANGED <<slot, value, data>> /\ UNCHANGED gap /\ th[t].pc # "done"
  BY DEF UserPanics, At, Committed, Post, shared
<1>2. Comes(t, "panic", th[t].ent, th[t].box, th[t].word)
  BY <1>1, GotoComes DEF UserPanics, Tidying
<1>3. QED
  BY <1>1, <1>2, GoesOn DEF Post, Off, Strict, Seeking, Holding

-------------------------------------------------------------------------------
\* The slot is left without a live box, by a call that has taken effect: an
\* order stays one.
LEMMA OrderEmptied ==
    ASSUME Settled, NEW t \in Call, Acts(t), UNCHANGED data,
           Committed(t), Committed(t)', Outcome(t)' = Outcome(t),
           InSlot' = Nil, InSlot = Nil \/ data[InSlot] = Dead, slot' \in {slot, Nil},
           \A e \in Obj : e # slot => value'[e] = value[e],
           slot \in Obj => value'[slot] = Nil,
           NEW order, NEW h, NEW pos, Explained(order, h, pos)
    PROVE  Explained(order, h, pos)'
<1>1. /\ Makers' = Makers /\ First' = First /\ Before' = Before /\ op' = op
      /\ \A b : IsSimple(b)' = IsSimple(b)
      /\ \A u \in Call \ {t} : (Committed(u)' <=> Committed(u)) /\ Outcome(u)' = Outcome(u)
  BY ActsKeep DEF Acts, config
<1>2. \A u \in Call : Committed(u)' <=> Committed(u)
  BY <1>1
<1>3. Account(op, Outcomes, Before, order, h)'
  <2>1. \A u \in Call : Outcomes'[u] = Outcomes[u]
    BY <1>1 DEF Outcomes
  <2>2. \A i \in 1..Len(order) : order[i] \in Call
    BY DEF Explained, Account
  <2>3. \A i \in 1..Len(order) : Outcomes'[order[i]] = Outcomes[order[i]]
    BY <2>1, <2>2
  <2>4. QED
    BY <1>1, <2>3 DEF Explained, Account
<1>4. /\ Len(order) \in Nat
      /\ h[Len(order)] = IF InSlot = Nil THEN Nil ELSE Word(InSlot)
      /\ slot \in Obj \cup {Nil} /\ Nil \notin Obj
  BY PosFacts, Bases
<1>5. h[Len(order)] = Nil
  BY <1>4 DEF Word
<1>6. \A e \in Obj : value'[e] # Nil => e # slot /\ value'[e] = value[e]
  BY <1>4
<1>7. PosOK(order, h, pos)'
  <2>1. \A b : Word(b)' = Word(b) /\ (Live(b)' <=> Live(b))
    BY <1>1 DEF Word, Live
  <2>2. ASSUME NEW b \in DOMAIN pos, b # InSlot', Live(b)' \/ Pointed(b)'
        PROVE  pos[b] < Len(order) /\ Steady(op[order[pos[b] + 1]])
    <3>1. b # Nil
      BY PosFacts
    <3>2. Pointed(b)' => Pointed(b)
      BY <1>6, <3>1 DEF Pointed
    <3>3. b # InSlot
      <4> SUFFICES ASSUME b = InSlot PROVE FALSE
        OBVIOUS
      <4>1. slot \in Obj /\ value[slot] = b /\ data[b] = Dead
        BY <1>4, <3>1 DEF InSlot
      <4>2. ~Live(b)'
        BY <4>1 DEF Live
      <4>3. PICK e \in Obj : value'[e] = b
        BY <2>2, <4>2 DEF Pointed
      <4>4. e # slot /\ value[e] = b
        BY <1>6, <3>1, <4>3
      <4>5. QED
        BY <3>1, <4>1, <4>4 DEF Settled, BoxesOK
    <3>4. QED
      BY <2>1, <2>2, <3>2, <3>3 DEF Explained, PosOK
  <2>3. \A b \in DOMAIN pos : b \in Call => Committed(b)'
    BY <1>2 DEF Explained, PosOK
  <2>4. \A e \in Obj : value'[e] # Nil => value'[e] \in DOMAIN pos
    BY <1>6 DEF Explained, PosOK
  <2>5. QED
    BY <1>1, <1>5, <2>1, <2>2, <2>3, <2>4 DEF Explained, PosOK
<1>8. SeeksOK(order, h, pos, t)' /\ BoxOK(order, pos, t)'
  BY DEF SeeksOK, BoxOK, Committed, Post, Seeking, At
<1>9. ASSUME NEW u \in Call \ {t} PROVE SeeksOK(order, h, pos, u)' /\ BoxOK(order, pos, u)'
  <2>1. th'[u] = th[u] /\ (Committed(u)' <=> Committed(u))
    BY <1>1 DEF Acts
  <2>2. SeeksOK(order, h, pos, u) /\ BoxOK(order, pos, u)
    BY DEF Explained
  <2>3. ASSUME th[u].pc \in Seeking
        PROVE  th[u].ent = slot' \/ FindsOK(order, h, pos, th[u].before, value'[th[u].ent])
    <3>1. th[u].ent \in Obj
      BY <2>3, Bases DEF CallOK, HoldsOK, Seeking
    <3>2. CASE th[u].ent = slot
      <4>1. Since(order, th[u].before, Len(order)) /\ Len(order) \in 0..Len(order)
        BY <1>4 DEF Since
      <4>2. value'[th[u].ent] = Nil
        BY <3>1, <3>2
      <4>3. QED
        BY <1>5, <4>1, <4>2 DEF FindsOK, Known
    <3>3. CASE th[u].ent # slot
      BY <2>2, <2>3, <3>1, <3>3 DEF SeeksOK
    <3>4. QED
      BY <3>2, <3>3
  <2>4. QED
    BY <2>1, <2>2, <2>3 DEF SeeksOK, BoxOK, FindsOK
<1>10. QED
  BY <1>1, <1>2, <1>3, <1>7, <1>8, <1>9 DEF Explained

\* So the invariants stand.
LEMMA CarriesEmptied ==
    ASSUME Settled, NEW t \in Call, Acts(t), UNCHANGED data, gap => gap',
           Committed(t), Committed(t)', TraceOK(t)', BoxesOK', Outcome(t)' = Outcome(t),
           InSlot' = Nil, InSlot = Nil \/ data[InSlot] = Dead, slot' \in {slot, Nil},
           \A e \in Obj : e # slot => value'[e] = value[e],
           slot \in Obj => value'[slot] = Nil
    PROVE  Carries(t)
<1>1. ASSUME NEW order, NEW h, NEW pos, Explained(order, h, pos)
      PROVE  Explained(order, h, pos)'
  BY <1>1, OrderEmptied
<1>2. QED
  BY <1>1 DEF Carries

\* The entry loses its box: a claimed one was removed before, another is now.
LEMMA UnlinkCarries == ASSUME Settled, NEW t \in Call, Unlink(t) PROVE Carries(t)
<1>0. PICK b, q : b = th[t].box /\ q = Answer(IF Kind(t) = "Delete" THEN th[t].word ELSE Nil, TRUE)
  OBVIOUS
<1>1. /\ th[t].pc = "unlink" /\ UNCHANGED config /\ th[t].pc \notin Post
      /\ UNCHANGED <<slot, data>> /\ UNCHANGED gap
      /\ Committed(t) <=> IsSimple(b)
      /\ Outcome(t) = q
  BY <1>0 DEF Unlink, At, Committed, Post, shared, Outcome
<1>2. /\ b \in Makers /\ Kind(t) \in {"Delete", "CompareAndDelete"}
      /\ IsSimple(b) => data[b] = Dead
      /\ HasMeta(b) => /\ data[b] = th[t].word
                       /\ Kind(t) = "CompareAndDelete" => th[t].word = op[t].old
      /\ th[t].ent = slot /\ slot # Nil /\ slot \in Obj /\ b # Nil
  BY <1>0, <1>1, Bases, NoLimits DEF TraceOK, Holding, CallOK, GateOK, Working
<1>3. ASSUME EndWith(t, q)
      PROVE  Acts(t) /\ TraceOK(t)' /\ Committed(t)' /\ Outcome(t)' = q
  <2>1. PICK p, r :
        p \in {"done", "resize"} /\ Set(t, [pc |-> p, res |-> r]) /\ r = q
    BY <1>3 DEF EndWith
  <2>2. Stops(t, p, r)
    BY <1>1, <2>1, AnswerStops
  <2>3. QED
    BY <1>2, <2>1, <2>2, AnswerKnows DEF Stops
<1>4. CASE PointsTo(t, b)
  <2>1. value' = [value EXCEPT ![slot] = Nil] /\ EndWith(t, q)
    BY <1>0, <1>2, <1>4 DEF Unlink, Point
  <2>2. Acts(t) /\ TraceOK(t)' /\ Committed(t)' /\ Outcome(t)' = q
    BY <1>3, <2>1
  <2>3. BoxesOK'
    BY <1>1, <1>2, <2>1, <2>2, BoxTaken
  <2>4. value'[slot] = Nil /\ \A e \in Obj : e # slot => value'[e] = value[e]
    BY <1>2, <2>1, Bases
  <2>5. InSlot = b /\ InSlot' = Nil
    BY <1>1, <1>2, <1>4, <2>4 DEF InSlot, PointsTo
  <2>6. CASE IsSimple(b)
    BY <1>1, <1>2, <2>2, <2>3, <2>4, <2>5, <2>6, CarriesEmptied
  <2>7. CASE HasMeta(b)
    <3>1. data[b] # Dead /\ ~Live(b) /\ ~IsSimple(b)
      BY <1>2, <2>7, NoLimits DEF Settled, BoxesOK, Live, IsSimple
    <3>2. PICK v : v = Word(b)
      OBVIOUS
    <3>3. v = data[b] /\ v # Nil
      BY <1>2, <3>1, <3>2, WordIs
    <3>4. v = IF InSlot = Nil THEN Nil ELSE Word(InSlot)
      BY <1>2, <2>5, <3>2
    <3>5. After(op[t], v) = Nil /\ Answers(op[t], v) = q
      <4>1. CASE Kind(t) = "Delete"
        <5>1. After(op[t], v) = Nil /\ Answers(op[t], v) = Answer(v, v # Nil)
          BY <4>1, OthersMean DEF Kind
        <5>2. Answer(v, v # Nil) = Answer(v, TRUE)
          BY <3>3 DEF Answer
        <5>3. QED
          BY <1>0, <1>2, <2>7, <3>3, <4>1, <5>1, <5>2
      <4>2. CASE Kind(t) = "CompareAndDelete"
        <5>1. v = op[t].old
          BY <1>2, <2>7, <3>3, <4>2
        <5>2. /\ After(op[t], v) = IF v = op[t].old THEN Nil ELSE v
              /\ Answers(op[t], v) = Answer(Nil, v = op[t].old)
          BY <4>2, OthersMean DEF Kind
        <5>3. Answer(Nil, v = op[t].old) = Answer(Nil, TRUE)
          BY <5>1 DEF Answer
        <5>4. QED
          BY <1>0, <4>2, <5>1, <5>2, <5>3
      <4>3. QED
        BY <1>2, <4>1, <4>2
    <3>6. /\ slot' \in Obj \cup {Nil} /\ slot' = slot /\ ~Live(InSlot)
          /\ Outcome(t)' = Answers(op[t], v)
      BY <1>1, <1>2, <2>2, <2>5, <3>1, <3>5
    <3>7. QED
      BY <1>1, <2>2, <2>3, <2>4, <2>5, <3>1, <3>4, <3>5, <3>6, AtEnd
  <2>8. QED
    BY <2>6, <2>7 DEF IsSimple
<1>5. CASE ~PointsTo(t, b) /\ IsSimple(b)
  <2>1. EndWith(t, q) /\ UNCHANGED value
    BY <1>0, <1>5 DEF Unlink, IsSimple
  <2>2. QED
    BY <1>1, <1>3, <1>5, <2>1, CarriesDone
<1>6. CASE ~PointsTo(t, b) /\ HasMeta(b)
  <2>1. Goto(t, "match") /\ UNCHANGED value
    BY <1>0, <1>6 DEF Unlink, IsSimple
  <2>2. Comes(t, "match", th[t].ent, th[t].box, th[t].word)
    BY <1>1, <2>1, GotoComes DEF Tidying
  <2>3. ~Committed(t)
    BY <1>1, <1>6 DEF IsSimple
  <2>4. QED
    BY <1>1, <2>1, <2>2, <2>3, GoesOn DEF Post, Off, Strict, Seeking, Holding
<1>7. QED
  BY <1>4, <1>5, <1>6 DEF IsSimple
-------------------------------------------------------------------------------
\* The sweepers answer nothing.
LEMMA SweeperAnswers ==
    ASSUME Settled, NEW t \in Call, Kind(t) \in Sweepers
    PROVE  /\ th[t].res = Answer(Nil, TRUE)
           /\ Kind(t) = "CleanupNow" => \A v : After(op[t], v) = v /\ Answers(op[t], v) = Answer(Nil, TRUE)
           /\ Kind(t) = "Clear" => /\ Steady(op[t])
                                   /\ \A v : After(op[t], v) = Nil /\ Answers(op[t], v) = Answer(Nil, TRUE)
<1>1. th[t].res = Answer(Nil, TRUE)
  BY Bases DEF TraceOK, Sweepers
<1>2. Kind(t) = "CleanupNow" => \A v : After(op[t], v) = v /\ Answers(op[t], v) = Answer(Nil, TRUE)
  BY OthersMean DEF Kind
<1>3. Kind(t) = "Clear" => \A v : After(op[t], v) = Nil /\ Answers(op[t], v) = Answer(Nil, TRUE)
  BY OthersMean DEF Kind
<1>4. Kind(t) = "Clear" => Steady(op[t])
  BY DEF Kind, Steady
<1>5. QED
  BY <1>1, <1>2, <1>3, <1>4

\* CleanupNow changes nothing without limits.
LEMMA CleanupStartCarries == ASSUME Settled, NEW t \in Call, CleanupStart(t) PROVE Carries(t)
<1>1. /\ th[t].pc = "cleanup" /\ ~Committed(t) /\ UNCHANGED config
      /\ UNCHANGED <<slot, value, data>> /\ UNCHANGED gap
  BY DEF CleanupStart, At, Committed, Post, shared
<1>2. Kind(t) = "CleanupNow" /\ Kind(t) \in Sweepers
  BY <1>1, Bases DEF CallOK, KindOK, Sweepers
<1>3. PICK p \in {"done", "resize"} : Goto(t, p)
  BY DEF CleanupStart
<1>4. PICK r : r = th[t].res
  OBVIOUS
<1>5. Stops(t, p, r)
  BY <1>1, <1>3, <1>4, Bases DEF HasLocals, Goto, Set, With, Tidy, Stops, Acts, Fields
<1>6. PICK v : v = IF InSlot = Nil THEN Nil ELSE Word(InSlot)
  OBVIOUS
<1>7. Sees(t, v)
  BY <1>6, SeesSlot
<1>8. After(op[t], v) = v /\ r = Answers(op[t], v) /\ r = Answer(Nil, TRUE)
  BY <1>2, <1>4, SweeperAnswers
<1>9. QED
  BY <1>1, <1>5, <1>7, <1>8, Replies

\* The labels of a rebuild, and of the calls that come to it.
LEMMA RebuildKnows ==
    ASSUME Settled, NEW t \in Call, th[t].pc \in {"resize", "drain", "rebuild", "rebuildCount"},
           NEW p \in {"done", "drain", "rebuild", "rebuildCount"}, Stops(t, p, th[t].res)
    PROVE  /\ Acts(t) /\ TraceOK(t)' /\ Committed(t) /\ Committed(t)' /\ Outcome(t)' = Outcome(t)
<1>1. Committed(t) /\ Outcome(t) = th[t].res
  BY DEF Committed, Outcome, At, Post
<1>2. PICK r : r = th[t].res
  OBVIOUS
<1>3. Kind(t) \in {"Store", "Clear", "CleanupNow"} => r = Answer(Nil, TRUE)
  BY <1>2, Bases DEF TraceOK
<1>4. TraceOK(t)' /\ Committed(t)' /\ Outcome(t)' = r
  <2>1. Stops(t, p, r) /\ p # "publish"
    BY <1>2
  <2>2. QED
    BY <1>3, <2>1, EndKnows
<1>5. QED
  BY <1>1, <1>2, <1>4 DEF Stops

\* The steps of a rebuild that leave the table alone.
LEMMA RebuildsCarry ==
    ASSUME Settled, NEW t \in Call, ResizeTry(t) \/ Drained(t) \/ RebuildCount(t) PROVE Carries(t)
<1>1. /\ th[t].pc \in {"resize", "drain", "rebuild", "rebuildCount"} /\ UNCHANGED config
      /\ UNCHANGED <<slot, value, data>> /\ UNCHANGED gap
  BY DEF ResizeTry, Drained, RebuildCount, At
<1>2. PICK p \in {"done", "drain", "rebuild", "rebuildCount"} : Stops(t, p, th[t].res)
  <2>1. ASSUME Goto(t, "done") PROVE Stops(t, "done", th[t].res)
    BY <1>1, <2>1, Bases DEF HasLocals, Goto, Set, With, Tidy, Stops, Acts, Fields
  <2>2. ASSUME NEW a, Set(t, [pc |-> "drain", at |-> a]) PROVE Stops(t, "drain", th[t].res)
    BY <1>1, <2>2, Bases DEF HasLocals, Set, With, Tidy, Stops, Acts, Fields
  <2>3. ASSUME NEW n, NEW y, NEW c, Set(t, [pc |-> "rebuild", n |-> n, by |-> y, nc |-> c])
        PROVE  Stops(t, "rebuild", th[t].res)
    BY <1>1, <2>3, Bases DEF HasLocals, Set, With, Tidy, Stops, Acts, Fields
  <2>4. CASE ResizeTry(t)
    <3>1. PICK a : Goto(t, "done") \/ Set(t, [pc |-> "drain", at |-> a])
      BY <2>4 DEF ResizeTry
    <3>2. QED
      BY <2>1, <2>2, <3>1
  <2>5. CASE Drained(t)
    <3>1. PICK n, y, c : \/ Goto(t, "done")
                         \/ Set(t, [pc |-> "rebuild", n |-> n, by |-> y, nc |-> c])
      BY <2>5 DEF Drained
    <3>2. QED
      BY <2>1, <2>3, <3>1
  <2>6. CASE RebuildCount(t)
    BY <2>1, <2>6 DEF RebuildCount
  <2>7. QED
    BY <2>4, <2>5, <2>6
<1>3. /\ Acts(t) /\ TraceOK(t)' /\ Committed(t) /\ Committed(t)' /\ Outcome(t)' = Outcome(t)
  BY <1>1, <1>2, RebuildKnows
<1>4. QED
  BY <1>1, <1>3, CarriesDone

\* The second pass drops an entry without a box.
LEMMA RebuildCarries == ASSUME Settled, NEW t \in Call, Rebuild(t) PROVE Carries(t)
<1>1. /\ th[t].pc = "rebuild" /\ UNCHANGED config
      /\ UNCHANGED <<value, data>> /\ UNCHANGED gap
  BY DEF Rebuild, At
<1>2. Stops(t, "rebuildCount", th[t].res)
  BY <1>1, Bases DEF Rebuild, HasLocals, Goto, Set, With, Tidy, Stops, Acts, Fields
<1>3. /\ Acts(t) /\ TraceOK(t)' /\ Committed(t) /\ Committed(t)' /\ Outcome(t)' = Outcome(t)
  BY <1>1, <1>2, RebuildKnows
<1>4. CASE InSlot = Nil
  <2>1. slot' = Nil
    BY <1>4 DEF Rebuild, Kept
  <2>2. InSlot' = Nil /\ (slot \in Obj => value[slot] = Nil)
    BY <1>4, <2>1, Bases DEF InSlot
  <2>3. BoxesOK'
    BY <1>1, <1>3, BoxesSame
  <2>4. QED
    BY <1>1, <1>3, <1>4, <2>1, <2>2, <2>3, CarriesEmptied
<1>5. CASE InSlot # Nil
  <2>1. InSlot \in Obj
    BY <1>5, Bases DEF InSlot
  <2>2. Kept(t, InSlot)
    BY <1>5, <2>1, NoLimits DEF Kept
  <2>3. slot' = slot
    BY <2>2 DEF Rebuild
  <2>4. QED
    BY <1>1, <1>3, <2>3, CarriesDone
<1>6. QED
  BY <1>4, <1>5

\* Clear waits for the writers.
LEMMA ClearAcquireCarries == ASSUME Settled, NEW t \in Call, ClearAcquire(t) PROVE Carries(t)
<1>1. /\ th[t].pc = "clearAll" /\ ~Committed(t) /\ UNCHANGED config
      /\ UNCHANGED <<slot, value, data>> /\ UNCHANGED gap
  BY DEF ClearAcquire, At, Committed, Post, shared
<1>2. Comes(t, "clearDrain", th[t].ent, th[t].box, th[t].word)
  BY <1>1, GotoComes DEF ClearAcquire, Tidying
<1>3. QED
  BY <1>1, <1>2, GoesOn DEF Post, Off, Strict, Seeking, Holding

\* It takes effect as the empty table is installed.
LEMMA ClearTableCarries == ASSUME Settled, NEW t \in Call, ClearTable(t) PROVE Carries(t)
<1>1. /\ th[t].pc = "clearDrain" /\ ~Committed(t) /\ UNCHANGED config
      /\ UNCHANGED <<value, data>> /\ UNCHANGED gap /\ slot' = Nil
  BY DEF ClearTable, At, Committed, Post, shared
<1>2. Kind(t) = "Clear" /\ Kind(t) \in Sweepers
  BY <1>1, Bases DEF CallOK, KindOK, Sweepers
<1>3. Stops(t, "rebuildCount", th[t].res)
  BY <1>1, Bases DEF ClearTable, HasLocals, Set, With, Tidy, Stops, Acts, Fields
<1>4. PICK p, r : p = "rebuildCount" /\ r = th[t].res
  OBVIOUS
<1>5. /\ r = Answer(Nil, TRUE) /\ Steady(op[t])
      /\ \A v : After(op[t], v) = Nil /\ Answers(op[t], v) = Answer(Nil, TRUE)
  BY <1>2, <1>4, SweeperAnswers
<1>6. TraceOK(t)' /\ Committed(t)' /\ Outcome(t)' = r
  <2>1. /\ Stops(t, p, r) /\ p # "publish"
        /\ p \in {"done", "resize", "drain", "rebuild", "rebuildCount", "publish", "inlineCount"}
    BY <1>3, <1>4
  <2>2. QED
    BY <1>5, <2>1, EndKnows
<1>7. Acts(t)
  BY <1>3 DEF Stops
<1>8. BoxesOK'
  BY <1>1, <1>7, BoxesSame
<1>9. InSlot' = Nil
  BY <1>1 DEF InSlot
<1>10. PICK v : v = IF InSlot = Nil THEN Nil ELSE Word(InSlot)
  OBVIOUS
<1>11. Outcome(t)' = Answers(op[t], v) /\ After(op[t], v) = Nil
  BY <1>5, <1>6
<1>12. QED
  BY <1>1, <1>5, <1>6, <1>7, <1>8, <1>9, <1>10, <1>11, AtEnd

-------------------------------------------------------------------------------
\* The labels that no call comes to without limits.
LEMMA NoneOff ==
    ASSUME Settled, NEW t \in Call
    PROVE  /\ ~ClearIfMatch(t) /\ ~ClearCount(t) /\ ~EndWrite(t) /\ ~MaybeResize(t)
           /\ ~ConsumeHit(t) /\ ~ConsumeReload(t) /\ ~ReadSlow(t)
<1>1. th[t].pc \notin Off
  BY Bases DEF TraceOK, Off
<1>2. /\ ~At(t, "clear") /\ ~At(t, "clearCount") /\ ~At(t, "end") /\ ~At(t, "maybeResize")
      /\ ~At(t, "consume") /\ ~At(t, "reload") /\ ~At(t, "slow")
  BY <1>1 DEF At, Off
<1>3. QED
  BY <1>2 DEF ClearIfMatch, ClearCount, EndWrite, MaybeResize, ConsumeHit, ConsumeReload, ReadSlow

\* Every step of a call.
LEMMA StepCarries == ASSUME Settled, NEW t \in Call, Step(t) PROVE Carries(t)
<1>1. CASE ReadStep(t)
  <2>1. ReadFind(t) \/ RangeSimple(t) \/ RangeSimpleVal(t) \/ ReadBox(t) \/ ReadVal(t)
    BY <1>1, NoneOff DEF ReadStep
  <2>2. QED
    BY <2>1, ReadFindCarries, RangeSimpleCarries, RangeSimpleValCarries, ReadBoxCarries,
       ReadValCarries
<1>2. CASE WriteStep(t)
  <2>1. CASE \/ FastFind(t) \/ FastBox(t) \/ SwapData(t)
             \/ InlineFind(t) \/ InlineBox(t) \/ InlineCAS(t) \/ InlineCount(t)
    BY <2>1, FastFindCarries, FastBoxCarries, SwapDataCarries, InlineFindCarries,
       InlineBoxCarries, InlineCASCarries, InlineCountCarries
  <2>2. CASE \/ PutProbe(t) \/ Insert(t) \/ Publish(t)
             \/ ReplaceOrRevive(t) \/ Revive(t) \/ ReplaceCAS(t)
    BY <2>2, PutProbeCarries, InsertCarries, PublishCarries, ReplaceOrReviveCarries,
       ReviveCarries, ReplacesCarry
  <2>3. CASE \/ LookupFind(t) \/ LookupBox(t) \/ LookupVal(t) \/ Scan(t) \/ ScanVal(t)
             \/ BuildBox(t)
    BY <2>3, LookupFindCarries, LookupBoxCarries, LookupValCarries, ScanCarries,
       ScanValCarries, BuildBoxCarries
  <2>4. CASE GateFind(t) \/ MatchBox(t) \/ MatchVal(t) \/ Claim(t) \/ Unlink(t)
    BY <2>4, GateFindCarries, MatchBoxCarries, MatchValCarries, ClaimCarries, UnlinkCarries
  <2>5. CASE PreFind(t) \/ PreBox(t) \/ PreVal(t) \/ ReplaceData(t) \/ SwapBox(t) \/ UserPanics(t)
    BY <2>5, PreFindCarries, PreBoxCarries, PreValCarries, ReplaceDataCarries, ReplacesCarry,
       UserPanicsCarries
  <2>6. QED
    BY <1>2, <2>1, <2>2, <2>3, <2>4, <2>5 DEF WriteStep
<1>3. CASE RebuildStep(t)
  BY <1>3, CleanupStartCarries, RebuildsCarry, RebuildCarries, ClearAcquireCarries,
     ClearTableCarries DEF RebuildStep
<1>4. QED
  BY <1>1, <1>2, <1>3, NoneOff DEF Step

-------------------------------------------------------------------------------
\* Where a key stays, the entry of Zero stays in the table and has a live box.
LEMMA LastingFacts ==
    ASSUME Settled, Lasting
    PROVE  /\ slot = Zero /\ Zero \in Obj /\ Found = Zero /\ InSlot = value[Zero]
           /\ ctrl = TRUE /\ value[Zero] \in Makers /\ value[Zero] # Nil /\ Nil \notin Obj
           /\ \A b \in Makers : data[b] # Dead /\ op[b].val # Dead
           /\ \A t \in Call : th[t].pc \notin {"claim", "unlink", "clearDrain"}
<1>1. /\ slot = Zero /\ ctrl /\ value[Zero] # Nil /\ \A b \in Makers : data[b] # Dead
  BY DEF Settled, StaysOK
<1>2. Zero \in Obj /\ Zero # Nil
  BY NamesAssumption DEF Obj
<1>3. value[Zero] \in Makers
  BY <1>1, <1>2 DEF Settled, BoxesOK, Alike, Tracked
<1>4. ctrl \in BOOLEAN
  BY DEF Settled, Inv, StateTypes, TypeOK
<1>5. \A b \in Makers : op[b].val # Dead
  BY NoLimits
<1>6. ASSUME NEW t \in Call PROVE th[t].pc \notin {"claim", "unlink", "clearDrain"}
  <2>1. Kind(t) \notin Removals /\ Kind(t) # "Clear"
    BY DEF Lasting
  <2>2. TraceOK(t) /\ KindOK(t)
    BY Bases DEF CallOK
  <2>3. th[t].pc \notin {"claim", "unlink"}
    BY <2>1, <2>2 DEF TraceOK, Removals
  <2>4. th[t].pc # "clearDrain"
    BY <2>1, <2>2 DEF KindOK
  <2>5. QED
    BY <2>3, <2>4
<1>7. Nil \notin Obj
  BY NamesAssumption DEF Obj
<1>8. QED
  BY <1>1, <1>2, <1>3, <1>4, <1>5, <1>6, <1>7 DEF Found, InSlot

\* No step takes it away.
LEMMA TableStays ==
    ASSUME Settled, Lasting, NEW t \in Call, Step(t)
    PROVE  /\ slot' = slot /\ ctrl' = TRUE /\ value'[Zero] # Nil
           /\ \A b \in Makers : data'[b] # Dead
<1>1. /\ slot = Zero /\ Zero \in Obj /\ InSlot = value[Zero] /\ ctrl = TRUE
      /\ value[Zero] \in Makers /\ value[Zero] # Nil /\ Nil \notin Obj
      /\ \A b \in Makers : data[b] # Dead
      /\ th[t].pc \notin {"claim", "unlink", "clearDrain"}
  BY LastingFacts
<1>2. t \in Obj /\ value \in [Obj -> Obj \cup {Nil}] /\ data \in [Obj -> Value \cup {Dead, Nil}]
  BY Bases
<1>3. op[t].val # Dead /\ Makers \subseteq Obj
  BY Basics, NoLimits, NamesAssumption DEF Settled, Operations
<1> DEFINE Keeps == /\ slot' = slot /\ ctrl' = TRUE /\ value'[Zero] # Nil
                    /\ \A b \in Makers : data'[b] # Dead
<1>4. ASSUME UNCHANGED <<slot, ctrl, value, data>> PROVE Keeps
  BY <1>1, <1>4
<1>5. ASSUME NEW e, value' = [value EXCEPT ![e] = t], UNCHANGED <<slot, ctrl, data>> PROVE Keeps
  BY <1>1, <1>2, <1>5
<1>6. ASSUME NEW b, data' = [data EXCEPT ![b] = op[t].val], UNCHANGED <<slot, ctrl, value>>
      PROVE  Keeps
  BY <1>1, <1>2, <1>3, <1>6
<1>7. CASE ReadStep(t)
  <2>1. ReadFind(t) \/ RangeSimple(t) \/ RangeSimpleVal(t) \/ ReadBox(t) \/ ReadVal(t)
    BY <1>7, NoneOff DEF ReadStep
  <2>2. UNCHANGED <<slot, ctrl, value, data>>
    BY <2>1 DEF ReadFind, RangeSimple, RangeSimpleVal, ReadBox, ReadVal, shared
  <2>3. QED
    BY <1>4, <2>2
<1>8. CASE WriteStep(t)
  <2>1. CASE \/ FastFind(t) \/ FastBox(t) \/ InlineFind(t) \/ InlineBox(t) \/ InlineCount(t)
             \/ PutProbe(t) \/ ReplaceOrRevive(t)
    <3>1. UNCHANGED <<slot, ctrl, value, data>>
      BY <2>1 DEF FastFind, FastBox, InlineFind, InlineBox, InlineCount, PutProbe,
         ReplaceOrRevive, shared
    <3>2. QED
      BY <1>4, <3>1
  <2>2. CASE \/ LookupFind(t) \/ LookupBox(t) \/ LookupVal(t) \/ Scan(t) \/ ScanVal(t)
             \/ BuildBox(t) \/ GateFind(t) \/ MatchBox(t) \/ MatchVal(t)
    <3>1. UNCHANGED <<slot, ctrl, value, data>>
      BY <2>2 DEF LookupFind, LookupBox, LookupVal, Scan, ScanVal, BuildBox, GateFind, MatchBox,
         MatchVal, shared
    <3>2. QED
      BY <1>4, <3>1
  <2>3. CASE PreFind(t) \/ PreBox(t) \/ PreVal(t) \/ UserPanics(t)
    <3>1. UNCHANGED <<slot, ctrl, value, data>>
      BY <2>3 DEF PreFind, PreBox, PreVal, UserPanics, shared
    <3>2. QED
      BY <1>4, <3>1
  <2>4. CASE InlineCAS(t) \/ Revive(t) \/ ReplaceCAS(t) \/ SwapBox(t)
    <3>1. /\ UNCHANGED <<slot, ctrl, data>>
          /\ value' = value \/ value' = [value EXCEPT ![th[t].ent] = t]
      BY <2>4 DEF InlineCAS, Revive, ReplaceCAS, SwapBox, ReplaceBox, Point
    <3>2. QED
      BY <1>4, <1>5, <3>1
  <2>5. CASE SwapData(t) \/ ReplaceData(t)
    <3>1. /\ UNCHANGED <<slot, ctrl, value>>
          /\ data' = data \/ data' = [data EXCEPT ![th[t].box] = op[t].val]
      BY <2>5 DEF SwapData, ReplaceData
    <3>2. QED
      BY <1>4, <1>6, <3>1
  <2>6. CASE Insert(t)
    <3>1. UNCHANGED <<slot, ctrl, value, data>>
      BY <1>1, <2>6 DEF Insert
    <3>2. QED
      BY <1>4, <3>1
  <2>7. CASE Publish(t)
    <3>1. UNCHANGED <<slot, value, data>> /\ ctrl' = TRUE
      BY <2>7 DEF Publish
    <3>2. QED
      BY <1>1, <3>1
  <2>8. ~Claim(t) /\ ~Unlink(t)
    BY <1>1 DEF Claim, Unlink, At
  <2>9. QED
    BY <1>8, <2>1, <2>2, <2>3, <2>4, <2>5, <2>6, <2>7, <2>8 DEF WriteStep
<1>9. CASE RebuildStep(t)
  <2>1. CASE CleanupStart(t) \/ ResizeTry(t) \/ Drained(t) \/ RebuildCount(t) \/ ClearAcquire(t)
    <3>1. UNCHANGED <<slot, ctrl, value, data>>
      BY <2>1 DEF CleanupStart, ResizeTry, Drained, RebuildCount, ClearAcquire, shared
    <3>2. QED
      BY <1>4, <3>1
  <2>2. CASE Rebuild(t)
    <3>1. Kept(t, InSlot)
      BY <1>1, NoLimits DEF Kept
    <3>2. slot' = slot /\ ctrl' = TRUE /\ UNCHANGED <<value, data>>
      BY <2>2, <3>1 DEF Rebuild
    <3>3. QED
      BY <1>1, <3>2
  <2>3. ~ClearTable(t)
    BY <1>1 DEF ClearTable, At
  <2>4. QED
    BY <1>9, <2>1, <2>2, <2>3 DEF RebuildStep
<1>10. QED
  BY <1>7, <1>8, <1>9, NoneOff DEF Step

\* A Swap only replaces the data word of the box there.
LEMMA SwapStays ==
    ASSUME Settled, Lasting, NEW t \in Call, Kind(t) = "Swap", Step(t)
    PROVE  /\ th'[t].pc \in {"fastBox", "swapData", "done"}
           /\ th'[t].pc = "fastBox" => th'[t].ent = Zero
<1>1. /\ Found = Zero /\ Zero # Nil /\ value[Zero] \in Makers /\ value[Zero] # Nil
      /\ \A b \in Makers : data[b] # Dead
  BY LastingFacts
<1>2. /\ th[t].pc \in {"call", "fast", "fastBox", "swapData", "done"}
      /\ th[t].pc = "fastBox" => th[t].ent = Zero
  BY DEF Settled, StaysOK
<1>3. th[t].pc # "done" /\ UNCHANGED config
  BY StepCarries DEF Carries, Acts
<1>4. FastFind(t) \/ FastBox(t) \/ SwapData(t)
  <2>1. ~ReadStep(t)
    BY <1>2 DEF ReadStep, ReadFind, RangeSimple, RangeSimpleVal, ReadBox, ReadVal, ConsumeHit,
       ConsumeReload, ReadSlow, At
  <2>2. ~RebuildStep(t)
    BY <1>2 DEF RebuildStep, CleanupStart, ResizeTry, Drained, Rebuild, RebuildCount,
       ClearAcquire, ClearTable, At
  <2>3. WriteStep(t)
    BY <2>1, <2>2, NoneOff DEF Step
  <2>4. /\ ~InlineFind(t) /\ ~InlineBox(t) /\ ~InlineCAS(t) /\ ~InlineCount(t) /\ ~PutProbe(t)
        /\ ~Insert(t) /\ ~Publish(t) /\ ~ReplaceOrRevive(t) /\ ~Revive(t) /\ ~ReplaceCAS(t)
    BY <1>2 DEF InlineFind, InlineBox, InlineCAS, InlineCount, PutProbe, Insert, Publish,
       ReplaceOrRevive, Revive, ReplaceCAS, At
  <2>5. /\ ~LookupFind(t) /\ ~LookupBox(t) /\ ~LookupVal(t) /\ ~Scan(t) /\ ~ScanVal(t)
        /\ ~BuildBox(t) /\ ~GateFind(t) /\ ~MatchBox(t) /\ ~MatchVal(t) /\ ~Claim(t)
    BY <1>2 DEF LookupFind, LookupBox, LookupVal, Scan, ScanVal, BuildBox, GateFind, MatchBox,
       MatchVal, Claim, At
  <2>6. /\ ~Unlink(t) /\ ~PreFind(t) /\ ~PreBox(t) /\ ~PreVal(t) /\ ~ReplaceData(t)
        /\ ~SwapBox(t) /\ ~UserPanics(t)
    BY <1>2 DEF Unlink, PreFind, PreBox, PreVal, ReplaceData, SwapBox, UserPanics, At
  <2>7. QED
    BY <2>3, <2>4, <2>5, <2>6 DEF WriteStep
<1>5. CASE FastFind(t)
  <2>1. Set(t, [pc |-> "fastBox", ent |-> Zero])
    BY <1>1, <1>5 DEF FastFind
  <2>2. Comes(t, "fastBox", Zero, th[t].box, th[t].word)
    BY <1>3, <2>1, EntComes DEF Tidying
  <2>3. QED
    BY <2>2 DEF Comes
<1>6. CASE FastBox(t)
  <2>1. th[t].ent = Zero
    BY <1>2, <1>6 DEF FastBox, At
  <2>2. SameShape(value[Zero], t)
    <3>1. t \in Makers
      BY DEF Makers
    <3>2. QED
      BY <1>1, <3>1 DEF Lasting, SameShape
  <2>3. Set(t, [pc |-> "swapData", box |-> value[Zero]])
    BY <1>1, <1>6, <2>1, <2>2 DEF FastBox
  <2>4. Comes(t, "swapData", th[t].ent, value[Zero], th[t].word)
    BY <1>3, <2>3, BoxComes DEF Tidying
  <2>5. QED
    BY <2>4 DEF Comes
<1>7. CASE SwapData(t)
  <2>1. th[t].box \in Makers
    BY <1>7, Bases DEF SwapData, At, TraceOK, Holding
  <2>2. PICK r : Return(t, r)
    BY <1>1, <1>7, <2>1 DEF SwapData
  <2>3. Stops(t, "done", r)
    BY <1>3, <2>2, ReturnStops
  <2>4. QED
    BY <2>3 DEF Stops
<1>8. QED
  BY <1>4, <1>5, <1>6, <1>7

\* So it remains.
LEMMA StepStays == ASSUME Settled, NEW t \in Call, Step(t) PROVE StaysInv'
<1>1. Acts(t)
  BY StepCarries DEF Carries
<1>2. op' = op /\ noClone' = noClone
  BY <1>1 DEF Acts, config
<1>3. (Lasting' <=> Lasting) /\ Makers' = Makers /\ \A u : Kind(u)' = Kind(u)
  BY <1>1, <1>2, LastingSame, ActsKeep
<1>4. ASSUME Lasting PROVE StaysOK'
  <2>1. /\ slot' = slot /\ ctrl' = TRUE /\ value'[Zero] # Nil
        /\ \A b \in Makers : data'[b] # Dead
    BY <1>4, TableStays
  <2>2. slot = Zero
    BY <1>4, LastingFacts
  <2>3. ASSUME NEW u \in Call, Kind(u) = "Swap"
        PROVE  /\ th'[u].pc \in {"call", "fast", "fastBox", "swapData", "done"}
               /\ th'[u].pc = "fastBox" => th'[u].ent = Zero
    <3>1. CASE u = t
      BY <1>4, <2>3, <3>1, SwapStays
    <3>2. CASE u # t
      <4>1. th'[u] = th[u]
        BY <1>1, <3>2 DEF Acts
      <4>2. QED
        BY <1>4, <2>3, <4>1 DEF Settled, StaysOK
    <3>3. QED
      BY <3>1, <3>2
  <2>4. QED
    BY <1>3, <2>1, <2>2, <2>3 DEF StaysOK
<1>5. QED
  BY <1>3, <1>4 DEF StaysInv, StaysOK

\* A Swap begins with the lookup that finds the box.
LEMMA InvokeStays == ASSUME Inv, StaysInv, Orderly, NEW t \in Call, Invoke(t) PROVE StaysInv'
<1> DEFINE p == Starts[Kind(t)]
           before == {u \in Call : Unlimited /\ At(u, "done")}
<1>1. /\ Set(t, [pc |-> p, start |-> now, before |-> before])
      /\ UNCHANGED <<slot, ctrl, value, data, noClone, op>>
  BY DEF Invoke, config
<1>2. Kind(t) \in Methods
  BY Basics DEF Operations, Kind
<1>3. /\ p \in {"find", "fast", "find2", "put", "los1", "los2", "gateFind", "preFind",
                "clearAll", "cleanup"}
      /\ Kind(t) = "Swap" /\ noClone => p = "fast"
  BY <1>2 DEF Starts, Methods
<1> HIDE DEF p, before
<1>4. th'[t].pc = p /\ \A u \in Call \ {t} : th'[u] = th[u]
  BY <1>1, <1>3, Basics, ZenonT(30) DEF HasLocals, Set, With, Tidy, Fields
<1>5. Makers' = Makers /\ \A b : Kind(b)' = Kind(b)
  BY <1>1 DEF Makers, Kind
<1>6. Lasting' <=> Lasting
  BY <1>1, LastingSame
<1>7. ASSUME Lasting PROVE StaysOK'
  <2>1. StaysOK /\ noClone
    BY <1>7 DEF StaysInv, Lasting
  <2>2. ASSUME NEW u \in Call, Kind(u) = "Swap"
        PROVE  /\ th'[u].pc \in {"call", "fast", "fastBox", "swapData", "done"}
               /\ th'[u].pc = "fastBox" => th'[u].ent = Zero
    <3>1. CASE u = t
      BY <1>3, <1>4, <2>1, <2>2, <3>1
    <3>2. CASE u # t
      <4>1. th'[u] = th[u]
        BY <1>4, <3>2
      <4>2. QED
        BY <1>7, <2>1, <2>2, <4>1 DEF StaysOK
    <3>3. QED
      BY <3>1, <3>2
  <2>3. QED
    BY <1>1, <1>5, <1>7, <2>1, <2>2 DEF StaysOK
<1>8. QED
  BY <1>6, <1>7 DEF StaysInv, StaysOK

\* What the clock leaves alone.
LEMMA SameStays ==
    ASSUME StaysInv, UNCHANGED <<slot, ctrl, value, data, noClone, op, th>> PROVE StaysInv'
<1>1. Lasting' <=> Lasting
  BY LastingSame
<1>2. \A b : BytesOf(b)' = BytesOf(b) /\ HasMeta(b)' = HasMeta(b) /\ IsSimple(b)' = IsSimple(b)
             /\ Kind(b)' = Kind(b) /\ Typ(b)' = Typ(b)
  BY DEF BytesOf, HasMeta, IsSimple, Kind, Typ
<1>3. Makers' = Makers
  BY <1>2 DEF Makers
<1>4. Orderly' <=> Orderly
  BY <1>1, <1>2, <1>3 DEF Orderly, Unlimited, Alike, Tracked
<1>5. StaysOK => StaysOK'
  BY <1>1, <1>2, <1>3 DEF StaysOK
<1>6. QED
  BY <1>4, <1>5 DEF StaysInv

\* Zero has left its value there.
LEMMA InitStays == Init => StaysInv
<1> SUFFICES ASSUME Init, Orderly, Lasting PROVE StaysOK
  BY DEF StaysInv, StaysOK
<1>1. /\ op \in [Obj -> Operations] /\ data = [b \in Obj |-> op[b].val]
      /\ th = [t \in Call |-> Locals] /\ FirstLeaves(Kind(Zero))
      /\ Zero \in Obj /\ Zero # Nil /\ Makers \subseteq Obj
  BY InitTypes, NamesAssumption DEF Obj, Makers
<1>2. Kind(Zero) \notin {"Clear", "Delete"}
  BY NamesAssumption DEF Lasting, Makers
<1>3. slot = Zero /\ ctrl = TRUE /\ value[Zero] = Zero
  BY <1>1, <1>2 DEF FirstLeaves
<1>4. ASSUME NEW b \in Makers PROVE data[b] # Dead
  <2>1. data[b] = op[b].val /\ op[b].val \in Value \cup {Nil}
    BY <1>1 DEF Operations
  <2>2. QED
    BY <2>1, NamesAssumption
<1>5. \A t \in Call : th[t].pc = "call"
  BY <1>1 DEF Locals
<1>6. QED
  BY <1>1, <1>3, <1>4, <1>5 DEF StaysOK

-------------------------------------------------------------------------------
\* A step of a call keeps both invariants.
LEMMA StepLin ==
    ASSUME Inv, TraceInv, LinInv, StaysInv, NEW t \in Call, Step(t), Orderly
    PROVE  TraceInv' /\ LinInv'
<1>1. Settled
  BY DEF Settled, TraceInv, StaysInv
<1>2. Carries(t)
  BY <1>1, StepCarries
<1>3. TraceInv'
  BY <1>1, <1>2, TraceStep DEF Carries
<1>4. LinInv'
  <2> SUFFICES ASSUME ~gap' PROVE (\E o, g, ps : Explained(o, g, ps))'
    BY DEF LinInv
  <2>1. ~gap
    BY <1>2 DEF Carries
  <2>2. PICK order, h, pos : Explained(order, h, pos)
    BY <2>1 DEF LinInv
  <2>3. \E o, g, ps : Explained(o, g, ps)'
    BY <1>2, <2>2 DEF Carries
  <2>4. QED
    BY <2>3
<1>5. QED
  BY <1>3, <1>4

\* A call begins: the calls that have ended may have taken effect before it.
LEMMA InvokeLin ==
    ASSUME Inv, TraceInv, LinInv, NEW t \in Call, Invoke(t), Orderly
    PROVE  TraceInv' /\ LinInv'
<1> DEFINE p == Starts[Kind(t)]
           before == {u \in Call : Unlimited /\ At(u, "done")}
<1>1. /\ th[t].pc = "call" /\ Set(t, [pc |-> p, start |-> now, before |-> before])
      /\ UNCHANGED <<slot, value, data, noClone, op, gap>>
  BY DEF Invoke, At, config
<1>2. Kind(t) \in Methods /\ noClone \in BOOLEAN
  BY Basics DEF Operations, Inv, StateTypes, Kind
<1>3. /\ p \in {"find", "fast", "find2", "put", "los1", "los2", "gateFind", "preFind",
                "clearAll", "cleanup"}
      /\ p = "preFind" => Kind(t) = "CompareAndSwap"
  BY <1>2 DEF Starts, Methods
<1>4. before \subseteq Call /\ t \notin before /\ \A u \in before : th[u].pc = "done"
  BY <1>1 DEF At
<1> HIDE DEF p, before
<1>5. /\ \A u \in Call \ {t} : th'[u] = th[u]
      /\ th'[t].pc = p /\ th'[t].res = th[t].res /\ th'[t].before = before
  BY <1>1, <1>3, Basics, ZenonT(30) DEF HasLocals, Set, With, Tidy, Fields
<1>6. \A b : BytesOf(b)' = BytesOf(b) /\ HasMeta(b)' = HasMeta(b) /\ IsSimple(b)' = IsSimple(b)
             /\ Kind(b)' = Kind(b) /\ Typ(b)' = Typ(b)
  BY <1>1 DEF BytesOf, HasMeta, IsSimple, Kind, Typ
<1>7. Makers' = Makers /\ First' = First
  BY <1>1, <1>6 DEF Makers, First
<1>8. ASSUME NEW u \in Call
      PROVE  (Committed(u)' <=> Committed(u)) /\ Outcome(u)' = Outcome(u)
  <2>1. Stored(u)' = Stored(u)
    BY <1>1, <1>6 DEF Stored
  <2>2. CASE u = t
    BY <1>1, <1>3, <1>5, <2>2 DEF Committed, Outcome, At, Post
  <2>3. CASE u # t
    <3>1. th'[u] = th[u]
      BY <1>5, <2>3
    <3>2. QED
      BY <1>6, <2>1, <3>1 DEF Committed, Outcome, At
  <2>4. QED
    BY <2>2, <2>3
<1>9. ~Committed(t) /\ BoxesOK
  BY <1>1 DEF Committed, At, Post, TraceInv
<1>10. TraceInv'
  <2>1. BoxesOK'
    BY <1>1, <1>6, <1>7, <1>9 DEF BoxesOK, Alike, Tracked
  <2>2. ASSUME NEW u \in Call PROVE TraceOK(u)'
    <3>1. TraceOK(u)
      BY DEF TraceInv
    <3>2. CASE u = t
      <4>1. p \notin Holding \cup Off
        BY <1>3 DEF Holding, Off
      <4>2. /\ Kind(t)' = Kind(t)
            /\ Kind(t) \in {"Store", "Clear", "CleanupNow"} => th[t].res = Answer(Nil, TRUE)
        BY <1>6, <3>1, <3>2 DEF TraceOK
      <4>3. \A x \in before : x \in Call /\ x # t /\ th'[x].pc = "done"
        BY <1>4, <1>5
      <4>4. QED
        BY <1>3, <1>5, <3>2, <4>1, <4>2, <4>3 DEF TraceOK, Holding, Off, At
    <3>3. CASE u # t
      <4>1. th'[u] = th[u]
        BY <1>5, <3>3
      <4>2. \A x \in th[u].before : x \in Call /\ x # u /\ At(x, "done")'
        <5>1. \A x \in th[u].before : x \in Call /\ x # u /\ th[x].pc = "done" /\ x # t
          BY <1>1, <3>1 DEF TraceOK, At
        <5>2. QED
          BY <1>5, <5>1 DEF At
      <4>3. QED
        BY <1>1, <1>6, <1>7, <3>1, <4>1, <4>2 DEF TraceOK, Holding, SameShape
    <3>4. QED
      BY <3>2, <3>3
  <2>3. QED
    BY <2>1, <2>2 DEF TraceInv
<1>11. LinInv'
  <2> SUFFICES ASSUME ~gap' PROVE (\E order, h, pos : Explained(order, h, pos))'
    BY DEF LinInv
  <2>1. PICK order, h, pos : Explained(order, h, pos)
    BY <1>1 DEF LinInv
  <2>2. order \in Seq(Call) /\ \A i \in 1..Len(order) : order[i] \in Call \ {t}
    BY <1>9, <2>1 DEF Explained, Account, Listed
  <2>3. Account(op, Outcomes, Before, order, h)'
    <3>1. \A i \in 1..Len(order) : /\ Before'[order[i]] = Before[order[i]]
                                   /\ Outcomes'[order[i]] = Outcomes[order[i]]
      BY <1>5, <1>8, <2>2 DEF Before, Outcomes
    <3>2. QED
      BY <1>1, <2>1, <3>1 DEF Explained, Account
  <2>4. h[0] = First' /\ \A u \in Call : Committed(u)' <=> Listed(order, u)
    BY <1>7, <1>8, <2>1 DEF Explained
  <2>5. PosOK(order, h, pos)'
    <3>1. InSlot' = InSlot /\ \A b : /\ Word(b)' = Word(b) /\ (Pointed(b)' <=> Pointed(b))
                                     /\ (Live(b)' <=> Live(b))
      BY <1>1, <1>6 DEF InSlot, Word, Pointed, Live, Obj
    <3>2. \A b \in DOMAIN pos : b \in Call => (Committed(b)' <=> Committed(b))
      BY <1>8
    <3>3. PosOK(order, h, pos)
      BY <2>1 DEF Explained
    <3>4. QED
      BY <1>1, <1>7, <3>1, <3>2, <3>3 DEF PosOK, Obj
  <2>6. ASSUME NEW u \in Call PROVE SeeksOK(order, h, pos, u)' /\ BoxOK(order, pos, u)'
    <3>1. SeeksOK(order, h, pos, u) /\ BoxOK(order, pos, u)
      BY <2>1 DEF Explained
    <3>2. CASE u = t
      BY <1>3, <1>5, <3>2 DEF SeeksOK, BoxOK, Seeking, Holding
    <3>3. CASE u # t
      <4>1. th'[u] = th[u] /\ (Committed(u)' <=> Committed(u))
        BY <1>5, <1>8, <3>3
      <4>2. QED
        BY <1>1, <3>1, <4>1 DEF SeeksOK, BoxOK, FindsOK
    <3>4. QED
      BY <3>2, <3>3
  <2>7. Explained(order, h, pos)'
    BY <2>3, <2>4, <2>5, <2>6 DEF Explained
  <2>8. QED
    BY <2>7
<1>12. QED
  BY <1>10, <1>11

\* What the clock leaves alone, and a step that changes nothing.
LEMMA SameLin ==
    ASSUME TraceInv, LinInv, UNCHANGED <<slot, value, data, noClone, op, th, gap>>
    PROVE  TraceInv' /\ LinInv'
<1>1. \A b : BytesOf(b)' = BytesOf(b) /\ HasMeta(b)' = HasMeta(b) /\ IsSimple(b)' = IsSimple(b)
             /\ Kind(b)' = Kind(b) /\ Typ(b)' = Typ(b)
  BY DEF BytesOf, HasMeta, IsSimple, Kind, Typ
<1>2. Makers' = Makers /\ First' = First
  BY <1>1 DEF Makers, First
<1>3. Orderly' <=> Orderly
  BY <1>1, <1>2, LastingSame DEF Orderly, Unlimited, Alike, Tracked
<1>4. \A u : (Committed(u)' <=> Committed(u)) /\ Outcome(u)' = Outcome(u)
  BY <1>1 DEF Committed, Outcome, At, Stored
<1>5. BoxesOK => BoxesOK'
  BY <1>1, <1>2 DEF BoxesOK, Alike, Tracked
<1>6. ASSUME NEW u \in Call, TraceOK(u) PROVE TraceOK(u)'
  <2>1. th' = th /\ data' = data /\ op' = op /\ Kind(u)' = Kind(u) /\ Makers' = Makers
    BY <1>1, <1>2
  <2>2. \A x \in th[u].before : x \in Call /\ x # u /\ At(x, "done")'
    BY <1>6, <2>1 DEF TraceOK, At
  <2>3. \A b : /\ (IsSimple(b)' <=> IsSimple(b)) /\ (HasMeta(b)' <=> HasMeta(b))
               /\ Typ(b)' = Typ(b)
    BY <1>1
  <2>4. QED
    BY <1>6, <2>1, <2>2, <2>3 DEF TraceOK, SameShape
<1>7. ASSUME NEW order, NEW h, NEW pos, Explained(order, h, pos)
      PROVE  Explained(order, h, pos)'
  <2>1. Outcomes' = Outcomes /\ Before' = Before
    BY <1>4 DEF Outcomes, Before
  <2>2. Account(op, Outcomes, Before, order, h)'
    BY <1>7, <2>1 DEF Explained, Account
  <2>3. InSlot' = InSlot /\ \A b : /\ Word(b)' = Word(b) /\ (Pointed(b)' <=> Pointed(b))
                                   /\ (Live(b)' <=> Live(b))
    BY <1>1 DEF InSlot, Word, Pointed, Live, Obj
  <2>4. PosOK(order, h, pos)'
    <3>1. PosOK(order, h, pos)
      BY <1>7 DEF Explained
    <3>2. QED
      BY <1>2, <1>4, <2>3, <3>1 DEF PosOK, Obj
  <2>5. \A u \in Call : SeeksOK(order, h, pos, u)' /\ BoxOK(order, pos, u)'
    BY <1>4, <1>7 DEF Explained, SeeksOK, BoxOK, FindsOK
  <2>6. QED
    BY <1>2, <1>4, <1>7, <2>2, <2>4, <2>5 DEF Explained
<1>8. QED
  BY <1>3, <1>5, <1>6, <1>7 DEF TraceInv, LinInv

\* No step changes what the calls do.
LEMMA ConfigStays == ASSUME [Next]_vars PROVE UNCHANGED <<noClone, op>>
<1>1. ASSUME NEW t \in Call, Step(t) PROVE UNCHANGED config
  <2>1. CASE ReadStep(t)
    BY <2>1 DEF ReadStep, ReadFind, RangeSimple, RangeSimpleVal, ReadBox, ReadVal, ConsumeHit,
       ConsumeReload, ReadSlow
  <2>2. CASE WriteStep(t)
    BY <2>2 DEF WriteStep, FastFind, FastBox, SwapData, InlineFind, InlineBox, InlineCAS,
       InlineCount, PutProbe, Insert, Publish, ReplaceOrRevive, Revive, ReplaceCAS, ReplaceBox,
       LookupFind, LookupBox, LookupVal, Scan, ScanVal, BuildBox, GateFind, MatchBox, MatchVal,
       Claim, Unlink, PreFind, PreBox, PreVal, ReplaceData, SwapBox, UserPanics
  <2>3. CASE RebuildStep(t)
    BY <2>3 DEF RebuildStep, CleanupStart, ResizeTry, Drained, Rebuild, RebuildCount,
       ClearAcquire, ClearTable
  <2>4. CASE ClearIfMatch(t) \/ ClearCount(t) \/ EndWrite(t) \/ MaybeResize(t)
    BY <2>4 DEF ClearIfMatch, ClearCount, EndWrite, MaybeResize
  <2>5. QED
    BY <1>1, <2>1, <2>2, <2>3, <2>4 DEF Step
<1>2. QED
  BY <1>1 DEF Next, Invoke, Tick, Finished, vars, config

\* It holds at first: what Zero has left is the content before any call.
LEMMA InitLin == Init => TraceInv /\ LinInv
<1> SUFFICES ASSUME Init, Orderly PROVE TraceInv /\ LinInv
  BY DEF TraceInv, LinInv
<1> DEFINE k == Kind(Zero)
           there == k \notin {"Clear", "Delete"}
<1>1. /\ op \in [Obj -> Operations] /\ data = [b \in Obj |-> op[b].val]
      /\ th = [t \in Call |-> Locals]
      /\ Zero \in Obj /\ Zero \notin Call /\ Nil \notin Obj /\ Call \subseteq Obj
      /\ Makers \subseteq Obj
  BY InitTypes, NamesAssumption DEF Obj, Makers
<1>2. /\ slot = IF k = "Clear" THEN Nil ELSE Zero
      /\ value = [e \in Obj |-> IF e = Zero /\ there THEN Zero ELSE Nil]
  BY InitTypes DEF FirstLeaves
<1>3. ASSUME NEW b \in Makers
      PROVE  data[b] = op[b].val /\ op[b].val \in Value /\ op[b].val # Nil /\ op[b].val # Dead
  <2>1. op[b] \in Operations /\ op[b].val # Nil
    BY <1>1 DEF Orderly
  <2>2. op[b].val \in Value \cup {Nil}
    BY <2>1 DEF Operations
  <2>3. QED
    BY <1>1, <2>1, <2>2, NamesAssumption
<1>4. Zero \in Makers <=> there
  BY <1>1 DEF Makers
<1>5. /\ \A e \in Obj : value[e] # Nil => e = Zero /\ value[e] = Zero /\ there
      /\ there => value[Zero] = Zero
  BY <1>1, <1>2
<1>6. InSlot = IF there THEN Zero ELSE Nil
  BY <1>1, <1>2, <1>5 DEF InSlot
<1>7. \A t \in Call : th[t].pc = "call" /\ th[t].res = Answer(Nil, TRUE) /\ th[t].before = {}
  BY <1>1 DEF Locals, Answer
<1> HIDE DEF k, there
<1>8. BoxesOK
  <2>1. ASSUME NEW b \in Makers PROVE Alike(data[b], b)
    <3>1. op[b].hits = 0 /\ op[b].ttl = 0
      BY <1>1 DEF Orderly, Unlimited
    <3>2. (BytesOf(b) > 0) <=> Tracked(op[b].val)
      BY <1>3, <2>1 DEF BytesOf, Tracked
    <3>3. HasMeta(b) <=> Tracked(op[b].val)
      BY <3>1, <3>2 DEF HasMeta
    <3>4. QED
      BY <1>3, <2>1, <3>3 DEF Alike, Typ
  <2>2. QED
    BY <1>1, <1>3, <1>4, <1>5, <2>1 DEF BoxesOK
<1>9. \A t \in Call : TraceOK(t)
  BY <1>7 DEF TraceOK, Holding
<1>10. \A t \in Call : ~Committed(t)
  BY <1>7 DEF Committed, At, Post
<1> DEFINE h == [i \in {0} |-> First]
           pos == [b \in {Zero} \cap Makers |-> 0]
<1>11. h[0] = First /\ DOMAIN pos = {Zero} \cap Makers /\ \A b \in DOMAIN pos : pos[b] = 0
  OBVIOUS
<1> HIDE DEF h, pos
<1>12. <<>> \in Seq(Call) /\ Len(<<>>) = 0 /\ 1..0 = {}
  OBVIOUS
<1>13. Account(op, Outcomes, Before, <<>>, h)
  BY <1>12 DEF Account
<1>14. First = IF there THEN op[Zero].val ELSE Nil
  BY DEF First, k, there
<1>15. PosOK(<<>>, h, pos)
  <2>1. \A b \in DOMAIN pos : b = Zero /\ there /\ pos[b] = 0 /\ Word(b) = First
    BY <1>3, <1>4, <1>11, <1>14 DEF Word
  <2>2. /\ \A b \in Makers : data[b] = op[b].val
        /\ \A e \in Obj : value[e] # Nil => value[e] \in DOMAIN pos
    BY <1>3, <1>4, <1>5, <1>11
  <2>3. /\ InSlot # Nil => InSlot = Zero /\ Zero \in DOMAIN pos
        /\ InSlot = Nil => h[0] = Nil
        /\ \A b \in DOMAIN pos : b = InSlot
    BY <1>1, <1>4, <1>6, <1>11, <1>14, <2>1
  <2>4. 0 \in 0..0
    OBVIOUS
  <2>5. QED
    BY <1>1, <1>11, <1>12, <2>1, <2>2, <2>3, <2>4 DEF PosOK
<1>16. \A t \in Call : SeeksOK(<<>>, h, pos, t) /\ BoxOK(<<>>, pos, t)
  BY <1>7 DEF SeeksOK, BoxOK, Seeking, Holding
<1>17. Explained(<<>>, h, pos)
  BY <1>10, <1>11, <1>12, <1>13, <1>15, <1>16 DEF Explained, Listed
<1>18. QED
  BY <1>8, <1>9, <1>17 DEF TraceInv, LinInv

\* There always is an order.
LEMMA LinAlways == Spec => [](TraceInv /\ LinInv /\ StaysInv)
<1>1. ASSUME Inv, TraceInv, LinInv, StaysInv, [Next]_vars
      PROVE  TraceInv' /\ LinInv' /\ StaysInv'
  <2>1. CASE Orderly
    <3>1. CASE \E t \in Call : Invoke(t) \/ Step(t)
      <4>1. PICK t \in Call : Invoke(t) \/ Step(t)
        BY <3>1
      <4>2. CASE Invoke(t)
        BY <1>1, <2>1, <4>2, InvokeLin, InvokeStays
      <4>3. CASE Step(t)
        <5>1. Settled
          BY <1>1, <2>1 DEF Settled, TraceInv, StaysInv
        <5>2. QED
          BY <1>1, <2>1, <4>3, <5>1, StepLin, StepStays
      <4>4. QED
        BY <4>1, <4>2, <4>3
    <3>2. CASE Tick \/ UNCHANGED vars
      <4>1. UNCHANGED <<slot, ctrl, value, data, noClone, op, th, gap>>
        BY <3>2 DEF Tick, vars, shared, config
      <4>2. QED
        BY <1>1, <4>1, SameLin, SameStays
    <3>3. QED
      BY <1>1, <3>1, <3>2 DEF Next, Finished
  <2>2. CASE ~Orderly
    <3>1. UNCHANGED <<noClone, op>>
      BY <1>1, ConfigStays
    <3>2. \A b : HasMeta(b)' = HasMeta(b) /\ IsSimple(b)' = IsSimple(b) /\ Kind(b)' = Kind(b)
                 /\ Typ(b)' = Typ(b)
      BY <3>1 DEF BytesOf, HasMeta, IsSimple, Kind, Typ
    <3>3. Makers' = Makers
      BY <3>1, <3>2 DEF Makers
    <3>4. ~Orderly'
      BY <2>2, <3>1, <3>2, <3>3, LastingSame DEF Orderly, Unlimited, Alike, Tracked
    <3>5. QED
      BY <3>4 DEF TraceInv, LinInv, StaysInv
  <2>3. QED
    BY <2>1, <2>2
<1>2. QED
  BY <1>1, InitLin, InitStays, ShardInvariant, PTL DEF Spec

-------------------------------------------------------------------------------
\* The contents between the calls of an order, as Explains computes them.
Filling(order, f) ==
    f = [i \in 0..Len(order) |-> IF i = 0 THEN First ELSE After(op[order[i]], f[i - 1])]
Contents(order) == CHOOSE f : Filling(order, f)
LEMMA ExplainsIs ==
    ASSUME NEW order
    PROVE  Explains(order) <=>
             /\ \A i, j \in 1..Len(order) : order[i] \in th[order[j]].before => i < j
             /\ \A i \in 1..Len(order) :
                  th[order[i]].res = Answers(op[order[i]], Contents(order)[i - 1])
             /\ Contents(order)[Len(order)] = Content
  BY Zenon DEF Explains, Contents, Filling

\* They are those of the account.
LEMMA ContentsAre ==
    ASSUME NEW r, NEW B, NEW order, NEW h, Account(op, r, B, order, h), h[0] = First
    PROVE  \A i \in 0..Len(order) : Contents(order)[i] = h[i]
<1> DEFINE n == Len(order)
           f == [i \in 0..n |-> h[i]]
           c == Contents(order)
<1>1. n \in Nat
  BY DEF Account
<1>2. \A i \in 1..n : h[i] = After(op[order[i]], h[i - 1])
  BY DEF Account
<1>3. Filling(order, f)
  <2>1. ASSUME NEW i \in 0..n
        PROVE  f[i] = IF i = 0 THEN First ELSE After(op[order[i]], f[i - 1])
    <3>1. CASE i = 0
      BY <1>1, <3>1
    <3>2. CASE i # 0
      <4>1. i \in 1..n /\ i - 1 \in 0..n
        BY <1>1, <3>2
      <4>2. f[i] = h[i] /\ f[i - 1] = h[i - 1]
        BY <4>1
      <4> HIDE DEF f
      <4>3. QED
        BY <1>2, <3>2, <4>1, <4>2
    <3>3. QED
      BY <3>1, <3>2
  <2>2. f = [i \in 0..n |-> f[i]]
    OBVIOUS
  <2> HIDE DEF f
  <2>3. QED
    BY <2>1, <2>2, Zenon DEF Filling
<1>4. Filling(order, c)
  BY <1>3, Zenon DEF Contents
<1> HIDE DEF f, c
<1>5. c[0] = First /\ \A i \in 1..n : c[i] = After(op[order[i]], c[i - 1])
  <2>1. \A i \in 0..n : c[i] = IF i = 0 THEN First ELSE After(op[order[i]], c[i - 1])
    BY <1>4, Zenon DEF Filling
  <2>2. QED
    BY <1>1, <2>1
<1> DEFINE S == {i \in Nat : i <= n => c[i] = h[i]}
<1>6. 0 \in S
  BY <1>5
<1>7. ASSUME NEW i \in Nat, i \in S PROVE i + 1 \in S
  <2>1. CASE i + 1 <= n
    <3>1. i + 1 \in 1..n /\ (i + 1) - 1 = i /\ i <= n
      BY <1>1, <2>1
    <3>2. c[i + 1] = h[i + 1]
      BY <1>2, <1>5, <1>7, <3>1
    <3>3. QED
      BY <3>2
  <2>2. CASE ~(i + 1 <= n)
    BY <2>2
  <2>3. QED
    BY <2>1, <2>2
<1>8. Nat \subseteq S
  <2> HIDE DEF S
  <2>1. QED
    BY <1>6, <1>7, SetInduction
<1>9. QED
  BY <1>1, <1>8 DEF c

\* An order of the calls in a set is a sequence of them.
LEMMA OrderOf ==
    ASSUME NEW S, NEW order \in Seq(Call),
           \A i, j \in 1..Len(order) : order[i] = order[j] => i = j,
           \A t \in Call : t \in S <=> Listed(order, t), S \subseteq Call
    PROVE  order \in SetToSeqs(S)
<1> DEFINE n == Len(order)
<1>1. n \in Nat /\ order \in [1..n -> Call]
  OBVIOUS
<1>2. order \in [1..n -> S]
  <2>1. \A i \in 1..n : order[i] \in S
    BY <1>1 DEF Listed
  <2>2. QED
    BY <1>1, <2>1
<1>3. \A t \in S : \E i \in 1..n : order[i] = t
  BY DEF Listed
<1>4. order \in Bijection(1..n, S)
  BY <1>2, <1>3 DEF Bijection, Injection, Surjection, IsInjective
<1>5. Cardinality(S) = n
  BY <1>1, <1>4, FS_CountingElements DEF ExistsBijection
<1>6. QED
  BY <1>2, <1>5 DEF SetToSeqs
-------------------------------------------------------------------------------
\* The methods of Map are atomic on every Orderly workload, for any number of
\* concurrent calls: their answers and the final content are those of some
\* sequential order of them that respects which ended before which began,
\* through stores that replace data words outside the gate, rebuilds and Clear,
\* and past a call that a panic keeps in the gate, as long as no lookup missed
\* an entry in its gap. Orderly are the workloads without limits in which a
\* CompareAndSwap keeps the type and shape of a value without metadata, and
\* Swap is called only on a key that stays present with plain values of one
\* type, or in a map whose values all have metadata.
THEOREM OrderlyCallsAreLinearizable == Spec => [](Orderly => LinearizableOutsideGap)
<1>1. ASSUME Inv, TraceInv, LinInv, StaysInv, Orderly PROVE LinearizableOutsideGap
  <2> DEFINE S == {t \in Call : th[t].pc \in {"done", "drain"}}
  <2> SUFFICES ASSUME ~gap, Quiescent PROVE \E order \in SetToSeqs(S) : Explains(order)
    BY DEF LinearizableOutsideGap, Linearizable
  <2>1. PICK order, h, pos : Explained(order, h, pos)
    BY <1>1 DEF LinInv
  <2>2. /\ Account(op, Outcomes, Before, order, h) /\ order \in Seq(Call) /\ h[0] = First
        /\ PosOK(order, h, pos)
    BY <2>1 DEF Explained, Account
  <2>3. \A t \in Call : /\ Committed(t) <=> th[t].pc \in {"done", "drain"}
                        /\ Outcome(t) = th[t].res
    BY DEF Quiescent, Blocked, Committed, Outcome, Post, At
  <2>4. order \in SetToSeqs(S)
    <3>1. S \subseteq Call /\ \A t \in Call : t \in S <=> Listed(order, t)
      BY <2>1, <2>3 DEF Explained
    <3> HIDE DEF S
    <3>2. QED
      BY <2>2, <3>1, OrderOf DEF Account
  <2>5. Len(order) \in Nat /\ \A i \in 1..Len(order) : i - 1 \in 0..Len(order) /\ order[i] \in Call
    BY <2>2
  <2>6. h[Len(order)] = Content
    <3>1. Settled
      BY <1>1 DEF Settled, TraceInv, StaysInv
    <3>2. CASE InSlot = Nil
      BY <2>2, <3>2 DEF PosOK, Content
    <3>3. CASE InSlot # Nil
      <4>1. slot \in Obj /\ InSlot = value[slot]
        BY <1>1, <3>3 DEF InSlot, Inv, StateTypes, TypeOK
      <4>2. InSlot \in DOMAIN pos /\ InSlot \in Obj
        BY <2>2, <3>1, <3>3, <4>1, NoLimits DEF PosOK
      <4>3. h[Len(order)] = Word(InSlot)
        BY <2>2, <3>3, <4>2 DEF PosOK
      <4>4. ~Depleted(InSlot)
        BY <3>1, <4>2, NoLimits
      <4>5. QED
        BY <3>3, <4>3, <4>4 DEF Content, Word
    <3>4. QED
      BY <3>2, <3>3
  <2>7. \A i \in 0..Len(order) : Contents(order)[i] = h[i]
    BY <2>2, ContentsAre
  <2>8. Contents(order)[Len(order)] = Content
    BY <2>5, <2>6, <2>7
  <2>9. ASSUME NEW i \in 1..Len(order)
        PROVE  th[order[i]].res = Answers(op[order[i]], Contents(order)[i - 1])
    <3>1. Outcomes[order[i]] = Answers(op[order[i]], h[i - 1])
      BY <2>2 DEF Account
    <3>2. Outcomes[order[i]] = th[order[i]].res
      BY <2>3, <2>5 DEF Outcomes
    <3>3. QED
      BY <2>5, <2>7, <3>1, <3>2
  <2>10. \A i, j \in 1..Len(order) : order[i] \in th[order[j]].before => i < j
    BY <2>2, <2>5 DEF Account, Before
  <2>11. Explains(order)
    BY <2>8, <2>9, <2>10, ExplainsIs
  <2>12. QED
    BY <2>4, <2>11
<1>2. QED
  BY <1>1, ShardInvariant, LinAlways, PTL
===============================================================================
