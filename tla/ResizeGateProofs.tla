--------------------------- MODULE ResizeGateProofs ---------------------------
(***************************************************************************)
(* The gate invariant and the refinement of WriteGate, for every number of *)
(* goroutines.  The argument is one of counting: the state word is the     *)
(* number of threads that have added 1 to it, plus shardResizing while the *)
(* bit is owned, and a count never reaches shardResizing.  So the word     *)
(* equals shardResizing exactly when nobody is counted, and a word whose   *)
(* test found the bit clear proves that the bit has no owner.              *)
(***************************************************************************)
EXTENDS ResizeGate, FiniteSetTheorems, TLAPS

\* The labels at which a thread has its 1 in the word, and owns the bit.
CountedPC == {"writing", "backoff"}
OwnerPC == {"drain", "rebuild"}

\* The counted threads are a finite set no larger than Thread.
LEMMA CountedFinite ==
    /\ IsFiniteSet(Counted)
    /\ Cardinality(Counted) \in Nat
    /\ Cardinality(Counted) < ShardResizing
<1>1. Counted \subseteq Thread
    BY DEF Counted
<1>2. /\ IsFiniteSet(Counted)
      /\ Cardinality(Counted) <= Cardinality(Thread)
    BY <1>1, ThreadsAssumption, FS_Subset
<1>3. Cardinality(Counted) \in Nat /\ Cardinality(Thread) \in Nat
    BY <1>2, ThreadsAssumption, FS_CardinalityType
<1> QED
    BY <1>2, <1>3, ResizingAssumption

\* While StateWord holds the resize bit is set exactly when some thread owns
\* it, and the word is shardResizing exactly when nobody is counted as well.
LEMMA WordReads ==
    ASSUME StateWord
    PROVE  /\ Resizing(state) <=> Owners # {}
           /\ ~Resizing(state + 1) => Owners = {}
           /\ state = ShardResizing => Counted = {}
<1> DEFINE n == Cardinality(Counted)
<1>1. n \in Nat /\ n < ShardResizing /\ IsFiniteSet(Counted)
    BY CountedFinite
<1>2. ShardResizing \in Nat
    BY ResizingAssumption
<1>3. state = n + IF Owners = {} THEN 0 ELSE ShardResizing
    BY DEF StateWord
<1>4. n = 0 => Counted = {}
    BY <1>1, FS_EmptySet
<1> HIDE DEF n
<1> QED
    BY <1>1, <1>2, <1>3, <1>4 DEF Resizing

\* A thread that moves from a label that does not count to one that does
\* adds one to the number of counted threads; and the reverse.
LEMMA CountChange ==
    ASSUME TypeOK, NEW t \in Thread, NEW l \in PC, Goto(t, l)
    PROVE  /\ pc[t] \notin CountedPC /\ l \in CountedPC =>
                 Cardinality(Counted') = Cardinality(Counted) + 1
           /\ pc[t] \in CountedPC /\ l \notin CountedPC =>
                 Cardinality(Counted') = Cardinality(Counted) - 1
           /\ pc[t] \notin CountedPC /\ l \notin CountedPC =>
                 Counted' = Counted
<1>1. pc \in [Thread -> PC] /\ pc' = [pc EXCEPT ![t] = l]
    BY DEF TypeOK, Goto
<1>2. IsFiniteSet(Counted) /\ Cardinality(Counted) \in Nat
    BY CountedFinite
<1>3. ASSUME pc[t] \notin CountedPC, l \in CountedPC
      PROVE  Cardinality(Counted') = Cardinality(Counted) + 1
    <2>1. t \notin Counted /\ Counted' = Counted \cup {t}
        BY <1>1, <1>3 DEF Counted, CountedPC
    <2> QED
        BY <2>1, <1>2, FS_AddElement
<1>4. ASSUME pc[t] \in CountedPC, l \notin CountedPC
      PROVE  Cardinality(Counted') = Cardinality(Counted) - 1
    <2>1. t \in Counted /\ Counted' = Counted \ {t}
        BY <1>1, <1>4 DEF Counted, CountedPC
    <2> QED
        BY <2>1, <1>2, FS_RemoveElement
<1>5. ASSUME pc[t] \notin CountedPC, l \notin CountedPC
      PROVE  Counted' = Counted
    BY <1>1, <1>5 DEF Counted, CountedPC
<1> QED
    BY <1>3, <1>4, <1>5

\* How a move changes the owners of the bit.
LEMMA OwnerChange ==
    ASSUME TypeOK, NEW t \in Thread, NEW l \in PC, Goto(t, l)
    PROVE  /\ l \in OwnerPC => Owners' = Owners \cup {t}
           /\ l \notin OwnerPC => Owners' = Owners \ {t}
           /\ t \in Owners <=> pc[t] \in OwnerPC
<1>1. pc \in [Thread -> PC] /\ pc' = [pc EXCEPT ![t] = l]
    BY DEF TypeOK, Goto
<1> QED
    BY <1>1 DEF Owners, OwnerPC

\* Every label a step goes to, stated once for the actions below.
LEMMA Moves ==
    ASSUME NEW t \in Thread, Call(t) \/ Step(t)
    PROVE  \E l \in PC : Goto(t, l)
BY DEF Call, Step, BeginWrite, BackOff, SpinEnds, EndWrite, ResizeLoad,
       ResizeCAS, ClearLoad, ClearCAS, Drain, Release, PC

-------------------------------------------------------------------------------
\* Type correctness of one step; the word stays a natural number because
\* whoever subtracts from it is counted in it or owns the bit.
LEMMA TypeStep ==
    ASSUME GateInv, NEW t \in Thread, Call(t) \/ Step(t)
    PROVE  TypeOK'
<1>1. TypeOK
    BY DEF GateInv
<1>2. PICK l \in PC : Goto(t, l)
    BY Moves
<1>3. pc' \in [Thread -> PC]
    BY <1>1, <1>2 DEF TypeOK, Goto
<1>4. old' \in [Thread -> Nat]
    BY <1>1 DEF TypeOK, Call, Step, BeginWrite, BackOff, SpinEnds, EndWrite,
                ResizeLoad, ResizeCAS, ClearLoad, ClearCAS, Drain, Release
<1>5. state' \in Nat
    <2> DEFINE n == Cardinality(Counted)
    <2>1. /\ n \in Nat
          /\ state \in Nat
          /\ ShardResizing \in Nat
          /\ state = n + IF Owners = {} THEN 0 ELSE ShardResizing
        BY CountedFinite, ResizingAssumption, <1>1 DEF GateInv, TypeOK, StateWord
    <2>2. t \in Counted => n # 0
        BY CountedFinite, FS_EmptySet
    <2>3. pc[t] \in CountedPC => t \in Counted
        BY DEF Counted, CountedPC
    <2>4. pc[t] \in OwnerPC => Owners # {}
        BY DEF Owners, OwnerPC
    <2> HIDE DEF n
    <2>5. CASE BackOff(t) \/ EndWrite(t)
        <3>1. pc[t] \in CountedPC /\ state' = state - 1
            BY <2>5 DEF BackOff, EndWrite, CountedPC
        <3> QED
            BY <3>1, <2>1, <2>2, <2>3
    <2>6. CASE Release(t)
        <3>1. pc[t] \in OwnerPC /\ state' = state - ShardResizing
            BY <2>6 DEF Release, OwnerPC
        <3> QED
            BY <3>1, <2>1, <2>4
    <2>7. CASE ~(BackOff(t) \/ EndWrite(t) \/ Release(t))
        BY <2>7, <2>1 DEF Call, Step, BeginWrite, SpinEnds, ResizeLoad,
                          ResizeCAS, ClearLoad, ClearCAS, Drain
    <2> QED
        BY <2>5, <2>6, <2>7
<1> QED
    BY <1>3, <1>4, <1>5 DEF TypeOK

\* Taking the bit: the CompareAndSwap succeeds only from a word whose bit
\* was tested clear, so nobody owned it.
LEMMA TakeBit ==
    ASSUME GateInv, NEW t \in Thread,
           pc[t] \in {"cas", "clearCas"}, state = old[t]
    PROVE  Owners = {}
BY WordReads DEF GateInv, LoadedWordIsClear

\* One step keeps the word equal to the count plus the bit.
LEMMA WordStep ==
    ASSUME GateInv, NEW t \in Thread, Call(t) \/ Step(t)
    PROVE  StateWord'
<1>1. TypeOK /\ StateWord /\ OneOwner
    BY DEF GateInv
<1>2. PICK l \in PC : Goto(t, l)
    BY Moves
<1>3. pc'[t] = l /\ pc' = [pc EXCEPT ![t] = l]
    BY <1>1, <1>2 DEF TypeOK, Goto
<1> DEFINE n == Cardinality(Counted)
           m == Cardinality(Counted')
<1>4. /\ pc[t] \notin CountedPC /\ l \in CountedPC => m = n + 1
      /\ pc[t] \in CountedPC /\ l \notin CountedPC => m = n - 1
      /\ pc[t] \notin CountedPC /\ l \notin CountedPC => m = n
    BY <1>1, <1>2, CountChange
<1>5. /\ l \in OwnerPC => Owners' = Owners \cup {t}
      /\ l \notin OwnerPC => Owners' = Owners \ {t}
      /\ t \in Owners <=> pc[t] \in OwnerPC
    BY <1>1, <1>2, OwnerChange
<1>6. n \in Nat /\ ShardResizing \in Nat
    BY CountedFinite, ResizingAssumption
<1>7. state = n + IF Owners = {} THEN 0 ELSE ShardResizing
    BY <1>1 DEF StateWord
<1>8. SUFFICES state' = m + IF Owners' = {} THEN 0 ELSE ShardResizing
    BY DEF StateWord
<1> HIDE DEF n, m
<1>9. CASE BeginWrite(t)
    <2>1. pc[t] = "add" /\ state' = state + 1 /\ l \in CountedPC
        BY <1>9, <1>3, <1>1 DEF BeginWrite, Goto, CountedPC, TypeOK
    <2> QED
        BY <2>1, <1>4, <1>5, <1>6, <1>7 DEF CountedPC, OwnerPC
<1>10. CASE BackOff(t) \/ EndWrite(t)
    <2>1. /\ pc[t] \in CountedPC /\ state' = state - 1
          /\ l \notin CountedPC /\ l \notin OwnerPC /\ pc[t] \notin OwnerPC
        BY <1>10, <1>3, <1>1 DEF BackOff, EndWrite, Goto, CountedPC, OwnerPC, TypeOK
    <2> QED
        BY <2>1, <1>4, <1>5, <1>6, <1>7
<1>11. CASE (ResizeCAS(t) \/ ClearCAS(t)) /\ state = old[t]
    <2>1. pc[t] \in {"cas", "clearCas"} /\ l = "drain" /\ state' = state + ShardResizing
        BY <1>11, <1>3, <1>1 DEF ResizeCAS, ClearCAS, Goto, TypeOK
    <2>2. Owners = {}
        BY <2>1, <1>11, TakeBit
    <2> QED
        BY <2>1, <2>2, <1>4, <1>5, <1>6, <1>7 DEF CountedPC, OwnerPC
<1>12. CASE Drain(t)
    <2>1. pc[t] = "drain" /\ l = "rebuild" /\ state' = state
        BY <1>12, <1>3, <1>1 DEF Drain, Goto, TypeOK
    <2> QED
        BY <2>1, <1>4, <1>5, <1>6, <1>7 DEF CountedPC, OwnerPC
<1>13. CASE Release(t)
    <2>1. pc[t] = "rebuild" /\ l = "idle" /\ state' = state - ShardResizing
        BY <1>13, <1>3, <1>1 DEF Release, Goto, TypeOK
    <2>2. Owners = {t}
        BY <2>1, <1>5, <1>1 DEF OneOwner, OwnerPC
    <2> QED
        BY <2>1, <2>2, <1>4, <1>5, <1>6, <1>7 DEF CountedPC, OwnerPC
<1>14. CASE \/ Call(t) \/ SpinEnds(t) \/ ResizeLoad(t) \/ ClearLoad(t)
            \/ (ResizeCAS(t) \/ ClearCAS(t)) /\ state # old[t]
    <2>1. /\ state' = state
          /\ pc[t] \notin CountedPC /\ l \notin CountedPC
          /\ pc[t] \notin OwnerPC /\ l \notin OwnerPC
        BY <1>14, <1>3, <1>1 DEF Call, SpinEnds, ResizeLoad, ClearLoad,
              ResizeCAS, ClearCAS, Goto, CountedPC, OwnerPC, TypeOK
    <2> QED
        BY <2>1, <1>4, <1>5, <1>7
<1> QED
    BY <1>9, <1>10, <1>11, <1>12, <1>13, <1>14 DEF Step

\* One step keeps every conjunct of the invariant.
LEMMA GateStep ==
    ASSUME GateInv, NEW t \in Thread, Call(t) \/ Step(t)
    PROVE  GateInv'
<1>1. TypeOK /\ StateWord /\ LoadedWordIsClear /\ OneOwner /\ RebuildExcludesWriters
    BY DEF GateInv
<1>2. TypeOK' /\ StateWord'
    BY TypeStep, WordStep
<1>3. PICK l \in PC : Goto(t, l)
    BY Moves
<1>4. pc' = [pc EXCEPT ![t] = l] /\ pc \in [Thread -> PC] /\ old \in [Thread -> Nat]
    BY <1>1, <1>3 DEF TypeOK, Goto
<1>5. LoadedWordIsClear'
    <2>1. CASE ResizeLoad(t) \/ ClearLoad(t)
        <3>1. old' = [old EXCEPT ![t] = state]
            BY <2>1 DEF ResizeLoad, ClearLoad
        <3>2. l \in {"cas", "clearCas"} => ~Resizing(state)
            BY <2>1, <1>4 DEF ResizeLoad, ClearLoad, Goto
        <3> QED
            BY <3>1, <3>2, <1>1, <1>4 DEF LoadedWordIsClear, Resizing
    <2>2. CASE ~(ResizeLoad(t) \/ ClearLoad(t))
        <3>1. old' = old /\ l \notin {"cas", "clearCas"}
            BY <2>2, <1>4 DEF Call, Step, BeginWrite, BackOff, SpinEnds, EndWrite,
                  ResizeCAS, ClearCAS, Drain, Release, Goto
        <3> QED
            BY <3>1, <1>1, <1>4 DEF LoadedWordIsClear, Resizing
    <2> QED
        BY <2>1, <2>2
<1>6. OneOwner'
    <2>1. /\ l \in OwnerPC => Owners' = Owners \cup {t}
          /\ l \notin OwnerPC => Owners' = Owners \ {t}
          /\ t \in Owners <=> pc[t] \in OwnerPC
        BY <1>1, <1>3, OwnerChange
    <2>2. CASE l \in OwnerPC /\ pc[t] \notin OwnerPC
        <3>1. pc[t] \in {"cas", "clearCas"} /\ state = old[t]
            BY <2>2, <1>4 DEF Call, Step, BeginWrite, BackOff, SpinEnds, EndWrite,
                  ResizeLoad, ResizeCAS, ClearLoad, ClearCAS, Drain, Release, Goto,
                  OwnerPC
        <3>2. Owners = {}
            BY <3>1, TakeBit
        <3> QED
            BY <3>2, <2>1, <2>2 DEF OneOwner
    <2>3. CASE ~(l \in OwnerPC /\ pc[t] \notin OwnerPC)
        <3>1. Owners' \subseteq Owners
            BY <2>1, <2>3
        <3> QED
            BY <3>1, <1>1 DEF OneOwner
    <2> QED
        BY <2>2, <2>3
<1>7. RebuildExcludesWriters'
    <2>1. CASE Drain(t)
        <3>1. Counted = {} /\ l = "rebuild"
            BY <2>1, <1>1, <1>4, WordReads DEF Drain, Goto
        <3>2. \A u \in Thread : pc[u] # "writing"
            BY <3>1 DEF Counted
        <3> QED
            BY <3>1, <3>2, <1>4 DEF RebuildExcludesWriters
    <2>2. CASE BeginWrite(t)
        <3>1. l = "writing" => Owners = {}
            BY <2>2, <1>1, <1>4, WordReads DEF BeginWrite, Goto
        <3>2. l = "writing" => \A u \in Thread : pc[u] # "rebuild"
            BY <3>1 DEF Owners
        <3>3. l # "rebuild"
            BY <2>2, <1>4 DEF BeginWrite, Goto
        <3> QED
            BY <3>2, <3>3, <1>1, <1>4 DEF RebuildExcludesWriters
    <2>3. CASE ~(Drain(t) \/ BeginWrite(t))
        <3>1. l \notin {"writing", "rebuild"}
            BY <2>3, <1>4 DEF Call, Step, BackOff, SpinEnds, EndWrite,
                  ResizeLoad, ResizeCAS, ClearLoad, ClearCAS, Release, Goto
        <3> QED
            BY <3>1, <1>1, <1>4 DEF RebuildExcludesWriters
    <2> QED
        BY <2>1, <2>2, <2>3
<1> QED
    BY <1>2, <1>5, <1>6, <1>7 DEF GateInv

\* Before any call the word is 0, nobody is counted and nobody owns the bit.
LEMMA GateInit == Init => GateInv
<1> SUFFICES ASSUME Init PROVE GateInv
    OBVIOUS
<1>1. Counted = {} /\ Owners = {}
    BY DEF Init, Counted, Owners
<1>2. TypeOK /\ LoadedWordIsClear /\ OneOwner /\ RebuildExcludesWriters
    BY <1>1 DEF Init, TypeOK, PC, LoadedWordIsClear, OneOwner, RebuildExcludesWriters
<1>3. StateWord
    BY <1>1, FS_EmptySet DEF Init, StateWord
<1> QED
    BY <1>2, <1>3 DEF GateInv

\* The gate's inductive invariant holds in every behaviour of beginWrite,
\* endWrite, resizeAt and clear on one state word, whatever the number of
\* goroutines: the count and the bit never disturb each other.
THEOREM GateInvariant == Spec => []GateInv
<1>1. GateInv /\ [Next]_vars => GateInv'
    <2> SUFFICES ASSUME GateInv, [Next]_vars PROVE GateInv'
        OBVIOUS
    <2>1. CASE Next
        BY <2>1, GateStep DEF Next
    <2>2. CASE UNCHANGED vars
        BY <2>2 DEF vars, GateInv, TypeOK, StateWord, LoadedWordIsClear, OneOwner,
              RebuildExcludesWriters, Counted, Owners, Resizing
    <2> QED
        BY <2>1, <2>2
<1> QED
    BY <1>1, GateInit, PTL DEF Spec

\* No thread is inside a write section while resizeAt or clear replaces the
\* table, for every number of goroutines.
THEOREM RebuildIsExclusive == Spec => []RebuildExcludesWriters
<1>1. GateInv => RebuildExcludesWriters
    BY DEF GateInv
<1> QED
    BY <1>1, GateInvariant, PTL

-------------------------------------------------------------------------------
\* Every step of the word is a step of WriteGate or leaves it unchanged.
LEMMA GateSimulation ==
    ASSUME GateInv, NEW t \in Thread, Call(t) \/ Step(t)
    PROVE  [Gate!Next]_(Gate!vars)
<1> DEFINE W == {u \in Thread : pc[u] = "writing"}
           R == \E u \in Thread : pc[u] = "rebuild"
<1>1. /\ TypeOK /\ StateWord /\ OneOwner /\ RebuildExcludesWriters
      /\ pc \in [Thread -> PC]
    BY DEF GateInv, TypeOK
<1>2. SUFFICES \/ Gate!Enter(t) \/ Gate!Leave(t) \/ Gate!Acquire(t)
               \/ Gate!Drained(t) \/ Gate!Release(t)
               \/ W' = W /\ Owners' = Owners /\ R' = R
    BY DEF Gate!Next, Gate!vars
<1>3. PICK l \in PC : pc' = [pc EXCEPT ![t] = l]
    BY Moves DEF Goto
<1>4. /\ W' = IF l = "writing" THEN W \cup {t} ELSE W \ {t}
      /\ Owners' = IF l \in {"drain", "rebuild"} THEN Owners \cup {t} ELSE Owners \ {t}
      /\ t \in W <=> pc[t] = "writing"
      /\ t \in Owners <=> pc[t] \in {"drain", "rebuild"}
    BY <1>1, <1>3 DEF Owners
<1>5. CASE BeginWrite(t) /\ l = "writing"
    <2>1. pc[t] = "add" /\ Owners = {}
        BY <1>1, <1>3, <1>5, WordReads DEF BeginWrite, Goto
    <2>2. R' = R
        BY <2>1, <1>1, <1>3, <1>5
    <2> QED
        BY <2>1, <2>2, <1>4, <1>5 DEF Gate!Enter
<1>6. CASE EndWrite(t)
    <2>1. pc[t] = "writing" /\ l \in {"idle", "load"}
        BY <1>1, <1>3, <1>6 DEF EndWrite, Goto
    <2>2. R' = R
        BY <2>1, <1>1, <1>3
    <2> QED
        BY <2>1, <2>2, <1>4 DEF Gate!Leave
<1>7. CASE (ResizeCAS(t) \/ ClearCAS(t)) /\ l = "drain"
    <2>1. pc[t] \in {"cas", "clearCas"} /\ state = old[t]
        BY <1>1, <1>3, <1>7 DEF ResizeCAS, ClearCAS, Goto
    <2>2. Owners = {}
        BY <2>1, TakeBit
    <2>3. R' = R
        BY <2>1, <1>1, <1>3, <1>7
    <2> QED
        BY <2>1, <2>2, <2>3, <1>4, <1>7 DEF Gate!Acquire
<1>8. CASE Drain(t)
    <2>1. pc[t] = "drain" /\ l = "rebuild" /\ state = ShardResizing
        BY <1>1, <1>3, <1>8 DEF Drain, Goto
    <2>2. W = {}
        BY <2>1, <1>1, WordReads DEF Counted
    <2>3. Owners = {t}
        BY <2>1, <1>1, <1>4 DEF OneOwner
    <2>4. ~R
        BY <2>1, <2>3, <1>1 DEF Owners
    <2>5. R'
        BY <2>1, <1>1, <1>3
    <2> QED
        BY <2>1, <2>2, <2>3, <2>4, <2>5, <1>4 DEF Gate!Drained
<1>9. CASE Release(t)
    <2>1. pc[t] = "rebuild" /\ l = "idle"
        BY <1>1, <1>3, <1>9 DEF Release, Goto
    <2>2. Owners = {t}
        BY <2>1, <1>1, <1>4 DEF OneOwner
    <2>3. R
        BY <2>1
    <2>4. ~R'
        BY <2>1, <2>2, <1>1, <1>3 DEF Owners
    <2> QED
        BY <2>1, <2>2, <2>3, <2>4, <1>4 DEF Gate!Release
<1>10. CASE ~(\/ BeginWrite(t) /\ l = "writing"
              \/ EndWrite(t)
              \/ Drain(t)
              \/ Release(t)
              \/ (ResizeCAS(t) \/ ClearCAS(t)) /\ l = "drain")
    <2>1. /\ pc[t] \notin {"writing", "drain", "rebuild"}
          /\ l \notin {"writing", "drain", "rebuild"}
        BY <1>10, <1>1, <1>3 DEF Call, Step, BeginWrite, BackOff, SpinEnds,
              ResizeLoad, ResizeCAS, ClearLoad, ClearCAS, Goto
    <2>2. R' = R
        BY <2>1, <1>1, <1>3
    <2> QED
        BY <2>1, <2>2, <1>4
<1> QED
    BY <1>5, <1>6, <1>7, <1>8, <1>9, <1>10

\* beginWrite, endWrite, resizeAt and clear implement WriteGate: one count
\* and one bit in a shared word behave as a writers/rebuilder gate, whatever
\* the number of goroutines.
THEOREM WordImplementsGate == Spec => ImplementsWriteGate
<1>1. Init => Gate!Init
    BY DEF Init, Gate!Init, Owners
<1>2. GateInv /\ [Next]_vars => [Gate!Next]_(Gate!vars)
    <2> SUFFICES ASSUME GateInv, [Next]_vars PROVE [Gate!Next]_(Gate!vars)
        OBVIOUS
    <2>1. CASE Next
        BY <2>1, GateSimulation DEF Next
    <2>2. CASE UNCHANGED vars
        BY <2>2 DEF vars, Gate!vars, Owners
    <2> QED
        BY <2>1, <2>2
<1> QED
    BY <1>1, <1>2, GateInvariant, PTL DEF Spec, ImplementsWriteGate, Gate!Spec
===============================================================================
