--------------------------- MODULE ProbeTableProofs ---------------------------
(***************************************************************************)
(* Proofs about ProbeTable, for any set of goroutines and keys, any table  *)
(* sizes and any number of calls and rebuilds: tables stay sound, a lookup *)
(* misses only with an excuse, and the counters are exact.                 *)
(*                                                                         *)
(* None of the three is inductive.  That an insertion does not add its key *)
(* a second time follows from what its probe has passed (Chained) together  *)
(* with Unbroken: an entry of the key further on would have the slot it    *)
(* is about to take as a link of its chain.  That a rebuild does not, from *)
(* the new table holding exactly the keys copied so far (Copying).  That   *)
(* the current table stands still meanwhile is the gate's doing (Gated).   *)
(* A lookup finds its key because on its way there, from the moment it     *)
(* began, every control word is set (Witnessed), and words are never       *)
(* cleared.                                                                *)
(***************************************************************************)
EXTENDS ProbeTable, FiniteSetTheorems, TLAPS

Table(n) == [n : {n}, slot : [Slots(n) -> Key \cup {Nil}], ctrl : [Slots(n) -> Nat]]
Tables == UNION {Table(n) : n \in Sizes}

\* The labels of each operation.
Labels(op) ==
    CASE op = "" -> {"idle"}
      [] op = "lookup" -> {"find", "found", "missed"}
      [] op = "insert" -> {"begin", "probe", "cas", "retry", "publish", "end", "endGrow",
                           "full", "leave", "resize", "drain", "copy", "release"}
      [] op = "delete" -> {"begin", "find", "found", "leave", "end", "resize", "drain",
                           "copy", "release"}
      [] op = "cleanup" -> {"resize", "drain", "copy", "release"}
      [] op = "clear" -> {"clear", "drain", "copy", "release"}
KeyOp == {"insert", "delete", "lookup"}
Op == KeyOp \cup {"", "cleanup", "clear"}

PC == {"idle", "begin", "probe", "cas", "retry", "publish", "end", "endGrow", "full", "leave",
       "find", "found", "missed", "resize", "clear", "drain", "copy", "release"}

Locals == [pc : PC, op : Op, key : Key \cup {Nil}, gen : Nat, d : Nat, min : Int,
           again : BOOLEAN, calls : Nat]

\* The states the variables are in.
TypeOK ==
    /\ tabs \in Seq(Tables) /\ Len(tabs) > 0
    /\ tombs \subseteq Key
    /\ cnt \in [live : Int, used : Int, tomb : Int]
    /\ gate \in [writers : SUBSET Thread, owner : Thread \cup {Nil}]
    /\ fresh \in Tables /\ next \in Nat
    /\ th \in [Thread -> Locals]

\* Where a thread is goes with its operation, its table and its position.
Located(t) ==
    /\ th[t].pc \in Labels(th[t].op)
    /\ th[t].op \in KeyOp => th[t].key \in Key
    /\ th[t].again => th[t].op = "insert"
    /\ th[t].gen \in 1..Len(tabs)
    /\ th[t].pc \in {"find", "probe", "cas", "publish"} =>
          th[t].d \in Slots(tabs[th[t].gen].n)

\* Between beginWrite and endWrite.
Inside(t) ==
    \/ th[t].pc \in {"probe", "cas", "retry", "publish", "end", "endGrow", "full", "leave"}
    \/ th[t].pc \in {"find", "found"} /\ th[t].op # "lookup"

\* A writer inside the gate works on the current table; a rebuild owns the
\* bit, and copies once the writers are gone.
Gated(t) ==
    /\ Inside(t) => t \in gate.writers /\ th[t].gen = Len(tabs)
    /\ th[t].pc \in {"drain", "copy", "release"} => gate.owner = t
    /\ At(t, "copy") => gate.writers = {}

\* The slots an insertion has passed hold other keys.
Chained(t) ==
    th[t].pc \in {"probe", "cas"} =>
        \A e \in 0..(th[t].d - 1) :
            Current.slot[Probe(Current.n, th[t].key, e)] \notin {Nil, th[t].key}

\* An insertion that has set its slot has still to set the control word.
Placed(t) ==
    At(t, "publish") =>
        /\ Current.slot[Here(t, Current.n)] = th[t].key
        /\ Current.ctrl[Here(t, Current.n)] = 0

\* delete has found an entry of its key.
Holding(t) == At(t, "found") /\ th[t].op = "delete" => Published(Current, th[t].key)

\* The new table holds the keys with a value of the slots copied so far.
Copying(t) ==
    At(t, "copy") =>
        IF th[t].op = "clear"
        THEN next = Current.n /\ \A k \in Key : ~InTable(fresh, k)
        ELSE /\ next \in 0..Current.n
             /\ \A k \in Key : InTable(fresh, k) <=>
                   k \notin tombs /\ \E i \in 0..(next - 1) : Current.slot[i] = k

\* On its way to an entry of its key a lookup meets only set control words.
Ahead(T, k, d) ==
    \E f \in Slots(T.n) :
        /\ d <= f /\ T.slot[Probe(T.n, k, f)] = k
        /\ \A e \in 0..f : T.ctrl[Probe(T.n, k, e)] # 0

Witnessed(t) ==
    th[t].op = "lookup" /\ exc[t] = {} =>
        /\ At(t, "find") => Ahead(tabs[th[t].gen], th[t].key, th[t].d)
        /\ ~At(t, "missed")

Local(t) ==
    /\ Located(t) /\ Gated(t) /\ Chained(t) /\ Placed(t) /\ Holding(t) /\ Copying(t)
    /\ Witnessed(t)

\* Two insertions in progress have different keys.
OnePublisher ==
    \A t, u \in Thread : At(t, "publish") /\ At(u, "publish") /\ t # u => th[t].key # th[u].key

\* A control word that is set belongs to the entry in its slot.
WordsMatch(T) ==
    \A i \in Slots(T.n) :
        T.ctrl[i] # 0 => T.slot[i] \in Key /\ T.ctrl[i] = Fp[T.slot[i]]
\* Every entry has its control word.
WordsSet(T) == \A i \in Slots(T.n) : T.slot[i] # Nil => T.ctrl[i] # 0

\* Only insertions in progress leave a slot without its control word.
Words ==
    /\ \A g \in 1..Len(tabs) : WordsMatch(tabs[g])
    /\ WordsMatch(fresh) /\ WordsSet(fresh)
    /\ \A i \in Slots(Current.n) : Current.slot[i] # Nil /\ Current.ctrl[i] = 0 =>
          \E u \in Thread : At(u, "publish") /\ Here(u, Current.n) = i

\* The counters count the published entries of the current table.
PublishedKeys == {k \in Key : Published(Current, k)}
Counted ==
    /\ IsFiniteSet(PublishedKeys) /\ tombs \subseteq PublishedKeys
    /\ cnt.used = Cardinality(PublishedKeys) /\ cnt.tomb = Cardinality(tombs)
    /\ cnt.live = cnt.used - cnt.tomb

ProbeInv ==
    /\ TypeOK /\ (\A t \in Thread : Local(t))
    /\ OnePublisher /\ Words /\ TablesSound /\ Counted
-------------------------------------------------------------------------------
\* What a table consists of.
LEMMA TableFields ==
    ASSUME NEW T \in Tables
    PROVE  /\ T.n \in Sizes /\ T.n \in Nat /\ T.n > 0
           /\ T.slot \in [Slots(T.n) -> Key \cup {Nil}]
           /\ T.ctrl \in [Slots(T.n) -> Nat]
           /\ T = [n |-> T.n, slot |-> T.slot, ctrl |-> T.ctrl]
  BY SizesAssumption DEF Tables, Table

\* newTableWithSlots: every slot is nil and every control word 0.
LEMMA NewTableEmpty ==
    ASSUME NEW n \in Sizes
    PROVE  /\ NewTable(n) \in Tables /\ NewTable(n).n = n
           /\ \A i \in Slots(n) : NewTable(n).slot[i] = Nil /\ NewTable(n).ctrl[i] = 0
  BY DEF NewTable, Tables, Table

\* The current table is one of the tables.
LEMMA CurrentTable ==
    ASSUME TypeOK
    PROVE  /\ Len(tabs) \in Nat /\ Len(tabs) \in 1..Len(tabs)
           /\ Current \in Tables /\ \A g \in 1..Len(tabs) : tabs[g] \in Tables
  BY DEF TypeOK, Current

\* The d-th slot of a probe is a slot of the table, another one for each d,
\* and every slot is some key's d-th.
LEMMA ProbeSlots ==
    ASSUME NEW T \in Tables, NEW k \in Key
    PROVE  /\ \A d \in Slots(T.n) : Probe(T.n, k, d) \in Slots(T.n)
           /\ \A d \in Slots(T.n) : \A e \in 0..d :
                 e \in Slots(T.n) /\ Probe(T.n, k, e) \in Slots(T.n)
           /\ \A i \in Slots(T.n) : \E d \in Slots(T.n) : Probe(T.n, k, d) = i
           /\ \A d, e \in Slots(T.n) : Probe(T.n, k, d) = Probe(T.n, k, e) => d = e
<1>1. T.n \in Sizes /\ T.n \in Nat
  BY TableFields
<1>2. \A d \in Slots(T.n) : \A e \in 0..d : e \in Slots(T.n)
  BY <1>1 DEF Slots
<1>3. QED
  BY <1>1, <1>2, ProbeAssumption

\* A table that only gains entries and control words.
Grows(T, U) ==
    /\ U.n = T.n
    /\ \A i \in Slots(T.n) : /\ T.slot[i] # Nil => U.slot[i] = T.slot[i]
                             /\ T.ctrl[i] # 0 => U.ctrl[i] = T.ctrl[i]

\* What a lookup has ahead of it stays there.
LEMMA AheadGrows ==
    ASSUME NEW T \in Tables, NEW U \in Tables, NEW k \in Key, NEW d \in Nat,
           Grows(T, U), Ahead(T, k, d)
    PROVE  Ahead(U, k, d)
<1>1. PICK f \in Slots(T.n) : /\ d <= f /\ T.slot[Probe(T.n, k, f)] = k
                              /\ \A e \in 0..f : T.ctrl[Probe(T.n, k, e)] # 0
  BY DEF Ahead
<1>2. /\ Probe(T.n, k, f) \in Slots(T.n)
      /\ \A e \in 0..f : Probe(T.n, k, e) \in Slots(T.n)
  BY ProbeSlots
<1>3. k # Nil
  BY KeysAssumption
<1>4. QED
  BY <1>1, <1>2, <1>3 DEF Ahead, Grows

\* A lookup without an excuse had none before, its key is published, and no
\* insertion is in progress.
LEMMA NoExcuse ==
    ASSUME Watch, NEW u \in Thread, th'[u].op = "lookup", exc'[u] = {}
    PROVE  exc[u] = {} /\ Published(Current, th[u].key)' /\ \A v \in Thread : ~At(v, "publish")'
<1>1. exc'[u] = Excuses(u)' \cup exc[u]
  BY DEF Watch
<1>2. exc[u] = {} /\ Excuses(u)' = {}
  BY <1>1
<1>3. "absent" \notin Excuses(u)' /\ "unfinished" \notin Excuses(u)'
  BY <1>2
<1>4. QED
  BY <1>2, <1>3 DEF Excuses

-------------------------------------------------------------------------------
\* What a step of t may do to the gate: others stay inside, nobody enters
\* while the bit is taken, and only its owner gives it back.
GateStep(t) ==
    /\ gate' \in [writers : SUBSET Thread, owner : Thread \cup {Nil}]
    /\ gate.writers \ {t} \subseteq gate'.writers
    /\ gate.writers = {} /\ gate.owner # Nil => gate'.writers = {}
    /\ \A u \in Thread \ {t} : gate.owner = u => gate'.owner = u

\* The actions on the gate are such steps.
LEMMA GateSteps ==
    ASSUME TypeOK, NEW t \in Thread,
           \/ UNCHANGED gate \/ Enter(t) \/ Leave(t)
           \/ gate.owner = Nil /\ gate' = [gate EXCEPT !.owner = t]
           \/ gate.owner = t /\ gate' = [gate EXCEPT !.owner = Nil]
    PROVE  GateStep(t)
  BY KeysAssumption DEF TypeOK, GateStep, Enter, Leave

\* What a step may do to the tables: those there are only gain.
TabsGrow ==
    /\ tabs' \in Seq(Tables) /\ Len(tabs') >= Len(tabs)
    /\ \A g \in 1..Len(tabs) : Grows(tabs[g], tabs'[g])

\* A thread that does not move stays in its table, with its key ahead of it.
LEMMA OthersLocated ==
    ASSUME TypeOK, NEW u \in Thread, Located(u), Witnessed(u), th'[u] = th[u],
           TabsGrow, Watch
    PROVE  Located(u)' /\ Witnessed(u)'
<1>1. /\ Len(tabs) \in Nat /\ Len(tabs') \in Nat /\ th[u] \in Locals
      /\ \A g \in 1..Len(tabs) : tabs[g] \in Tables /\ tabs'[g] \in Tables /\ g \in 1..Len(tabs')
      /\ th[u].gen \in 1..Len(tabs) /\ th[u].d \in Nat
  BY DEF TypeOK, TabsGrow, Located, Locals
<1>2. Grows(tabs[th[u].gen], tabs'[th[u].gen])
  BY <1>1 DEF TabsGrow
<1>3. Located(u)'
  BY <1>1, <1>2 DEF Located, Grows
<1>4. ASSUME th[u].op = "lookup", exc'[u] = {} PROVE Witnessed(u)'
  <2>1. exc[u] = {}
    BY <1>4, NoExcuse
  <2>2. ~At(u, "missed")'
    BY <1>4, <2>1 DEF Witnessed, At
  <2>3. ASSUME At(u, "find")
        PROVE  Ahead(tabs'[th[u].gen], th[u].key, th[u].d)
    <3>1. Ahead(tabs[th[u].gen], th[u].key, th[u].d)
      BY <1>4, <2>1, <2>3 DEF Witnessed
    <3>2. th[u].key \in Key
      BY <1>4 DEF Located, KeyOp
    <3>3. QED
      BY <1>1, <1>2, <3>1, <3>2, AheadGrows
  <2>4. QED
    BY <2>2, <2>3 DEF Witnessed, At
<1>5. QED
  BY <1>3, <1>4 DEF Witnessed

\* So does its place in the gate, and what it has passed or found.
LEMMA OthersKeep ==
    ASSUME ProbeInv, NEW t \in Thread, NEW u \in Thread \ {t}, th'[u] = th[u],
           GateStep(t), TabsGrow, Len(tabs') = Len(tabs), Watch, Placed(u)', Copying(u)'
    PROVE  Local(u)'
<1>1. /\ TypeOK /\ Located(u) /\ Gated(u) /\ Chained(u) /\ Holding(u) /\ Witnessed(u)
  BY DEF ProbeInv, Local
<1>2. Located(u)' /\ Witnessed(u)'
  BY <1>1, OthersLocated
<1>3. Gated(u)'
  BY <1>1, KeysAssumption DEF Gated, Inside, At, GateStep
<1>4. /\ Current \in Tables /\ Current' \in Tables /\ Grows(Current, Current')
  BY <1>1 DEF TypeOK, TabsGrow, Current
<1>5. Chained(u)'
  <2>1. SUFFICES ASSUME th[u].pc \in {"probe", "cas"}, NEW e \in 0..(th[u].d - 1)
                 PROVE  Current'.slot[Probe(Current'.n, th[u].key, e)] \notin {Nil, th[u].key}
    BY DEF Chained
  <2>2. /\ th[u].key \in Key /\ th[u].d \in Slots(Current.n)
    BY <1>1, <2>1 DEF Located, Gated, Inside, Labels, KeyOp, Op, Current, TypeOK, Locals
  <2>3. e \in 0..th[u].d
    BY <2>1, <2>2, <1>4, TableFields DEF Slots
  <2>4. Probe(Current.n, th[u].key, e) \in Slots(Current.n)
    BY <2>2, <2>3, <1>4, ProbeSlots
  <2>5. Current.slot[Probe(Current.n, th[u].key, e)] \notin {Nil, th[u].key}
    BY <1>1, <2>1 DEF Chained
  <2>6. QED
    BY <1>4, <2>4, <2>5 DEF Grows
<1>6. Holding(u)'
  BY <1>1, <1>4, KeysAssumption DEF Holding, Published, Grows, At, Located, KeyOp
<1>7. QED
  BY <1>2, <1>3, <1>5, <1>6 DEF Local

\* A step that leaves the tables and the rebuild alone keeps the invariant if
\* the thread's own part and the counters hold afterwards; tombstones change
\* only inside the gate, where no rebuild copies.
LEMMA FrameCounts ==
    ASSUME ProbeInv, NEW t \in Thread, th' \in [Thread -> Locals],
           \A u \in Thread \ {t} : th'[u] = th[u],
           GateStep(t), UNCHANGED <<tabs, fresh, next>>, Watch,
           UNCHANGED tombs \/ t \in gate.writers,
           tombs' \subseteq Key, cnt' \in [live : Int, used : Int, tomb : Int], Counted',
           ~At(t, "publish"), ~At(t, "publish")', Local(t)'
    PROVE  ProbeInv'
<1>1. TypeOK /\ OnePublisher /\ Words /\ TablesSound
  BY DEF ProbeInv
<1>2. TypeOK'
  BY <1>1 DEF TypeOK, GateStep
<1>3. TabsGrow
  BY <1>1 DEF TypeOK, TabsGrow, Grows
<1>4. ASSUME NEW u \in Thread PROVE Local(u)'
  <2>1. CASE u = t
    BY <2>1
  <2>2. CASE u # t
    <3>1. Placed(u) /\ Copying(u) /\ Gated(u) /\ th'[u] = th[u]
      BY <2>2 DEF ProbeInv, Local
    <3>2. Placed(u)'
      BY <3>1 DEF Placed, At, Here, Current
    <3>3. Copying(u)'
      BY <3>1 DEF Copying, At, Current, InTable, Gated
    <3>4. QED
      BY <3>1, <3>2, <3>3, <2>2, <1>3, OthersKeep
  <2>3. QED
    BY <2>1, <2>2
<1>5. \A u \in Thread : At(u, "publish")' <=> At(u, "publish")
  BY DEF At
<1>6. \A u \in Thread : At(u, "publish") => th'[u] = th[u]
  BY DEF At
<1>7. OnePublisher'
  BY <1>1, <1>5, <1>6 DEF OnePublisher
<1>8. Words'
  BY <1>1, <1>5, <1>6 DEF Words, Here, Current, WordsMatch, WordsSet
<1>9. TablesSound'
  BY <1>1 DEF TablesSound, UniqueKey, Unbroken
<1>10. QED
  BY <1>2, <1>4, <1>7, <1>8, <1>9 DEF ProbeInv

\* So does a step that leaves the tombstones and the counters alone as well.
LEMMA Frame ==
    ASSUME ProbeInv, NEW t \in Thread, th' \in [Thread -> Locals],
           \A u \in Thread \ {t} : th'[u] = th[u],
           GateStep(t), UNCHANGED <<tabs, tombs, cnt, fresh, next>>, Watch,
           ~At(t, "publish"), ~At(t, "publish")', Local(t)'
    PROVE  ProbeInv'
<1>1. tombs' \subseteq Key /\ cnt' \in [live : Int, used : Int, tomb : Int]
  BY DEF ProbeInv, TypeOK
<1>2. Counted'
  BY DEF ProbeInv, Counted, PublishedKeys, Published, Current
<1>3. QED
  BY <1>1, <1>2, FrameCounts

\* The locals of a thread between calls.
LEMMA IdleTyped == Idle \in Locals
  BY SMT DEF Idle, Locals, PC, Op, KeyOp

\* The locals a thread may have after a step.
LEMMA LocalsEdits ==
    ASSUME NEW r \in Locals
    PROVE  /\ [r EXCEPT !.d = @ + 1] \in Locals
           /\ \A x \in Int : [r EXCEPT !.pc = "resize", !.min = x] \in Locals
           /\ \A x \in Int : [r EXCEPT !.pc = "resize", !.min = x, !.again = TRUE] \in Locals
           /\ [Idle EXCEPT !.calls = r.calls] \in Locals
<1>1. [r EXCEPT !.d = @ + 1] \in Locals
  BY DEF Locals
<1>2. ASSUME NEW x \in Int PROVE [r EXCEPT !.pc = "resize", !.min = x] \in Locals
  BY DEF Locals, PC
<1>3. ASSUME NEW x \in Int PROVE [r EXCEPT !.pc = "resize", !.min = x, !.again = TRUE] \in Locals
  BY DEF Locals, PC
<1>4. Idle \in Locals
  BY IdleTyped
<1>5. r.calls \in Nat
  BY DEF Locals
<1>6. [Idle EXCEPT !.calls = r.calls] \in Locals
  BY <1>4, <1>5 DEF Locals
<1>7. QED
  BY <1>1, <1>2, <1>3, <1>6

\* A call names an operation, and a key where the operation takes one.
LEMMA CallsTyped ==
    ASSUME NEW c \in Calls
    PROVE  /\ c[1] \in Op \ {""} /\ c[2] \in Key \cup {Nil}
           /\ c[1] \in KeyOp => c[2] \in Key
           /\ First[c[1]] \in PC /\ First[c[1]] \in Labels(c[1])
           /\ First[c[1]] \in {"begin", "find", "resize", "clear"}
           /\ First[c[1]] = "find" <=> c[1] = "lookup"
<1>1. c \in KeyOp \X Key \/ c = <<"cleanup", Nil>> \/ c = <<"clear", Nil>>
  BY CallsAssumption DEF KeyOp
<1>2. c[1] \in Op \ {""} /\ c[2] \in Key \cup {Nil} /\ (c[1] \in KeyOp => c[2] \in Key)
  <2>1. CASE c \in KeyOp \X Key
    BY <2>1 DEF Op, KeyOp
  <2>2. CASE c = <<"cleanup", Nil>> \/ c = <<"clear", Nil>>
    <3>1. c[1] \in {"cleanup", "clear"} /\ c[2] = Nil
      BY <2>2
    <3>2. QED
      BY <3>1 DEF Op, KeyOp
  <2>3. QED
    BY <1>1, <2>1, <2>2
<1>3. \A op \in Op \ {""} :
          /\ First[op] \in PC /\ First[op] \in Labels(op)
          /\ First[op] \in {"begin", "find", "resize", "clear"}
          /\ First[op] = "find" <=> op = "lookup"
  <2>1. /\ First["insert"] = "begin" /\ First["delete"] = "begin" /\ First["lookup"] = "find"
        /\ First["cleanup"] = "resize" /\ First["clear"] = "clear"
    BY DEF First
  <2>2. QED
    BY <2>1 DEF Op, KeyOp, PC, Labels
<1>4. QED
  BY <1>2, <1>3

\* A step moves one thread.
LEMMA Moves ==
    ASSUME ProbeInv, NEW t \in Thread, Step(t)
    PROVE  th' \in [Thread -> Locals] /\ \A u \in Thread \ {t} : th'[u] = th[u]
<1>1. /\ TypeOK /\ th \in [Thread -> Locals] /\ th[t] \in Locals /\ Len(tabs) \in Nat
      /\ cnt \in [live : Int, used : Int, tomb : Int]
  BY DEF ProbeInv, TypeOK
<1>3. ASSUME NEW l \in PC, Goto(t, l)
      PROVE  th' \in [Thread -> Locals] /\ \A u \in Thread \ {t} : th'[u] = th[u]
  BY <1>1, <1>3 DEF Goto, Locals
<1>4. ASSUME Finish(t)
      PROVE  th' \in [Thread -> Locals] /\ \A u \in Thread \ {t} : th'[u] = th[u]
  BY <1>1, <1>4, LocalsEdits DEF Finish
<1>5. ASSUME th' = [th EXCEPT ![t].d = @ + 1]
      PROVE  th' \in [Thread -> Locals] /\ \A u \in Thread \ {t} : th'[u] = th[u]
  <2>1. [th[t] EXCEPT !.d = @ + 1] \in Locals
    BY <1>1, LocalsEdits
  <2>2. th' = [th EXCEPT ![t] = [th[t] EXCEPT !.d = @ + 1]]
    BY <1>5
  <2>3. QED
    BY <2>1, <2>2, <1>1
<1>6. CASE Start(t)
  <2>1. PICK c \in Calls : th' = [th EXCEPT ![t] =
            [pc |-> First[c[1]], op |-> c[1], key |-> c[2], gen |-> Len(tabs), d |-> 0,
             min |-> cnt.live, again |-> FALSE, calls |-> th[t].calls + 1]]
    BY <1>6 DEF Start
  <2>2. c[1] \in Op /\ c[2] \in Key \cup {Nil} /\ First[c[1]] \in PC
    BY CallsTyped
  <2>3. QED
    BY <2>1, <2>2, <1>1 DEF Locals
<1>7. CASE Begin(t)
  BY <1>1, <1>7 DEF Begin, PC, Locals
<1>8. CASE ProbeSlot(t)
  BY <1>3, <1>5, <1>8 DEF ProbeSlot, NextSlot, PC
<1>9. CASE Insert(t) \/ Retry(t) \/ Publish(t)
  BY <1>3, <1>9 DEF Insert, Retry, Publish, PC
<1>10. CASE EndWrite(t)
  <2>1. CASE Finish(t)
    BY <2>1, <1>4
  <2>2. CASE th' = [th EXCEPT ![t].pc = "resize",
                              ![t].min = cnt.live + IF At(t, "endGrow") THEN 1 ELSE 0]
    <3>1. cnt.live + (IF At(t, "endGrow") THEN 1 ELSE 0) \in Int
      BY <1>1
    <3>2. QED
      BY <2>2, <3>1, <1>1, LocalsEdits
  <2>3. QED
    BY <2>1, <2>2, <1>10 DEF EndWrite
<1>11. CASE Full(t)
  <2>1. cnt.live + 1 \in Int
    BY <1>1
  <2>2. [th[t] EXCEPT !.pc = "resize", !.min = cnt.live + 1, !.again = TRUE] \in Locals
    BY <2>1, <1>1, LocalsEdits
  <2>3. QED
    BY <2>2, <1>1, <1>11 DEF Full
<1>12. CASE FindEntry(t)
  BY <1>3, <1>5, <1>12 DEF FindEntry, Missed, PC
<1>13. CASE FoundDelete(t) \/ LeaveWrite(t) \/ EndLookup(t)
  BY <1>3, <1>4, <1>13 DEF FoundDelete, LeaveWrite, EndLookup, PC
<1>14. CASE ResizeTry(t) \/ ClearTry(t) \/ Release(t)
  BY <1>3, <1>4, <1>14 DEF ResizeTry, ClearTry, Release, AfterResize, PC
<1>15. CASE Drained(t) \/ Replace(t)
  BY <1>3, <1>15 DEF Drained, Replace, PC
<1>16. CASE Copy(t)
  BY <1>1, <1>16 DEF Copy
<1>17. QED
  BY <1>6, <1>7, <1>8, <1>9, <1>10, <1>11, <1>12, <1>13, <1>14, <1>15, <1>16 DEF Step

-------------------------------------------------------------------------------
\* Labels that carry no obligation about the table.
Plain == {"idle", "begin", "retry", "end", "endGrow", "full", "leave", "resize", "clear",
          "drain", "release"}

\* At a plain label a thread promises nothing about the tables.
LEMMA PlainLabel ==
    ASSUME NEW t \in Thread, th'[t].pc \in Plain
    PROVE  Chained(t)' /\ Placed(t)' /\ Holding(t)' /\ Copying(t)'
  BY DEF Chained, Placed, Holding, Copying, At, Plain

\* When no insertion is in progress, a key that is published has its whole
\* chain published: findEntry started now meets it.
LEMMA LookupBegins ==
    ASSUME TypeOK, Words, TablesSound, NEW k \in Key, Published(Current, k),
           \A v \in Thread : ~At(v, "publish")
    PROVE  Ahead(Current, k, 0)
<1>1. /\ Current \in Tables /\ Unbroken(Current) /\ UniqueKey(Current)
  BY CurrentTable DEF TablesSound, Current
<1>2. \A i \in Slots(Current.n) : Current.slot[i] # Nil => Current.ctrl[i] # 0
  BY DEF Words
<1>3. PICK i \in Slots(Current.n) : Current.slot[i] = k
  BY DEF Published
<1>4. PICK f \in Slots(Current.n) : Probe(Current.n, k, f) = i
  BY <1>1, ProbeSlots
<1>5. k # Nil /\ f \in Nat
  BY KeysAssumption, <1>1, TableFields DEF Slots
<1>6. ASSUME NEW e \in 0..f
      PROVE  Current.ctrl[Probe(Current.n, k, e)] # 0
  <2>1. Probe(Current.n, k, e) \in Slots(Current.n)
    BY <1>1, ProbeSlots
  <2>2. Current.slot[Probe(Current.n, k, e)] # Nil
    <3>1. CASE e = f
      BY <3>1, <1>3, <1>4, <1>5
    <3>2. CASE e # f
      <4>1. e \in 0..(f - 1)
        BY <3>2, <1>5
      <4>2. QED
        BY <4>1, <1>1, <1>3, <1>4 DEF Unbroken
    <3>3. QED
      BY <3>1, <3>2
  <2>3. QED
    BY <2>1, <2>2, <1>2
<1>7. QED
  BY <1>3, <1>4, <1>5, <1>6 DEF Ahead

\* A call begins.
LEMMA StepStart ==
    ASSUME ProbeInv, NEW t \in Thread, Start(t) PROVE ProbeInv'
<1>1. /\ TypeOK /\ Words /\ TablesSound /\ Local(t) /\ At(t, "idle") /\ Watch
      /\ UNCHANGED <<tabs, tombs, cnt, gate, fresh, next>>
  BY DEF ProbeInv, Start
<1>2. th' \in [Thread -> Locals] /\ \A u \in Thread \ {t} : th'[u] = th[u]
  BY Moves DEF Step
<1>3. PICK c \in Calls : /\ th'[t].pc = First[c[1]] /\ th'[t].op = c[1] /\ th'[t].key = c[2]
                         /\ th'[t].gen = Len(tabs) /\ th'[t].d = 0 /\ th'[t].again = FALSE
  BY <1>1 DEF Start, TypeOK
<1>4. /\ c[1] \in KeyOp => c[2] \in Key
      /\ First[c[1]] \in Labels(c[1])
      /\ First[c[1]] \in {"begin", "find", "resize", "clear"}
      /\ First[c[1]] = "find" <=> c[1] = "lookup"
  BY CallsTyped
<1>5. Current \in Tables /\ Len(tabs) \in 1..Len(tabs) /\ Current = tabs[Len(tabs)]
  BY <1>1, CurrentTable DEF Current
<1>6. Located(t)'
  BY <1>1, <1>3, <1>4, <1>5, TableFields DEF Located, Slots
<1>7. Gated(t)' /\ Chained(t)' /\ Placed(t)' /\ Holding(t)' /\ Copying(t)'
  BY <1>3, <1>4 DEF Gated, Inside, At, Chained, Placed, Holding, Copying
<1>8. ASSUME th'[t].op = "lookup", exc'[t] = {}
      PROVE  At(t, "find")' /\ Ahead(Current, th'[t].key, 0)
  <2>1. /\ Published(Current, th[t].key)' /\ \A v \in Thread : ~At(v, "publish")'
    BY <1>1, <1>8, NoExcuse
  <2>2. Published(Current, th'[t].key) /\ \A v \in Thread : ~At(v, "publish")
    BY <2>1, <1>1, <1>2 DEF Published, Current, At
  <2>3. th'[t].key \in Key
    BY <1>3, <1>4, <1>8 DEF KeyOp
  <2>4. At(t, "find")'
    BY <1>3, <1>4, <1>8 DEF At
  <2>5. QED
    BY <2>2, <2>3, <2>4, <1>1, LookupBegins
<1>9. Witnessed(t)'
  BY <1>1, <1>3, <1>5, <1>8 DEF Witnessed, At
<1>10. ~At(t, "publish") /\ ~At(t, "publish")'
  BY <1>1, <1>3, <1>4 DEF At
<1>11. GateStep(t)
  BY <1>1, GateSteps
<1>12. QED
  BY <1>1, <1>2, <1>6, <1>7, <1>9, <1>10, <1>11, Frame DEF Local

\* beginWrite: the writer has the current table and has passed no slot.
LEMMA StepBegin ==
    ASSUME ProbeInv, NEW t \in Thread, Begin(t) PROVE ProbeInv'
<1>1. /\ TypeOK /\ Local(t) /\ At(t, "begin") /\ Watch /\ Enter(t)
      /\ UNCHANGED <<tabs, tombs, cnt, fresh, next>>
  BY DEF ProbeInv, Begin
<1>2. th' \in [Thread -> Locals] /\ \A u \in Thread \ {t} : th'[u] = th[u]
  BY Moves DEF Step
<1>3. /\ th'[t].pc = IF th[t].op = "insert" THEN "probe" ELSE "find"
      /\ th'[t].op = th[t].op /\ th'[t].key = th[t].key
      /\ th'[t].gen = Len(tabs) /\ th'[t].d = 0 /\ th'[t].again = FALSE
  <2>1. th'[t] = [th[t] EXCEPT !.pc = IF th[t].op = "insert" THEN "probe" ELSE "find",
                               !.gen = Len(tabs), !.d = 0, !.again = FALSE]
    BY <1>1 DEF Begin, TypeOK
  <2>2. th[t] \in Locals
    BY <1>1 DEF TypeOK
  <2>3. QED
    BY <2>1, <2>2 DEF Locals
<1>4. th[t].op \in {"insert", "delete"} /\ th[t].key \in Key
  BY <1>1 DEF Local, Located, At, Labels, TypeOK, Locals, Op, KeyOp
<1>5. Current \in Tables /\ Len(tabs) \in 1..Len(tabs) /\ Current = tabs[Len(tabs)]
  BY <1>1, CurrentTable DEF Current
<1>6. Located(t)'
  <2>1. th'[t].pc \in Labels(th'[t].op)
    BY <1>3, <1>4 DEF Labels
  <2>2. 0 \in Slots(Current.n)
    BY <1>5, TableFields DEF Slots
  <2>3. QED
    BY <2>1, <2>2, <1>1, <1>3, <1>4, <1>5 DEF Located
<1>7. Gated(t)'
  BY <1>1, <1>3, <1>4 DEF Gated, Inside, At, Enter, TypeOK
<1>8. Chained(t)' /\ Placed(t)' /\ Holding(t)' /\ Copying(t)' /\ Witnessed(t)'
  BY <1>3, <1>4 DEF At, Chained, Placed, Holding, Copying, Witnessed
<1>9. ~At(t, "publish") /\ ~At(t, "publish")'
  BY <1>1, <1>3, <1>4 DEF At
<1>10. GateStep(t)
  BY <1>1, GateSteps
<1>11. QED
  BY <1>1, <1>2, <1>6, <1>7, <1>8, <1>9, <1>10, Frame DEF Local

\* The fields after a plain jump and after the end of a call.
LEMMA GotoFields ==
    ASSUME TypeOK, NEW t \in Thread, NEW l \in PC, Goto(t, l)
    PROVE  /\ th'[t].pc = l /\ th'[t].op = th[t].op /\ th'[t].key = th[t].key
           /\ th'[t].gen = th[t].gen /\ th'[t].d = th[t].d /\ th'[t].again = th[t].again
<1>1. th[t] \in Locals /\ th'[t] = [th[t] EXCEPT !.pc = l]
  BY DEF TypeOK, Goto
<1>2. QED
  BY <1>1 DEF Locals

\* A call that has returned leaves the thread's locals as they were before it.
LEMMA FinishFields ==
    ASSUME TypeOK, NEW t \in Thread, Finish(t)
    PROVE  th'[t].pc = "idle" /\ th'[t].op = "" /\ th'[t].gen = 1 /\ th'[t].again = FALSE
<1>1. th'[t] = [Idle EXCEPT !.calls = th[t].calls]
  BY DEF TypeOK, Finish
<1>2. QED
  BY <1>1 DEF Idle

\* A writer moves between plain labels.
LEMMA PlainMove ==
    ASSUME ProbeInv, NEW t \in Thread, Step(t), ~At(t, "publish"),
           th'[t].pc \in Plain, th'[t].pc \in Labels(th[t].op), th[t].op # "lookup",
           th'[t].op = th[t].op, th'[t].key = th[t].key, th'[t].gen = th[t].gen,
           th'[t].again => th[t].op = "insert",
           UNCHANGED <<tabs, tombs, cnt, fresh, next>>, Watch, GateStep(t), Gated(t)'
    PROVE  ProbeInv'
<1>1. Located(t)
  BY DEF ProbeInv, Local
<1>2. Located(t)'
  BY <1>1 DEF Located, Plain
<1>3. Witnessed(t)' /\ ~At(t, "publish")'
  BY DEF Witnessed, At, Plain
<1>4. Chained(t)' /\ Placed(t)' /\ Holding(t)' /\ Copying(t)'
  BY PlainLabel
<1>5. Local(t)'
  BY <1>2, <1>3, <1>4 DEF Local
<1>6. QED
  BY <1>3, <1>5, Moves, Frame

\* A call ends.
LEMMA FinishMove ==
    ASSUME ProbeInv, NEW t \in Thread, Step(t), ~At(t, "publish"), Finish(t),
           UNCHANGED <<tabs, tombs, cnt, fresh, next>>, Watch, GateStep(t)
    PROVE  ProbeInv'
<1>1. TypeOK
  BY DEF ProbeInv
<1>2. th'[t].pc = "idle" /\ th'[t].op = "" /\ th'[t].gen = 1 /\ th'[t].again = FALSE
  BY <1>1, FinishFields
<1>3. Located(t)'
  <2>1. 1 \in 1..Len(tabs')
    BY <1>1 DEF TypeOK
  <2>2. QED
    BY <1>2, <2>1 DEF Located, Labels, KeyOp
<1>4. Gated(t)' /\ Witnessed(t)' /\ ~At(t, "publish")'
  BY <1>2 DEF Gated, Inside, Witnessed, At
<1>5. Chained(t)' /\ Placed(t)' /\ Holding(t)' /\ Copying(t)'
  BY <1>2, PlainLabel DEF Plain
<1>6. Local(t)'
  BY <1>3, <1>4, <1>5 DEF Local
<1>7. QED
  BY <1>4, <1>6, Moves, Frame

\* The loser of the CompareAndSwap, and writers that end.
LEMMA StepLeave ==
    ASSUME ProbeInv, NEW t \in Thread,
           Retry(t) \/ EndWrite(t) \/ Full(t) \/ LeaveWrite(t)
    PROVE  ProbeInv'
<1>1. /\ TypeOK /\ Located(t) /\ Leave(t) /\ Watch
      /\ UNCHANGED <<tabs, tombs, cnt, fresh, next>> /\ Step(t)
      /\ th[t].pc \in {"retry", "end", "endGrow", "full", "leave"}
  BY DEF ProbeInv, Local, Retry, EndWrite, Full, LeaveWrite, At, Step
<1>2. GateStep(t) /\ ~At(t, "publish")
  BY <1>1, GateSteps DEF At
<1>3. /\ th[t].op \in {"insert", "delete"}
      /\ th[t].pc \in {"retry", "full", "endGrow"} => th[t].op = "insert"
      /\ th[t].again => th[t].op = "insert"
  BY <1>1 DEF Located, Labels, TypeOK, Locals, Op, KeyOp
<1>4. CASE Finish(t)
  BY <1>1, <1>2, <1>4, FinishMove
<1>5. CASE Retry(t)
  <2>1. /\ th'[t].pc = "begin" /\ th'[t].op = th[t].op /\ th'[t].key = th[t].key
        /\ th'[t].gen = th[t].gen /\ th'[t].again = th[t].again
    BY <1>1, <1>5, GotoFields DEF Retry, PC
  <2>2. th'[t].pc \in Plain /\ th'[t].pc \in Labels(th[t].op) /\ Gated(t)'
    BY <2>1, <1>3 DEF Plain, Labels, Gated, Inside, At
  <2>3. QED
    BY <2>1, <2>2, <1>1, <1>2, <1>3, PlainMove
<1>6. CASE (EndWrite(t) /\ ~Finish(t)) \/ Full(t)
  <2>1. th[t] \in Locals
    BY <1>1 DEF TypeOK
  <2>2. /\ th'[t].pc = "resize" /\ th'[t].op = th[t].op /\ th'[t].key = th[t].key
        /\ th'[t].gen = th[t].gen
        /\ th'[t].again => th[t].op = "insert"
    <3>1. CASE EndWrite(t) /\ ~Finish(t)
      <4>1. th'[t] = [th[t] EXCEPT !.pc = "resize",
                        !.min = cnt.live + IF At(t, "endGrow") THEN 1 ELSE 0]
        BY <3>1, <1>1 DEF EndWrite, TypeOK
      <4>2. QED
        BY <4>1, <2>1, <1>3 DEF Locals
    <3>2. CASE Full(t)
      <4>1. th'[t] = [th[t] EXCEPT !.pc = "resize", !.min = cnt.live + 1, !.again = TRUE]
        BY <3>2, <1>1 DEF Full, TypeOK
      <4>2. th[t].op = "insert"
        BY <3>2, <1>3 DEF Full, At
      <4>3. QED
        BY <4>1, <4>2, <2>1 DEF Locals
    <3>3. QED
      BY <1>6, <3>1, <3>2
  <2>3. th'[t].pc \in Plain /\ th'[t].pc \in Labels(th[t].op) /\ Gated(t)'
    BY <2>2, <1>3 DEF Plain, Labels, Gated, Inside, At
  <2>4. QED
    BY <2>2, <2>3, <1>1, <1>2, <1>3, PlainMove
<1>7. QED
  BY <1>4, <1>5, <1>6 DEF LeaveWrite, EndWrite

\* findEntry returns.
LEMMA StepEndLookup ==
    ASSUME ProbeInv, NEW t \in Thread, EndLookup(t) PROVE ProbeInv'
<1>1. /\ TypeOK /\ Finish(t) /\ Watch /\ Step(t) /\ ~At(t, "publish") /\ UNCHANGED gate
      /\ UNCHANGED <<tabs, tombs, cnt, fresh, next>>
  BY DEF ProbeInv, EndLookup, Step, At
<1>2. QED
  BY <1>1, GateSteps, FinishMove

\* resizeAt returns, with the bit released or never taken.
LEMMA AfterResizeMove ==
    ASSUME ProbeInv, NEW t \in Thread, Step(t), th[t].pc \in {"resize", "release"},
           AfterResize(t), UNCHANGED <<tabs, tombs, cnt, fresh, next>>, Watch, GateStep(t)
    PROVE  ProbeInv'
<1>1. TypeOK /\ Located(t) /\ ~At(t, "publish")
  BY DEF ProbeInv, Local, At
<1>2. CASE Finish(t)
  BY <1>1, <1>2, FinishMove
<1>3. CASE th[t].again /\ Goto(t, "begin")
  <2>1. /\ th'[t].pc = "begin" /\ th'[t].op = th[t].op /\ th'[t].key = th[t].key
        /\ th'[t].gen = th[t].gen /\ th'[t].again = th[t].again /\ th[t].op = "insert"
    BY <1>1, <1>3, GotoFields DEF PC, Located
  <2>2. th'[t].pc \in Plain /\ th'[t].pc \in Labels(th[t].op) /\ Gated(t)'
    BY <2>1 DEF Plain, Labels, Gated, Inside, At
  <2>3. QED
    BY <2>1, <2>2, <1>1, PlainMove
<1>4. QED
  BY <1>2, <1>3 DEF AfterResize

\* The bit is taken, by a rebuild or by clear.
LEMMA TakeMove ==
    ASSUME ProbeInv, NEW t \in Thread, Step(t), th[t].pc \in {"resize", "clear"},
           gate.owner = Nil, gate' = [gate EXCEPT !.owner = t], Goto(t, "drain"),
           UNCHANGED <<tabs, tombs, cnt, fresh, next>>, Watch
    PROVE  ProbeInv'
<1>1. TypeOK /\ Located(t) /\ ~At(t, "publish") /\ GateStep(t)
  BY GateSteps DEF ProbeInv, Local, At
<1>2. /\ th'[t].pc = "drain" /\ th'[t].op = th[t].op /\ th'[t].key = th[t].key
      /\ th'[t].gen = th[t].gen /\ th'[t].again = th[t].again
  BY <1>1, GotoFields DEF PC
<1>3. th[t].op \in {"insert", "delete", "cleanup", "clear"}
  BY <1>1 DEF Located, Labels, TypeOK, Locals, Op, KeyOp
<1>4. Gated(t)'
  BY <1>1, <1>2 DEF Gated, Inside, At, TypeOK
<1>5. th'[t].pc \in Plain /\ th'[t].pc \in Labels(th[t].op)
  BY <1>2, <1>3 DEF Plain, Labels
<1>6. th'[t].again => th[t].op = "insert"
  BY <1>1, <1>2 DEF Located
<1>7. QED
  BY <1>1, <1>2, <1>3, <1>4, <1>5, <1>6, PlainMove

\* resizeAt and clear try to take the bit once, and give up when they cannot.
LEMMA StepResizeTry ==
    ASSUME ProbeInv, NEW t \in Thread, ResizeTry(t) \/ ClearTry(t) PROVE ProbeInv'
<1>1. /\ TypeOK /\ Watch /\ Step(t) /\ th[t].pc \in {"resize", "clear"} /\ ~At(t, "publish")
      /\ UNCHANGED <<tabs, tombs, cnt, fresh, next>>
  BY DEF ProbeInv, ResizeTry, ClearTry, Step, At
<1>2. CASE gate.owner = Nil /\ gate' = [gate EXCEPT !.owner = t] /\ Goto(t, "drain")
  BY <1>1, <1>2, TakeMove
<1>3. CASE UNCHANGED gate /\ (Finish(t) \/ (At(t, "resize") /\ AfterResize(t)))
  <2>1. GateStep(t)
    BY <1>1, <1>3, GateSteps
  <2>2. CASE Finish(t)
    BY <1>1, <2>1, <2>2, FinishMove
  <2>3. CASE At(t, "resize") /\ AfterResize(t)
    BY <1>1, <2>1, <2>3, AfterResizeMove DEF At
  <2>4. QED
    BY <1>3, <2>2, <2>3
<1>4. QED
  BY <1>2, <1>3 DEF ResizeTry, ClearTry

\* resizeAt and clear give the bit back.
LEMMA StepRelease ==
    ASSUME ProbeInv, NEW t \in Thread, Release(t) PROVE ProbeInv'
<1>1. /\ TypeOK /\ Watch /\ Step(t) /\ th[t].pc = "release" /\ gate.owner = t
      /\ gate' = [gate EXCEPT !.owner = Nil] /\ AfterResize(t)
      /\ UNCHANGED <<tabs, tombs, cnt, fresh, next>>
  BY DEF ProbeInv, Local, Gated, Release, Step, At
<1>2. GateStep(t)
  BY <1>1, GateSteps
<1>3. QED
  BY <1>1, <1>2, AfterResizeMove

\* findEntry: a lookup whose whole way to its key is published cannot stop
\* before it.
LEMMA StepFindEntry ==
    ASSUME ProbeInv, NEW t \in Thread, FindEntry(t) PROVE ProbeInv'
<1> DEFINE T == tabs[th[t].gen]
           k == th[t].key
           d == th[t].d
<1>1. /\ TypeOK /\ Located(t) /\ Gated(t) /\ Witnessed(t) /\ Watch /\ Step(t) /\ At(t, "find")
      /\ UNCHANGED <<tabs, tombs, cnt, gate, fresh, next>> /\ Words
  BY DEF ProbeInv, Local, FindEntry, Step
<1>2. /\ th[t].op \in {"lookup", "delete"} /\ k \in Key /\ d \in Slots(T.n) /\ T \in Tables
      /\ th[t].gen \in 1..Len(tabs) /\ WordsMatch(T)
  <2>1. th[t].op \in {"lookup", "delete"}
    BY <1>1 DEF Located, At, Labels, TypeOK, Locals, Op, KeyOp
  <2>2. k \in Key /\ d \in Slots(T.n) /\ th[t].gen \in 1..Len(tabs)
    BY <2>1, <1>1 DEF Located, At, KeyOp
  <2>3. QED
    BY <2>1, <2>2, <1>1, CurrentTable DEF Words
<1>3. /\ T.n \in Nat /\ d \in Nat /\ d < T.n /\ Probe(T.n, k, d) \in Slots(T.n)
      /\ T.ctrl \in [Slots(T.n) -> Nat]
  <2> HIDE DEF T, k, d
  <2>1. T.n \in Nat /\ T.ctrl \in [Slots(T.n) -> Nat]
    BY <1>2, TableFields
  <2>2. Probe(T.n, k, d) \in Slots(T.n)
    BY <1>2, ProbeSlots
  <2>3. QED
    BY <2>1, <2>2, <1>2 DEF Slots
<1>4. GateStep(t) /\ ~At(t, "publish") /\ th[t] \in Locals
  BY <1>1, GateSteps DEF At, TypeOK
<1>5. th' \in [Thread -> Locals] /\ \A u \in Thread \ {t} : th'[u] = th[u]
  BY <1>1, Moves
<1> DEFINE i == Probe(T.n, k, d)
           mine == T.ctrl[i] = Fp[k] /\ T.slot[i] = k
<1>6. \/ /\ th'[t].pc = "found" /\ th'[t].d = d /\ mine
      \/ /\ th'[t].pc = "find" /\ th'[t].d = d + 1 /\ d + 1 < T.n
         /\ T.ctrl[i] # 0 /\ ~mine
      \/ /\ th'[t].pc = IF th[t].op = "lookup" THEN "missed" ELSE "leave"
         /\ th'[t].d = d
         /\ T.ctrl[i] = 0 \/ (~mine /\ ~(d + 1 < T.n))
  <2>1. CASE Goto(t, "found") /\ mine
    BY <1>1, <2>1, GotoFields DEF PC
  <2>2. CASE /\ th' = [th EXCEPT ![t].d = @ + 1] /\ d + 1 < T.n
             /\ T.ctrl[i] # 0 /\ ~mine
    <3>1. th'[t] = [th[t] EXCEPT !.d = d + 1]
      BY <2>2, <1>1 DEF TypeOK
    <3>2. th'[t].d = d + 1 /\ th'[t].pc = "find"
      BY <3>1, <1>1, <1>4 DEF Locals, At
    <3>3. QED
      BY <3>2, <2>2
  <2>3. CASE Missed(t) /\ (T.ctrl[i] = 0 \/ (~mine /\ ~(d + 1 < T.n)))
    <3>1. (IF th[t].op = "lookup" THEN "missed" ELSE "leave") \in PC
      BY DEF PC
    <3>2. QED
      BY <3>1, <1>1, <2>3, GotoFields DEF Missed
  <2>4. QED
    BY <2>1, <2>2, <2>3, <1>1 DEF FindEntry, Here
<1>7. /\ th'[t].op = th[t].op /\ th'[t].key = k /\ th'[t].gen = th[t].gen
      /\ th'[t].again = th[t].again
  <2>1. CASE \E l \in PC : Goto(t, l)
    BY <1>1, <2>1, GotoFields
  <2>2. CASE th' = [th EXCEPT ![t].d = @ + 1]
    <3>1. th'[t] = [th[t] EXCEPT !.d = d + 1]
      BY <2>2, <1>1 DEF TypeOK
    <3>2. QED
      BY <3>1, <1>4 DEF Locals
  <2>3. QED
    BY <2>1, <2>2 DEF FindEntry, Missed, PC
<1> HIDE DEF T, k, d, i, mine
<1>8. Located(t)'
  <2>1. th'[t].pc \in Labels(th[t].op)
    BY <1>2, <1>6 DEF Labels
  <2>2. th'[t].pc = "find" => th'[t].d \in Slots(T.n)
    BY <1>3, <1>6 DEF Slots
  <2>3. QED
    BY <2>1, <2>2, <1>1, <1>6, <1>7 DEF Located, T, k
<1>9. Gated(t)' /\ Chained(t)' /\ Placed(t)' /\ Copying(t)' /\ ~At(t, "publish")'
  BY <1>1, <1>2, <1>6, <1>7 DEF Gated, Inside, At, Chained, Placed, Copying
<1>10. Holding(t)'
  <2>1. SUFFICES ASSUME th'[t].pc = "found", th[t].op = "delete"
                 PROVE  Published(Current', k)
    BY <1>7 DEF Holding, At, k
  <2>2. T = Current /\ mine /\ i \in Slots(T.n)
    BY <2>1, <1>1, <1>3, <1>6 DEF Gated, Inside, At, Current, T, i, k, d
  <2>3. Fp[k] # 0
    BY <1>2, FpAssumption
  <2>4. QED
    BY <2>2, <2>3, <1>1 DEF Published, Current, mine
<1>11. Witnessed(t)'
  <2>1. SUFFICES ASSUME th[t].op = "lookup", exc'[t] = {}
                 PROVE  /\ th'[t].pc = "find" => Ahead(T, k, th'[t].d)
                        /\ th'[t].pc # "missed"
    BY <1>1, <1>7 DEF Witnessed, At, T, k
  <2>2. Ahead(T, k, d)
    BY <2>1, <1>1, <1>7, NoExcuse DEF Witnessed, T, k, d
  <2>3. PICK f \in Slots(T.n) : /\ d <= f /\ T.slot[Probe(T.n, k, f)] = k
                                /\ \A e \in 0..f : T.ctrl[Probe(T.n, k, e)] # 0
    BY <2>2 DEF Ahead
  <2>4. f \in Nat /\ f < T.n
    BY <1>3 DEF Slots
  <2>5. T.ctrl[i] # 0
    BY <2>3, <2>4, <1>3 DEF i
  <2>6. d = f => mine
    <3>1. i \in Slots(T.n)
      BY <1>3 DEF i
    <3>2. QED
      BY <3>1, <2>3, <2>5, <1>2 DEF WordsMatch, mine, i
  <2>7. ~mine => d + 1 <= f
    BY <2>3, <2>4, <2>6, <1>3
  <2>8. th'[t].pc = "find" => Ahead(T, k, th'[t].d)
    BY <1>6, <2>3, <2>7 DEF Ahead
  <2>9. th'[t].pc # "missed"
    BY <1>6, <1>3, <2>4, <2>5, <2>7
  <2>10. QED
    BY <2>8, <2>9
<1>12. Local(t)'
  BY <1>8, <1>9, <1>10, <1>11 DEF Local
<1>13. QED
  BY <1>1, <1>4, <1>5, <1>9, <1>12, Frame

-------------------------------------------------------------------------------
Counters == [live : Int, used : Int, tomb : Int]

\* The counters after an Add on two of them.
LEMMA CountersAdd ==
    ASSUME NEW c \in Counters
    PROVE  /\ LET e == [c EXCEPT !.live = @ + 1, !.tomb = @ - 1] IN
              e \in Counters /\ e.live = c.live + 1 /\ e.used = c.used /\ e.tomb = c.tomb - 1
           /\ LET e == [c EXCEPT !.live = @ - 1, !.tomb = @ + 1] IN
              e \in Counters /\ e.live = c.live - 1 /\ e.used = c.used /\ e.tomb = c.tomb + 1
           /\ LET e == [c EXCEPT !.live = @ + 1, !.used = @ + 1] IN
              e \in Counters /\ e.live = c.live + 1 /\ e.used = c.used + 1 /\ e.tomb = c.tomb
<1>1. c.live \in Int /\ c.used \in Int /\ c.tomb \in Int
  BY DEF Counters
<1>2. ASSUME NEW x \in Int, NEW y \in Int
      PROVE  /\ [c EXCEPT !.live = x, !.tomb = y] \in Counters
             /\ [c EXCEPT !.live = x, !.used = y] \in Counters
  BY DEF Counters
<1>3. /\ [c EXCEPT !.live = @ + 1, !.tomb = @ - 1] \in Counters
      /\ [c EXCEPT !.live = @ - 1, !.tomb = @ + 1] \in Counters
      /\ [c EXCEPT !.live = @ + 1, !.used = @ + 1] \in Counters
  <2>1. /\ c.live + 1 \in Int /\ c.live - 1 \in Int /\ c.used + 1 \in Int
        /\ c.tomb + 1 \in Int /\ c.tomb - 1 \in Int
    BY <1>1
  <2>2. QED
    BY <2>1, <1>2, Zenon
<1>4. LET e == [c EXCEPT !.live = @ + 1, !.tomb = @ - 1] IN
      e.live = c.live + 1 /\ e.used = c.used /\ e.tomb = c.tomb - 1
  BY DEF Counters
<1>5. LET e == [c EXCEPT !.live = @ - 1, !.tomb = @ + 1] IN
      e.live = c.live - 1 /\ e.used = c.used /\ e.tomb = c.tomb + 1
  BY DEF Counters
<1>6. LET e == [c EXCEPT !.live = @ + 1, !.used = @ + 1] IN
      e.live = c.live + 1 /\ e.used = c.used + 1 /\ e.tomb = c.tomb
  BY DEF Counters
<1>7. QED
  BY <1>3, <1>4, <1>5, <1>6

\* A key that changes from tombstone to value or back moves the counters by
\* one (ProbeSlot's store into a tombstone, FoundDelete).
LEMMA CountTomb ==
    ASSUME ProbeInv, UNCHANGED tabs, NEW k \in PublishedKeys,
           \/ /\ k \in tombs /\ tombs' = tombs \ {k}
              /\ cnt' = [cnt EXCEPT !.live = @ + 1, !.tomb = @ - 1]
           \/ /\ k \notin tombs /\ tombs' = tombs \cup {k}
              /\ cnt' = [cnt EXCEPT !.live = @ - 1, !.tomb = @ + 1]
    PROVE  tombs' \subseteq Key /\ cnt' \in [live : Int, used : Int, tomb : Int] /\ Counted'
<1>1. /\ cnt \in [live : Int, used : Int, tomb : Int] /\ tombs \subseteq Key /\ k \in Key
      /\ IsFiniteSet(PublishedKeys) /\ tombs \subseteq PublishedKeys
      /\ cnt.used = Cardinality(PublishedKeys) /\ cnt.tomb = Cardinality(tombs)
      /\ cnt.live = cnt.used - cnt.tomb
  BY DEF ProbeInv, TypeOK, Counted, PublishedKeys
<1>2. PublishedKeys' = PublishedKeys
  BY DEF PublishedKeys, Published, Current
<1>3. IsFiniteSet(tombs)
  BY <1>1, FS_Subset
<1>4. Cardinality(tombs) \in Nat /\ Cardinality(PublishedKeys) \in Nat
  BY <1>1, <1>3, FS_CardinalityType
<1>5. /\ k \in tombs => Cardinality(tombs \ {k}) = Cardinality(tombs) - 1
      /\ k \notin tombs => Cardinality(tombs \cup {k}) = Cardinality(tombs) + 1
  BY <1>3, FS_RemoveElement, FS_AddElement
<1>6. tombs' \subseteq Key /\ tombs' \subseteq PublishedKeys
  BY <1>1
<1>7. CASE k \in tombs
  <2>1. tombs' = tombs \ {k} /\ cnt' = [cnt EXCEPT !.live = @ + 1, !.tomb = @ - 1]
    BY <1>7
  <2>2. cnt' \in Counters /\ cnt'.live = cnt.live + 1 /\ cnt'.used = cnt.used
        /\ cnt'.tomb = cnt.tomb - 1
    BY <2>1, <1>1, CountersAdd DEF Counters
  <2>3. cnt'.tomb = Cardinality(tombs') /\ cnt'.live = cnt'.used - cnt'.tomb
    BY <1>1, <1>4, <1>5, <1>7, <2>1, <2>2
  <2>4. QED
    BY <1>1, <1>2, <1>6, <2>2, <2>3 DEF Counted, Counters
<1>8. CASE k \notin tombs
  <2>1. tombs' = tombs \cup {k} /\ cnt' = [cnt EXCEPT !.live = @ - 1, !.tomb = @ + 1]
    BY <1>8
  <2>2. cnt' \in Counters /\ cnt'.live = cnt.live - 1 /\ cnt'.used = cnt.used
        /\ cnt'.tomb = cnt.tomb + 1
    BY <2>1, <1>1, CountersAdd DEF Counters
  <2>3. cnt'.tomb = Cardinality(tombs') /\ cnt'.live = cnt'.used - cnt'.tomb
    BY <1>1, <1>4, <1>5, <1>8, <2>1, <2>2
  <2>4. QED
    BY <1>1, <1>2, <1>6, <2>2, <2>3 DEF Counted, Counters
<1>9. QED
  BY <1>7, <1>8

\* delete: the entry it found becomes a tombstone.
LEMMA StepFoundDelete ==
    ASSUME ProbeInv, NEW t \in Thread, FoundDelete(t) PROVE ProbeInv'
<1>1. /\ TypeOK /\ Located(t) /\ Gated(t) /\ Holding(t) /\ Watch /\ Step(t)
      /\ At(t, "found") /\ th[t].op = "delete" /\ UNCHANGED gate
      /\ UNCHANGED <<tabs, fresh, next>>
  BY DEF ProbeInv, Local, FoundDelete, Step
<1>2. /\ th' \in [Thread -> Locals] /\ \A u \in Thread \ {t} : th'[u] = th[u]
      /\ GateStep(t) /\ ~At(t, "publish")
  BY <1>1, Moves, GateSteps DEF At
<1>3. t \in gate.writers /\ th[t].gen = Len(tabs) /\ th[t].key \in PublishedKeys
  BY <1>1 DEF Gated, Inside, At, Holding, PublishedKeys, Located, KeyOp
<1>4. PICK l \in {"leave", "end"} : Goto(t, l)
  BY DEF FoundDelete
<1>5. /\ th'[t].pc = l /\ th'[t].op = th[t].op /\ th'[t].key = th[t].key
      /\ th'[t].gen = th[t].gen /\ th'[t].again = th[t].again
  BY <1>1, <1>4, GotoFields DEF PC
<1>6. Chained(t)' /\ Placed(t)' /\ Holding(t)' /\ Copying(t)'
  BY <1>5, PlainLabel DEF Plain
<1>7. Located(t)' /\ Gated(t)' /\ Witnessed(t)' /\ ~At(t, "publish")'
  BY <1>1, <1>3, <1>5 DEF Located, Labels, Gated, Inside, Witnessed, At
<1>8. Local(t)'
  BY <1>6, <1>7 DEF Local
<1>9. CASE UNCHANGED <<tombs, cnt>>
  BY <1>1, <1>2, <1>7, <1>8, <1>9, Frame
<1>10. CASE /\ th[t].key \notin tombs /\ tombs' = tombs \cup {th[t].key}
            /\ cnt' = [cnt EXCEPT !.live = @ - 1, !.tomb = @ + 1]
  <2>1. tombs' \subseteq Key /\ cnt' \in [live : Int, used : Int, tomb : Int] /\ Counted'
    BY <1>1, <1>3, <1>10, CountTomb
  <2>2. QED
    BY <2>1, <1>1, <1>2, <1>3, <1>7, <1>8, FrameCounts
<1>11. QED
  BY <1>9, <1>10 DEF FoundDelete

\* A writer's look at one slot: it passes another key, stops at a nil slot, or
\* finds its own key and gives it a value.
LEMMA StepProbeSlot ==
    ASSUME ProbeInv, NEW t \in Thread, ProbeSlot(t) PROVE ProbeInv'
<1> DEFINE k == th[t].key
           d == th[t].d
           i == Probe(Current.n, k, d)
           s == Current.slot[i]
<1>1. /\ TypeOK /\ Located(t) /\ Gated(t) /\ Chained(t) /\ Watch /\ Step(t)
      /\ At(t, "probe") /\ UNCHANGED gate /\ UNCHANGED <<tabs, fresh, next>>
      /\ Words /\ Counted
  BY DEF ProbeInv, Local, ProbeSlot, Step
<1>2. /\ th' \in [Thread -> Locals] /\ \A u \in Thread \ {t} : th'[u] = th[u]
      /\ GateStep(t) /\ ~At(t, "publish") /\ th[t] \in Locals
  BY <1>1, Moves, GateSteps DEF At, TypeOK
<1>3. /\ th[t].op = "insert" /\ k \in Key /\ t \in gate.writers /\ th[t].gen = Len(tabs)
      /\ d \in Slots(Current.n) /\ Current \in Tables /\ Len(tabs) \in 1..Len(tabs)
  <2>1. th[t].op = "insert"
    BY <1>1 DEF Located, At, Labels, TypeOK, Locals, Op, KeyOp
  <2>2. QED
    BY <2>1, <1>1, CurrentTable DEF Located, KeyOp, Gated, Inside, At, Current
<1>4. Current.n \in Nat /\ d \in Nat /\ d < Current.n /\ i \in Slots(Current.n)
  <2>1. Current.n \in Nat
    BY <1>3, TableFields
  <2>2. i \in Slots(Current.n)
    BY <1>3, ProbeSlots
  <2> HIDE DEF d
  <2>3. QED
    BY <2>1, <2>2, <1>3 DEF Slots
<1>5. \/ /\ s = Nil /\ Goto(t, "cas") /\ UNCHANGED <<tombs, cnt>>
      \/ /\ s = k /\ Goto(t, "end") /\ tombs' = tombs \ {k}
         /\ cnt' = IF k \in tombs
                   THEN [cnt EXCEPT !.live = @ + 1, !.tomb = @ - 1] ELSE cnt
      \/ s # Nil /\ s # k /\ NextSlot(t, Current.n, "full") /\ UNCHANGED <<tombs, cnt>>
  BY DEF ProbeSlot, Here
<1> HIDE DEF s
<1>6. CASE s = Nil /\ Goto(t, "cas") /\ UNCHANGED <<tombs, cnt>>
  <2>1. /\ th'[t].pc = "cas" /\ th'[t].op = "insert" /\ th'[t].key = k
        /\ th'[t].gen = th[t].gen /\ th'[t].d = d /\ th'[t].again = th[t].again
    BY <1>1, <1>3, <1>6, GotoFields DEF PC
  <2>2. Located(t)' /\ Gated(t)' /\ ~At(t, "publish")'
    BY <1>1, <1>3, <2>1 DEF Located, Labels, Gated, Inside, At, Current
  <2>3. Chained(t)'
    BY <1>1, <2>1 DEF Chained, Current, At
  <2>4. Placed(t)' /\ Holding(t)' /\ Copying(t)' /\ Witnessed(t)'
    BY <2>1 DEF Placed, Holding, Copying, Witnessed, At
  <2>5. QED
    BY <2>2, <2>3, <2>4, <1>1, <1>2, <1>6, Frame DEF Local
<1>7. CASE /\ s = k /\ Goto(t, "end") /\ tombs' = tombs \ {k}
           /\ cnt' = IF k \in tombs
                     THEN [cnt EXCEPT !.live = @ + 1, !.tomb = @ - 1] ELSE cnt
  <2>1. /\ th'[t].pc = "end" /\ th'[t].op = "insert" /\ th'[t].key = k
        /\ th'[t].gen = th[t].gen /\ th'[t].again = th[t].again
    BY <1>1, <1>3, <1>7, GotoFields DEF PC
  <2>2. Located(t)' /\ Gated(t)' /\ Witnessed(t)' /\ ~At(t, "publish")'
    BY <1>1, <1>3, <2>1 DEF Located, Labels, Gated, Inside, Witnessed, At
  <2>3. Local(t)'
    BY <2>1, <2>2, PlainLabel DEF Local, Plain
  <2>4. CASE k \in tombs
    <3>1. k \in PublishedKeys
      BY <2>4, <1>1 DEF Counted
    <3>2. tombs' \subseteq Key /\ cnt' \in [live : Int, used : Int, tomb : Int] /\ Counted'
      BY <2>4, <3>1, <1>1, <1>7, CountTomb
    <3>3. QED
      BY <3>2, <2>2, <2>3, <1>1, <1>2, <1>3, FrameCounts
  <2>5. CASE k \notin tombs
    <3>1. UNCHANGED <<tombs, cnt>>
      BY <2>5, <1>7
    <3>2. QED
      BY <3>1, <2>2, <2>3, <1>1, <1>2, Frame
  <2>6. QED
    BY <2>4, <2>5
<1>8. CASE s # Nil /\ s # k /\ NextSlot(t, Current.n, "full") /\ UNCHANGED <<tombs, cnt>>
  <2>1. CASE d + 1 < Current.n /\ th' = [th EXCEPT ![t].d = @ + 1]
    <3>1. th'[t] = [th[t] EXCEPT !.d = d + 1]
      BY <2>1, <1>1 DEF TypeOK
    <3>2. /\ th'[t].pc = "probe" /\ th'[t].op = "insert" /\ th'[t].key = k
          /\ th'[t].gen = th[t].gen /\ th'[t].d = d + 1 /\ th'[t].again = th[t].again
      BY <3>1, <1>1, <1>2, <1>3 DEF Locals, At
    <3>3. d + 1 \in Slots(Current.n)
      BY <2>1, <1>4 DEF Slots
    <3>4. Located(t)' /\ Gated(t)' /\ ~At(t, "publish")'
      BY <1>1, <1>3, <3>2, <3>3 DEF Located, Labels, Gated, Inside, At, Current
    <3>5. ASSUME NEW e \in 0..d
          PROVE  Current.slot[Probe(Current.n, k, e)] \notin {Nil, k}
      <4>1. CASE e = d
        BY <4>1, <1>8 DEF s
      <4>2. CASE e # d
        <5>1. e \in 0..(d - 1)
          BY <4>2, <1>4
        <5>2. QED
          BY <5>1, <1>1 DEF Chained, At
      <4>3. QED
        BY <4>1, <4>2
    <3>6. Chained(t)'
      <4>1. th'[t].d - 1 = d /\ Current' = Current /\ th'[t].key = k
        BY <3>2, <1>1, <1>4 DEF Current
      <4> HIDE DEF d, k
      <4>2. QED
        BY <4>1, <3>5 DEF Chained
    <3>7. Placed(t)' /\ Holding(t)' /\ Copying(t)' /\ Witnessed(t)'
      BY <3>2 DEF Placed, Holding, Copying, Witnessed, At
    <3>8. QED
      BY <3>4, <3>6, <3>7, <1>1, <1>2, <1>8, Frame DEF Local
  <2>2. CASE Goto(t, "full")
    <3>1. /\ th'[t].pc = "full" /\ th'[t].op = "insert" /\ th'[t].key = k
          /\ th'[t].gen = th[t].gen /\ th'[t].again = th[t].again
      BY <1>1, <1>3, <2>2, GotoFields DEF PC
    <3>2. Located(t)' /\ Gated(t)' /\ Witnessed(t)' /\ ~At(t, "publish")'
      BY <1>1, <1>3, <3>1 DEF Located, Labels, Gated, Inside, Witnessed, At
    <3>3. QED
      BY <3>1, <3>2, <1>1, <1>2, <1>8, PlainLabel, Frame DEF Local, Plain
  <2>3. QED
    BY <1>8, <2>1, <2>2 DEF NextSlot
<1>9. QED
  BY <1>5, <1>6, <1>7, <1>8

-------------------------------------------------------------------------------
\* Setting one slot, or one control word, of a table.
LEMMA TableEdit ==
    ASSUME NEW T \in Tables, NEW i \in Slots(T.n)
    PROVE  /\ \A k \in Key : LET U == [T EXCEPT !.slot[i] = k] IN
                  /\ U \in Tables /\ U.n = T.n /\ U.ctrl = T.ctrl
                  /\ U.slot = [T.slot EXCEPT ![i] = k]
           /\ \A w \in Nat : LET U == [T EXCEPT !.ctrl[i] = w] IN
                  /\ U \in Tables /\ U.n = T.n /\ U.slot = T.slot
                  /\ U.ctrl = [T.ctrl EXCEPT ![i] = w]
<1>1. PICK n \in Sizes : T \in Table(n)
  BY DEF Tables
<1>2. T.n = n
  BY <1>1 DEF Table
<1>3. ASSUME NEW k \in Key
      PROVE  LET U == [T EXCEPT !.slot[i] = k] IN
             /\ U \in Table(n) /\ U.n = T.n /\ U.ctrl = T.ctrl
             /\ U.slot = [T.slot EXCEPT ![i] = k]
  BY <1>1, <1>2 DEF Table
<1>4. ASSUME NEW w \in Nat
      PROVE  LET U == [T EXCEPT !.ctrl[i] = w] IN
             /\ U \in Table(n) /\ U.n = T.n /\ U.slot = T.slot
             /\ U.ctrl = [T.ctrl EXCEPT ![i] = w]
  BY <1>1, <1>2 DEF Table
<1>5. \A U \in Table(n) : U \in Tables
  BY DEF Tables
<1>6. QED
  BY <1>3, <1>4, <1>5

\* Replacing one table of the sequence.
LEMMA SeqEdit ==
    ASSUME NEW s \in Seq(Tables), NEW g \in 1..Len(s), NEW U \in Tables
    PROVE  /\ [s EXCEPT ![g] = U] \in Seq(Tables) /\ Len([s EXCEPT ![g] = U]) = Len(s)
           /\ [s EXCEPT ![g] = U][g] = U
           /\ \A h \in 1..Len(s) : h # g => [s EXCEPT ![g] = U][h] = s[h]
  OBVIOUS

\* The same as a step of the current table.
LEMMA SetSlot ==
    ASSUME TypeOK, NEW i \in Slots(Current.n), NEW k \in Key,
           tabs' = [tabs EXCEPT ![Len(tabs)].slot[i] = k]
    PROVE  /\ tabs' \in Seq(Tables) /\ Len(tabs') = Len(tabs)
           /\ \A g \in 1..Len(tabs) : g # Len(tabs) => tabs'[g] = tabs[g]
           /\ Current' \in Tables /\ Current'.n = Current.n /\ Current'.ctrl = Current.ctrl
           /\ Current'.slot = [Current.slot EXCEPT ![i] = k]
<1>1. /\ Current \in Tables /\ Len(tabs) \in 1..Len(tabs) /\ tabs \in Seq(Tables)
      /\ Len(tabs) \in Nat
  BY CurrentTable DEF TypeOK
<1> DEFINE U == [Current EXCEPT !.slot[i] = k]
<1>2. tabs' = [tabs EXCEPT ![Len(tabs)] = U]
  BY DEF Current
<1>3. /\ U \in Tables /\ U.n = Current.n /\ U.ctrl = Current.ctrl
      /\ U.slot = [Current.slot EXCEPT ![i] = k]
  BY <1>1, TableEdit
<1> HIDE DEF U
<1>4. /\ tabs' \in Seq(Tables) /\ Len(tabs') = Len(tabs) /\ tabs'[Len(tabs)] = U
      /\ \A g \in 1..Len(tabs) : g # Len(tabs) => tabs'[g] = tabs[g]
  <2> DEFINE s == [tabs EXCEPT ![Len(tabs)] = U]
  <2>1. /\ s \in Seq(Tables) /\ Len(s) = Len(tabs) /\ s[Len(tabs)] = U
        /\ \A g \in 1..Len(tabs) : g # Len(tabs) => s[g] = tabs[g]
    BY <1>1, <1>3, SeqEdit
  <2> HIDE DEF s
  <2>2. tabs' = s
    BY <1>2 DEF s
  <2>3. QED
    BY <2>1, <2>2, Zenon
<1>5. Current' = U
  BY <1>4 DEF Current
<1>6. QED
  BY <1>3, <1>4, <1>5

\* A store to a control word changes that word of the current table alone.
LEMMA SetWord ==
    ASSUME TypeOK, NEW i \in Slots(Current.n), NEW w \in Nat,
           tabs' = [tabs EXCEPT ![Len(tabs)].ctrl[i] = w]
    PROVE  /\ tabs' \in Seq(Tables) /\ Len(tabs') = Len(tabs)
           /\ \A g \in 1..Len(tabs) : g # Len(tabs) => tabs'[g] = tabs[g]
           /\ Current' \in Tables /\ Current'.n = Current.n /\ Current'.slot = Current.slot
           /\ Current'.ctrl = [Current.ctrl EXCEPT ![i] = w]
<1>1. /\ Current \in Tables /\ Len(tabs) \in 1..Len(tabs) /\ tabs \in Seq(Tables)
      /\ Len(tabs) \in Nat
  BY CurrentTable DEF TypeOK
<1> DEFINE U == [Current EXCEPT !.ctrl[i] = w]
<1>2. tabs' = [tabs EXCEPT ![Len(tabs)] = U]
  BY DEF Current
<1>3. /\ U \in Tables /\ U.n = Current.n /\ U.slot = Current.slot
      /\ U.ctrl = [Current.ctrl EXCEPT ![i] = w]
  BY <1>1, TableEdit
<1> HIDE DEF U
<1>4. /\ tabs' \in Seq(Tables) /\ Len(tabs') = Len(tabs) /\ tabs'[Len(tabs)] = U
      /\ \A g \in 1..Len(tabs) : g # Len(tabs) => tabs'[g] = tabs[g]
  <2> DEFINE s == [tabs EXCEPT ![Len(tabs)] = U]
  <2>1. /\ s \in Seq(Tables) /\ Len(s) = Len(tabs) /\ s[Len(tabs)] = U
        /\ \A g \in 1..Len(tabs) : g # Len(tabs) => s[g] = tabs[g]
    BY <1>1, <1>3, SeqEdit
  <2> HIDE DEF s
  <2>2. tabs' = s
    BY <1>2 DEF s
  <2>3. QED
    BY <2>1, <2>2, Zenon
<1>5. Current' = U
  BY <1>4 DEF Current
<1>6. QED
  BY <1>3, <1>4, <1>5

\* A key that is not in the table, put where its probe first meets a nil slot,
\* leaves keys unique and chains unbroken (the CompareAndSwap of an insertion,
\* and insertClone).
LEMMA SoundInsert ==
    ASSUME NEW T \in Tables, NEW U \in Tables, NEW k \in Key, NEW d \in Slots(T.n),
           UniqueKey(T), Unbroken(T), U.n = T.n,
           U.slot = [T.slot EXCEPT ![Probe(T.n, k, d)] = k],
           T.slot[Probe(T.n, k, d)] = Nil,
           \A e \in 0..(d - 1) : T.slot[Probe(T.n, k, e)] # Nil,
           \A j \in Slots(T.n) : T.slot[j] # k
    PROVE  UniqueKey(U) /\ Unbroken(U)
<1> DEFINE i == Probe(T.n, k, d)
<1>1. /\ i \in Slots(T.n) /\ k # Nil /\ T.n \in Nat /\ d \in Nat
      /\ T.slot \in [Slots(T.n) -> Key \cup {Nil}]
  BY ProbeSlots, TableFields, KeysAssumption DEF Slots
<1>2. U.slot[i] = k /\ \A j \in Slots(T.n) \ {i} : U.slot[j] = T.slot[j]
  BY <1>1
<1>3. \A j \in Slots(T.n) : T.slot[j] # Nil => U.slot[j] = T.slot[j] /\ U.slot[j] # Nil
  BY <1>1, <1>2
<1>4. UniqueKey(U)
  BY <1>1, <1>2 DEF UniqueKey
<1> HIDE DEF i
<1>5. ASSUME NEW q \in Key, NEW f \in Slots(T.n), U.slot[Probe(T.n, q, f)] = q,
             NEW e \in 0..(f - 1)
      PROVE  U.slot[Probe(T.n, q, e)] # Nil
  <2>1. /\ f \in Nat /\ e \in 0..f /\ e \in Slots(T.n) /\ e < f
    BY <1>1 DEF Slots
  <2>2. Probe(T.n, q, f) \in Slots(T.n) /\ Probe(T.n, q, e) \in Slots(T.n)
    BY <2>1, ProbeSlots
  <2>3. CASE Probe(T.n, q, f) = i
    <3>1. q = k
      BY <2>3, <1>2, <1>5
    <3>2. f = d
      BY <2>3, <3>1, ProbeSlots DEF i
    <3>3. T.slot[Probe(T.n, q, e)] # Nil
      BY <3>1, <3>2, <1>5
    <3>4. QED
      BY <3>3, <2>2, <1>3
  <2>4. CASE Probe(T.n, q, f) # i
    <3>1. T.slot[Probe(T.n, q, f)] = q
      BY <2>2, <2>4, <1>2, <1>5
    <3>2. T.slot[Probe(T.n, q, e)] # Nil
      BY <3>1, <1>5 DEF Unbroken
    <3>3. QED
      BY <3>2, <2>2, <1>3
  <2>5. QED
    BY <2>3, <2>4
<1>6. QED
  BY <1>4, <1>5 DEF Unbroken

\* An insertion at a nil slot has no entry of its key: one further on would
\* have this slot as a link of its chain.
LEMMA NotYetIn ==
    ASSUME NEW T \in Tables, NEW k \in Key, NEW d \in Slots(T.n), Unbroken(T),
           T.slot[Probe(T.n, k, d)] = Nil,
           \A e \in 0..(d - 1) : T.slot[Probe(T.n, k, e)] \notin {Nil, k},
           NEW j \in Slots(T.n)
    PROVE  T.slot[j] # k
<1>1. PICK f \in Slots(T.n) : Probe(T.n, k, f) = j
  BY ProbeSlots
<1>2. d \in Nat /\ f \in Nat /\ k # Nil
  BY TableFields, KeysAssumption DEF Slots
<1>3. CASE f < d
  <2>1. f \in 0..(d - 1)
    BY <1>2, <1>3
  <2>2. QED
    BY <2>1, <1>1
<1>4. CASE f = d
  BY <1>1, <1>2, <1>4
<1>5. CASE f > d
  <2>1. d \in 0..(f - 1)
    BY <1>2, <1>5
  <2>2. QED
    BY <2>1, <1>1 DEF Unbroken
<1>6. QED
  BY <1>2, <1>3, <1>4, <1>5

-------------------------------------------------------------------------------
\* A step of an insertion on the current table, with what it needs to show.
LEMMA CurrentStep ==
    ASSUME ProbeInv, NEW t \in Thread, Step(t), t \in gate.writers,
           UNCHANGED <<tombs, gate, fresh, next>>, Watch, Local(t)',
           tabs' \in Seq(Tables), Len(tabs') = Len(tabs),
           \A g \in 1..Len(tabs) : g # Len(tabs) => tabs'[g] = tabs[g],
           Grows(Current, Current'),
           \A u \in Thread \ {t} : Placed(u)',
           UniqueKey(Current'), Unbroken(Current'), WordsMatch(Current'),
           \A i \in Slots(Current'.n) : Current'.slot[i] # Nil /\ Current'.ctrl[i] = 0 =>
               \E u \in Thread : At(u, "publish")' /\ Here(u, Current.n)' = i,
           OnePublisher', cnt' \in Counters, Counted'
    PROVE  ProbeInv'
<1>1. /\ TypeOK /\ TablesSound /\ Words /\ Len(tabs) \in Nat /\ Len(tabs) \in 1..Len(tabs)
  BY CurrentTable DEF ProbeInv
<1>2. th' \in [Thread -> Locals] /\ \A u \in Thread \ {t} : th'[u] = th[u]
  BY Moves
<1>3. TypeOK'
  BY <1>1, <1>2 DEF TypeOK, Counters
<1>4. Current' = tabs'[Len(tabs)] /\ Current = tabs[Len(tabs)]
  BY DEF Current
<1>5. TabsGrow
  <2>1. ASSUME NEW g \in 1..Len(tabs) PROVE Grows(tabs[g], tabs'[g])
    BY <1>4 DEF Grows
  <2>2. Len(tabs') >= Len(tabs)
    BY <1>1
  <2>3. QED
    BY <2>1, <2>2 DEF TabsGrow
<1>6. GateStep(t)
  BY <1>1, GateSteps
<1>7. ASSUME NEW u \in Thread PROVE Local(u)'
  <2>1. CASE u # t
    <3>1. Gated(u) /\ th'[u] = th[u] /\ Placed(u)'
      BY <2>1, <1>2 DEF ProbeInv, Local
    <3>2. Copying(u)'
      BY <3>1 DEF Copying, At, Gated
    <3>3. QED
      BY <2>1, <3>1, <3>2, <1>5, <1>6, OthersKeep
  <2>2. QED
    BY <2>1
<1>8. ASSUME NEW g \in 1..Len(tabs')
      PROVE  UniqueKey(tabs'[g]) /\ Unbroken(tabs'[g]) /\ WordsMatch(tabs'[g])
  <2>1. CASE g = Len(tabs)
    BY <2>1, <1>4
  <2>2. CASE g # Len(tabs)
    BY <2>2, <1>1 DEF TablesSound, Words
  <2>3. QED
    BY <2>1, <2>2
<1>9. TablesSound' /\ Words'
  <2>1. UniqueKey(fresh)' /\ Unbroken(fresh)' /\ WordsMatch(fresh)' /\ WordsSet(fresh)'
    BY <1>1 DEF TablesSound, Words, UniqueKey, Unbroken, WordsMatch, WordsSet
  <2>2. QED
    BY <2>1, <1>8 DEF TablesSound, Words
<1>10. QED
  BY <1>3, <1>7, <1>9 DEF ProbeInv

\* The CompareAndSwap of an insertion.
LEMMA StepInsert ==
    ASSUME ProbeInv, NEW t \in Thread, Insert(t) PROVE ProbeInv'
<1> DEFINE k == th[t].key
           d == th[t].d
           i == Probe(Current.n, k, d)
<1>1. /\ TypeOK /\ Located(t) /\ Gated(t) /\ Chained(t) /\ Watch /\ Step(t)
      /\ At(t, "cas") /\ UNCHANGED <<tombs, cnt, gate, fresh, next>>
      /\ Words /\ Counted /\ TablesSound /\ OnePublisher
  BY DEF ProbeInv, Local, Insert, Step
<1>2. /\ th' \in [Thread -> Locals] /\ \A u \in Thread \ {t} : th'[u] = th[u]
      /\ GateStep(t) /\ ~At(t, "publish") /\ th[t] \in Locals
  BY <1>1, Moves, GateSteps DEF At, TypeOK
<1>3. /\ th[t].op = "insert" /\ k \in Key /\ t \in gate.writers /\ th[t].gen = Len(tabs)
      /\ d \in Slots(Current.n) /\ Current \in Tables /\ Len(tabs) \in 1..Len(tabs)
      /\ k # Nil
  <2>1. th[t].op = "insert"
    BY <1>1 DEF Located, At, Labels, TypeOK, Locals, Op, KeyOp
  <2>2. QED
    BY <2>1, <1>1, CurrentTable, KeysAssumption DEF Located, KeyOp, Gated, Inside, At, Current
<1>4. i \in Slots(Current.n)
  BY <1>3, ProbeSlots
<1>5. \/ /\ Current.slot[i] = Nil /\ Goto(t, "publish")
         /\ tabs' = [tabs EXCEPT ![Len(tabs)].slot[i] = k]
      \/ Goto(t, "retry") /\ UNCHANGED tabs
  BY DEF Insert, Here
<1>6. CASE Goto(t, "retry") /\ UNCHANGED tabs
  <2>1. /\ th'[t].pc = "retry" /\ th'[t].op = th[t].op /\ th'[t].key = th[t].key
        /\ th'[t].gen = th[t].gen /\ th'[t].again = th[t].again
    BY <1>1, <1>6, GotoFields DEF PC
  <2>2. th'[t].pc \in Plain /\ th'[t].pc \in Labels(th[t].op) /\ Gated(t)'
    BY <2>1, <1>1, <1>3, <1>6 DEF Plain, Labels, Gated, Inside, At
  <2>3. QED
    BY <2>1, <2>2, <1>1, <1>2, <1>3, <1>6, PlainMove
<1>7. CASE /\ Current.slot[i] = Nil /\ Goto(t, "publish")
           /\ tabs' = [tabs EXCEPT ![Len(tabs)].slot[i] = k]
  <2> HIDE DEF i
  <2>1. /\ tabs' \in Seq(Tables) /\ Len(tabs') = Len(tabs)
        /\ \A g \in 1..Len(tabs) : g # Len(tabs) => tabs'[g] = tabs[g]
        /\ Current' \in Tables /\ Current'.n = Current.n /\ Current'.ctrl = Current.ctrl
        /\ Current'.slot = [Current.slot EXCEPT ![i] = k]
    BY <1>1, <1>3, <1>4, <1>7, SetSlot
  <2>2. /\ th'[t].pc = "publish" /\ th'[t].op = "insert" /\ th'[t].key = k
        /\ th'[t].gen = Len(tabs) /\ th'[t].d = d /\ th'[t].again = th[t].again
    BY <1>1, <1>3, <1>7, GotoFields DEF PC
  <2> HIDE DEF k, d
  <2>3. /\ UniqueKey(Current) /\ Unbroken(Current) /\ WordsMatch(Current)
        /\ Current.slot \in [Slots(Current.n) -> Key \cup {Nil}]
    BY <1>1, <1>3, TableFields DEF TablesSound, Words, Current
  <2>4. \A e \in 0..(d - 1) : Current.slot[Probe(Current.n, k, e)] \notin {Nil, k}
    BY <1>1 DEF Chained, At, k, d
  <2>5. \A j \in Slots(Current.n) : Current.slot[j] # k
    BY <2>3, <2>4, <1>3, <1>7, NotYetIn DEF i
  <2>6. /\ Current'.slot[i] = k
        /\ \A j \in Slots(Current.n) \ {i} : Current'.slot[j] = Current.slot[j]
    BY <2>1, <2>3, <1>4
  <2>7. Current.ctrl[i] = 0
    BY <2>3, <1>4, <1>7, KeysAssumption DEF WordsMatch
  <2>8. Grows(Current, Current')
    BY <2>1, <2>6, <1>7 DEF Grows
  <2>9. UniqueKey(Current') /\ Unbroken(Current')
    BY <2>1, <2>3, <2>4, <2>5, <1>3, <1>7, SoundInsert DEF i
  <2>10. WordsMatch(Current')
    BY <2>1, <2>3, <2>6, <2>7 DEF WordsMatch
  <2>11. ASSUME NEW u \in Thread \ {t}
         PROVE  Placed(u)' /\ (At(u, "publish")' => th'[u].key # k)
    <3>1. SUFFICES ASSUME th[u].pc = "publish"
                   PROVE  /\ th[u].key # k
                          /\ Current'.slot[Probe(Current'.n, th[u].key, th[u].d)] = th[u].key
                          /\ Current'.ctrl[Probe(Current'.n, th[u].key, th[u].d)] = 0
      BY <1>2 DEF Placed, At, Here
    <3> DEFINE j == Probe(Current.n, th[u].key, th[u].d)
    <3>2. /\ Located(u) /\ Gated(u) /\ Placed(u) /\ th[u] \in Locals
      BY <1>1 DEF ProbeInv, Local, TypeOK
    <3>3. th[u].op = "insert"
      BY <3>1, <3>2 DEF Located, Labels, Locals, Op, KeyOp
    <3>4. th[u].key \in Key /\ th[u].d \in Slots(Current.n)
      BY <3>1, <3>2, <3>3 DEF Located, KeyOp, Gated, Inside, Current
    <3>5. j \in Slots(Current.n) /\ Current.slot[j] = th[u].key /\ Current.ctrl[j] = 0
      BY <3>1, <3>2, <3>4, <1>3, ProbeSlots DEF Placed, At, Here
    <3>6. j # i
      BY <3>4, <3>5, <1>7, KeysAssumption
    <3>7. QED
      BY <3>5, <3>6, <2>1, <2>5, <2>6
  <2>12. OnePublisher'
    BY <1>1, <1>2, <2>2, <2>11 DEF OnePublisher, At
  <2>13. Local(t)'
    <3>1. Located(t)'
      <4>1. th'[t].pc \in Labels(th'[t].op) /\ th'[t].key \in Key
        BY <2>2, <1>3 DEF Labels, k
      <4>2. th'[t].d \in Slots(tabs'[th'[t].gen].n) /\ th'[t].gen \in 1..Len(tabs')
        BY <2>1, <2>2, <1>3 DEF Current, d
      <4>3. QED
        BY <4>1, <4>2, <2>2 DEF Located
    <3>2. Gated(t)'
      BY <2>1, <2>2, <1>1, <1>3 DEF Gated, Inside, At
    <3>3. Placed(t)'
      BY <2>1, <2>2, <2>6, <2>7 DEF Placed, Here, i
    <3>4. Chained(t)' /\ Holding(t)' /\ Copying(t)' /\ Witnessed(t)'
      BY <2>2 DEF Chained, Holding, Copying, Witnessed, At
    <3>5. QED
      BY <3>1, <3>2, <3>3, <3>4 DEF Local
  <2>14. ASSUME NEW j \in Slots(Current'.n), Current'.slot[j] # Nil, Current'.ctrl[j] = 0
         PROVE  \E u \in Thread : At(u, "publish")' /\ Here(u, Current.n)' = j
    <3>1. CASE j = i
      BY <3>1, <2>1, <2>2 DEF At, Here, i
    <3>2. CASE j # i
      <4>1. PICK u \in Thread : At(u, "publish") /\ Here(u, Current.n) = j
        BY <3>2, <2>1, <2>6, <2>14, <1>1 DEF Words
      <4>2. u # t
        BY <4>1, <1>2
      <4>3. QED
        BY <4>1, <4>2, <1>2, <2>1 DEF At, Here
    <3>3. QED
      BY <3>1, <3>2
  <2>15. Counted' /\ cnt' \in Counters
    <3>1. ASSUME NEW q \in Key PROVE Published(Current, q)' <=> Published(Current, q)
      BY <2>1, <2>6, <2>7 DEF Published
    <3>2. PublishedKeys' = PublishedKeys
      BY <3>1 DEF PublishedKeys
    <3>3. QED
      BY <3>2, <1>1 DEF Counted, TypeOK, Counters
  <2>16. QED
    BY <1>1, <1>3, <2>1, <2>8, <2>9, <2>10, <2>11, <2>12, <2>13, <2>14, <2>15, CurrentStep
<1>8. QED
  BY <1>5, <1>6, <1>7

\* The control word of an insertion, which makes its key one more that is
\* published and counted.
LEMMA StepPublish ==
    ASSUME ProbeInv, NEW t \in Thread, Publish(t) PROVE ProbeInv'
<1> DEFINE k == th[t].key
           d == th[t].d
           i == Probe(Current.n, k, d)
<1>1. /\ TypeOK /\ Located(t) /\ Gated(t) /\ Placed(t) /\ Watch /\ Step(t)
      /\ At(t, "publish") /\ UNCHANGED <<tombs, gate, fresh, next>>
      /\ Words /\ Counted /\ TablesSound /\ OnePublisher
      /\ cnt' = [cnt EXCEPT !.live = @ + 1, !.used = @ + 1]
  BY DEF ProbeInv, Local, Publish, Step
<1>2. /\ th' \in [Thread -> Locals] /\ \A u \in Thread \ {t} : th'[u] = th[u]
      /\ th[t] \in Locals
  BY <1>1, Moves DEF TypeOK
<1>3. /\ th[t].op = "insert" /\ k \in Key /\ t \in gate.writers /\ th[t].gen = Len(tabs)
      /\ d \in Slots(Current.n) /\ Current \in Tables /\ Len(tabs) \in 1..Len(tabs)
      /\ k # Nil
  <2>1. th[t].op = "insert"
    BY <1>1 DEF Located, At, Labels, TypeOK, Locals, Op, KeyOp
  <2>2. QED
    BY <2>1, <1>1, CurrentTable, KeysAssumption DEF Located, KeyOp, Gated, Inside, At, Current
<1>4. i \in Slots(Current.n) /\ Fp[k] \in Nat /\ Fp[k] # 0
  BY <1>3, ProbeSlots, FpAssumption
<1>5. tabs' = [tabs EXCEPT ![Len(tabs)].ctrl[i] = Fp[k]]
  BY DEF Publish, Here
<1>6. Current.slot[i] = k /\ Current.ctrl[i] = 0
  BY <1>1 DEF Placed, Here
<1>7. PICK l \in {"endGrow", "leave"} : Goto(t, l)
  BY DEF Publish
<1>8. /\ th'[t].pc = l /\ th'[t].op = "insert" /\ th'[t].key = k
      /\ th'[t].gen = Len(tabs) /\ th'[t].again = th[t].again
  BY <1>1, <1>3, <1>7, GotoFields DEF PC
<1> HIDE DEF i, d, k
<1>9. /\ tabs' \in Seq(Tables) /\ Len(tabs') = Len(tabs)
      /\ \A g \in 1..Len(tabs) : g # Len(tabs) => tabs'[g] = tabs[g]
      /\ Current' \in Tables /\ Current'.n = Current.n /\ Current'.slot = Current.slot
      /\ Current'.ctrl = [Current.ctrl EXCEPT ![i] = Fp[k]]
  BY <1>1, <1>4, <1>5, SetWord
<1>10. /\ UniqueKey(Current) /\ Unbroken(Current) /\ WordsMatch(Current)
       /\ Current.ctrl \in [Slots(Current.n) -> Nat]
  BY <1>1, <1>3, TableFields DEF TablesSound, Words, Current
<1>11. /\ Current'.ctrl[i] = Fp[k]
       /\ \A j \in Slots(Current.n) \ {i} : Current'.ctrl[j] = Current.ctrl[j]
  BY <1>4, <1>9, <1>10
<1>12. Grows(Current, Current')
  BY <1>6, <1>9, <1>11 DEF Grows
<1>13. UniqueKey(Current') /\ Unbroken(Current')
  BY <1>9, <1>10 DEF UniqueKey, Unbroken
<1>14. WordsMatch(Current')
  BY <1>3, <1>6, <1>9, <1>10, <1>11 DEF WordsMatch
<1>15. ASSUME NEW u \in Thread \ {t} PROVE Placed(u)'
  <2>1. SUFFICES ASSUME th[u].pc = "publish"
                 PROVE  /\ Current'.slot[Probe(Current'.n, th[u].key, th[u].d)] = th[u].key
                        /\ Current'.ctrl[Probe(Current'.n, th[u].key, th[u].d)] = 0
    BY <1>2 DEF Placed, At, Here
  <2> DEFINE j == Probe(Current.n, th[u].key, th[u].d)
  <2>2. /\ Located(u) /\ Gated(u) /\ Placed(u) /\ th[u] \in Locals
    BY <1>1 DEF ProbeInv, Local, TypeOK
  <2>3. th[u].op = "insert"
    BY <2>1, <2>2 DEF Located, Labels, Locals, Op, KeyOp
  <2>4. th[u].key \in Key /\ th[u].d \in Slots(Current.n)
    BY <2>1, <2>2, <2>3 DEF Located, KeyOp, Gated, Inside, Current
  <2>5. j \in Slots(Current.n) /\ Current.slot[j] = th[u].key /\ Current.ctrl[j] = 0
    BY <2>1, <2>2, <2>4, <1>3, ProbeSlots DEF Placed, At, Here
  <2>6. th[u].key # k
    BY <2>1, <1>1 DEF OnePublisher, At, k
  <2>7. j # i
    BY <2>5, <2>6, <1>6
  <2>8. QED
    BY <2>5, <2>7, <1>9, <1>11
<1>16. OnePublisher'
  BY <1>1, <1>2, <1>8 DEF OnePublisher, At
<1>17. Local(t)'
  <2>1. Located(t)'
    <3>1. th'[t].pc \in Labels(th'[t].op)
      BY <1>8 DEF Labels
    <3>2. QED
      BY <3>1, <1>3, <1>8, <1>9 DEF Located
  <2>2. Gated(t)' /\ Witnessed(t)'
    BY <1>1, <1>3, <1>8, <1>9 DEF Gated, Inside, At, Witnessed
  <2>3. QED
    BY <2>1, <2>2, <1>8, PlainLabel DEF Local, Plain
<1>18. ASSUME NEW j \in Slots(Current'.n), Current'.slot[j] # Nil, Current'.ctrl[j] = 0
       PROVE  \E u \in Thread : At(u, "publish")' /\ Here(u, Current.n)' = j
  <2>1. j # i
    BY <1>4, <1>11, <1>18
  <2>2. PICK u \in Thread : At(u, "publish") /\ Here(u, Current.n) = j
    BY <2>1, <1>1, <1>9, <1>11, <1>18 DEF Words
  <2>3. u # t
    BY <2>1, <2>2 DEF Here, i, k, d
  <2>4. QED
    BY <2>2, <2>3, <1>2, <1>9 DEF At, Here
<1>19. PublishedKeys' = PublishedKeys \cup {k} /\ k \notin PublishedKeys
  <2>1. k \notin PublishedKeys
    BY <1>3, <1>4, <1>6, <1>10 DEF PublishedKeys, Published, UniqueKey
  <2>2. ASSUME NEW q \in Key
        PROVE  Published(Current, q)' <=> Published(Current, q) \/ q = k
    BY <1>4, <1>6, <1>9, <1>11 DEF Published
  <2>3. QED
    BY <2>1, <2>2, <1>3 DEF PublishedKeys
<1>20. Counted' /\ cnt' \in Counters
  <2>1. /\ IsFiniteSet(PublishedKeys) /\ tombs \subseteq PublishedKeys
        /\ cnt.used = Cardinality(PublishedKeys) /\ cnt.tomb = Cardinality(tombs)
        /\ cnt.live = cnt.used - cnt.tomb /\ cnt \in Counters
    BY <1>1 DEF Counted, TypeOK, Counters
  <2>2. /\ IsFiniteSet(PublishedKeys')
        /\ Cardinality(PublishedKeys') = Cardinality(PublishedKeys) + 1
    BY <2>1, <1>19, FS_AddElement
  <2>3. /\ cnt' \in Counters /\ cnt'.live = cnt.live + 1 /\ cnt'.used = cnt.used + 1
        /\ cnt'.tomb = cnt.tomb
    BY <2>1, <1>1, CountersAdd
  <2>4. cnt.used \in Int /\ cnt.tomb \in Int
    BY <2>1 DEF Counters
  <2>5. cnt'.live = cnt'.used - cnt'.tomb
    BY <2>1, <2>3, <2>4
  <2>6. QED
    BY <2>1, <2>2, <2>3, <2>5, <1>1, <1>19 DEF Counted
<1>21. QED
  BY <1>1, <1>3, <1>9, <1>12, <1>13, <1>14, <1>15, <1>16, <1>17, <1>18, <1>20, CurrentStep
-------------------------------------------------------------------------------
\* A rebuild's step: the new table is filled, nothing else changes but the
\* rebuilding thread.
LEMMA RebuildStep ==
    ASSUME ProbeInv, NEW t \in Thread, Step(t), gate.owner = t,
           th[t].pc \in {"drain", "copy"}, UNCHANGED <<tabs, tombs, cnt, gate>>, Watch,
           Local(t)', ~At(t, "publish")', fresh' \in Tables, next' \in Nat,
           UniqueKey(fresh'), Unbroken(fresh'), WordsMatch(fresh'), WordsSet(fresh')
    PROVE  ProbeInv'
<1>1. /\ TypeOK /\ TablesSound /\ Words /\ OnePublisher /\ Counted
  BY DEF ProbeInv
<1>2. /\ th' \in [Thread -> Locals] /\ \A u \in Thread \ {t} : th'[u] = th[u]
      /\ GateStep(t) /\ ~At(t, "publish")
  BY <1>1, Moves, GateSteps DEF At
<1>3. TypeOK' /\ TabsGrow
  BY <1>1, <1>2 DEF TypeOK, TabsGrow, Grows
<1>4. ASSUME NEW u \in Thread PROVE Local(u)'
  <2>1. CASE u # t
    <3>1. Gated(u) /\ Placed(u) /\ th'[u] = th[u]
      BY <2>1, <1>2 DEF ProbeInv, Local
    <3>2. Copying(u)' /\ Placed(u)'
      BY <2>1, <3>1 DEF Copying, At, Gated, Placed, Here, Current
    <3>3. QED
      BY <2>1, <3>1, <3>2, <1>2, <1>3, OthersKeep
  <2>2. QED
    BY <2>1
<1>5. /\ \A u \in Thread : At(u, "publish")' <=> At(u, "publish")
      /\ \A u \in Thread : At(u, "publish") => th'[u] = th[u]
  BY <1>2 DEF At
<1>6. OnePublisher' /\ Counted'
  BY <1>1, <1>5 DEF OnePublisher, Counted, PublishedKeys, Published, Current
<1>7. Words'
  <2>1. Current' = Current /\ \A g \in 1..Len(tabs) : WordsMatch(tabs'[g])
    BY <1>1 DEF Words, Current
  <2>2. QED
    BY <2>1, <1>1, <1>5 DEF Words, Here
<1>8. TablesSound'
  BY <1>1 DEF TablesSound
<1>9. QED
  BY <1>3, <1>4, <1>6, <1>7, <1>8 DEF ProbeInv

\* A table without entries is sound.
LEMMA NewTableSound ==
    ASSUME NEW n \in Sizes
    PROVE  LET T == NewTable(n) IN
           /\ T \in Tables /\ UniqueKey(T) /\ Unbroken(T) /\ WordsMatch(T) /\ WordsSet(T)
           /\ \A k \in Key : ~InTable(T, k)
<1> DEFINE T == NewTable(n)
<1>1. /\ T \in Tables /\ T.n = n /\ \A i \in Slots(n) : T.slot[i] = Nil /\ T.ctrl[i] = 0
  BY NewTableEmpty
<1>2. Nil \notin Key
  BY KeysAssumption
<1> HIDE DEF T
<1>3. Unbroken(T)
  BY <1>1, <1>2, ProbeSlots DEF Unbroken
<1>4. UniqueKey(T) /\ WordsMatch(T) /\ WordsSet(T) /\ \A k \in Key : ~InTable(T, k)
  BY <1>1, <1>2 DEF UniqueKey, WordsMatch, WordsSet, InTable
<1>5. QED
  BY <1>1, <1>3, <1>4 DEF T

\* The writers are gone: the rebuild is given up or starts.
LEMMA StepDrained ==
    ASSUME ProbeInv, NEW t \in Thread, Drained(t) PROVE ProbeInv'
<1>1. /\ TypeOK /\ Located(t) /\ Gated(t) /\ Watch /\ Step(t) /\ At(t, "drain")
      /\ gate.writers = {} /\ UNCHANGED <<tabs, tombs, cnt, gate>> /\ ~At(t, "publish")
  BY DEF ProbeInv, Local, Drained, Step, At
<1>2. gate.owner = t /\ Current \in Tables /\ Current.n \in Nat
  BY <1>1, CurrentTable, TableFields DEF Gated, At
<1>3. th[t].op \in {"insert", "delete", "cleanup", "clear"}
  BY <1>1 DEF Located, At, Labels, TypeOK, Locals, Op, KeyOp
<1>4. CASE Goto(t, "release") /\ UNCHANGED <<fresh, next>>
  <2>1. /\ th'[t].pc = "release" /\ th'[t].op = th[t].op /\ th'[t].key = th[t].key
        /\ th'[t].gen = th[t].gen /\ th'[t].again = th[t].again
    BY <1>1, <1>4, GotoFields DEF PC
  <2>2. th'[t].pc \in Plain /\ th'[t].pc \in Labels(th[t].op) /\ Gated(t)'
    BY <2>1, <1>1, <1>2, <1>3 DEF Plain, Labels, Gated, Inside, At
  <2>3. GateStep(t) /\ (th'[t].again => th[t].op = "insert")
    BY <2>1, <1>1, GateSteps DEF Located
  <2>4. QED
    BY <2>1, <2>2, <2>3, <1>1, <1>3, <1>4, PlainMove
<1>5. CASE /\ Goto(t, "copy")
           /\ \E n \in Sizes : fresh' = NewTable(n)
           /\ next' = IF th[t].op = "clear" THEN Current.n ELSE 0
  <2>1. /\ th'[t].pc = "copy" /\ th'[t].op = th[t].op /\ th'[t].key = th[t].key
        /\ th'[t].gen = th[t].gen /\ th'[t].again = th[t].again
    BY <1>1, <1>5, GotoFields DEF PC
  <2>2. /\ fresh' \in Tables /\ UniqueKey(fresh') /\ Unbroken(fresh')
        /\ WordsMatch(fresh') /\ WordsSet(fresh') /\ \A k \in Key : ~InTable(fresh', k)
    BY <1>5, NewTableSound
  <2>3. next' \in Nat
    BY <1>2, <1>5
  <2>4. Copying(t)'
    <3>1. Current' = Current
      BY <1>1 DEF Current
    <3>2. CASE th[t].op = "clear"
      BY <3>1, <3>2, <2>1, <2>2, <1>5 DEF Copying
    <3>3. CASE th[t].op # "clear"
      BY <3>1, <3>3, <2>1, <2>2, <1>2, <1>5 DEF Copying
    <3>4. QED
      BY <3>2, <3>3
  <2>5. Located(t)'
    <3>1. th'[t].pc \in Labels(th'[t].op)
      BY <2>1, <1>3 DEF Labels
    <3>2. QED
      BY <3>1, <2>1, <1>1 DEF Located
  <2>6. Gated(t)' /\ ~At(t, "publish")'
    BY <2>1, <1>1, <1>2 DEF Gated, Inside, At
  <2>7. Chained(t)' /\ Placed(t)' /\ Holding(t)' /\ Witnessed(t)'
    BY <2>1, <1>3 DEF Chained, Placed, Holding, Witnessed, At
  <2>8. Local(t)'
    BY <2>4, <2>5, <2>6, <2>7 DEF Local
  <2>9. QED
    BY <2>2, <2>3, <2>6, <2>8, <1>1, <1>2, RebuildStep DEF At
<1>6. QED
  BY <1>4, <1>5, SizesAssumption DEF Drained

\* insertClone on a key that the new table does not have.
LEMMA CloneSound ==
    ASSUME NEW T \in Tables, NEW U \in Tables, NEW k \in Key, NEW d \in Slots(T.n),
           UniqueKey(T), Unbroken(T), WordsMatch(T), WordsSet(T),
           T.slot[Probe(T.n, k, d)] = Nil,
           \A e \in 0..(d - 1) : T.slot[Probe(T.n, k, e)] # Nil,
           ~InTable(T, k), U.n = T.n,
           U.slot = [T.slot EXCEPT ![Probe(T.n, k, d)] = k],
           U.ctrl = [T.ctrl EXCEPT ![Probe(T.n, k, d)] = Fp[k]]
    PROVE  /\ UniqueKey(U) /\ Unbroken(U) /\ WordsMatch(U) /\ WordsSet(U)
           /\ \A q \in Key : InTable(U, q) <=> InTable(T, q) \/ q = k
<1> DEFINE j == Probe(T.n, k, d)
<1>1. j \in Slots(T.n) /\ Fp[k] \in Nat /\ Fp[k] # 0 /\ k # Nil
  BY ProbeSlots, FpAssumption, KeysAssumption
<1>2. \A i \in Slots(T.n) : T.slot[i] # k
  BY DEF InTable
<1>3. UniqueKey(U) /\ Unbroken(U)
  BY <1>2, SoundInsert
<1>4. /\ T.slot \in [Slots(T.n) -> Key \cup {Nil}] /\ T.ctrl \in [Slots(T.n) -> Nat]
  BY TableFields
<1>5. /\ U.slot[j] = k /\ U.ctrl[j] = Fp[k]
      /\ \A i \in Slots(T.n) \ {j} : U.slot[i] = T.slot[i] /\ U.ctrl[i] = T.ctrl[i]
  BY <1>1, <1>4
<1>6. T.slot[j] = Nil /\ Nil \notin Key
  BY KeysAssumption
<1> HIDE DEF j
<1>7. WordsMatch(U) /\ WordsSet(U)
  BY <1>1, <1>5 DEF WordsMatch, WordsSet
<1>8. \A q \in Key : InTable(U, q) <=> InTable(T, q) \/ q = k
  BY <1>1, <1>5, <1>6 DEF InTable
<1>9. QED
  BY <1>3, <1>7, <1>8

\* The rebuild copies one slot.
LEMMA StepCopy ==
    ASSUME ProbeInv, NEW t \in Thread, Copy(t) PROVE ProbeInv'
<1>1. /\ TypeOK /\ Local(t) /\ Watch /\ Step(t) /\ At(t, "copy") /\ next < Current.n
      /\ next' = next + 1 /\ UNCHANGED <<tabs, tombs, cnt, gate, th>>
      /\ TablesSound /\ Words
  BY DEF ProbeInv, Copy, Step
<1>2. /\ gate.owner = t /\ Current \in Tables /\ Current.n \in Nat /\ next \in Nat
      /\ fresh \in Tables /\ UniqueKey(Current) /\ Current' = Current
      /\ Current.slot \in [Slots(Current.n) -> Key \cup {Nil}] /\ next \in Slots(Current.n)
  <2>1. gate.owner = t /\ next \in Nat /\ fresh \in Tables
    BY <1>1 DEF Local, Gated, At, TypeOK
  <2>2. Current \in Tables /\ Len(tabs) \in 1..Len(tabs)
    BY <1>1, CurrentTable
  <2>3. Current.n \in Nat /\ Current.slot \in [Slots(Current.n) -> Key \cup {Nil}]
    BY <2>2, TableFields
  <2>4. UniqueKey(Current) /\ Current' = Current
    BY <1>1, <2>2 DEF TablesSound, Current
  <2>5. QED
    BY <2>1, <2>2, <2>3, <2>4, <1>1 DEF Slots
<1>3. /\ th[t].op # "clear" /\ next \in 0..Current.n
      /\ \A q \in Key : InTable(fresh, q) <=>
            q \notin tombs /\ \E i \in 0..(next - 1) : Current.slot[i] = q
  <2>1. th[t].op # "clear"
    BY <1>1, <1>2 DEF Local, Copying
  <2>2. QED
    BY <2>1, <1>1 DEF Local, Copying
<1>4. \A i \in 0..(next - 1) : i \in Slots(Current.n) /\ i # next
  BY <1>1, <1>2 DEF Slots
<1>5. \A i : i \in 0..(next + 1 - 1) <=> i \in 0..(next - 1) \/ i = next
  BY <1>2
<1>6. /\ fresh' \in Tables /\ UniqueKey(fresh') /\ Unbroken(fresh') /\ WordsMatch(fresh')
      /\ WordsSet(fresh')
      /\ \A q \in Key : InTable(fresh', q) <=>
            InTable(fresh, q) \/ (Current.slot[next] = q /\ q \notin tombs)
  <2> DEFINE k == Current.slot[next]
  <2>1. /\ UniqueKey(fresh) /\ Unbroken(fresh) /\ WordsMatch(fresh) /\ WordsSet(fresh)
    BY <1>1 DEF TablesSound, Words
  <2>2. CASE Kept(next)
    <3>1. k \in Key /\ k # Nil /\ k \notin tombs
      BY <2>2, <1>2 DEF Kept
    <3>2. ~InTable(fresh, k)
      BY <3>1, <1>2, <1>3, <1>4 DEF UniqueKey
    <3>3. InsertClone(k)
      BY <2>2 DEF Copy
    <3> HIDE DEF k
    <3>4. PICK d \in Slots(fresh.n) :
             /\ fresh.slot[Probe(fresh.n, k, d)] = Nil
             /\ \A e \in 0..(d - 1) : fresh.slot[Probe(fresh.n, k, e)] # Nil
             /\ fresh' = [fresh EXCEPT !.slot[Probe(fresh.n, k, d)] = k,
                                       !.ctrl[Probe(fresh.n, k, d)] = Fp[k]]
      BY <3>3 DEF InsertClone
    <3>5. /\ fresh' \in Tables /\ UniqueKey(fresh') /\ Unbroken(fresh')
          /\ WordsMatch(fresh') /\ WordsSet(fresh')
          /\ \A q \in Key : InTable(fresh', q) <=> InTable(fresh, q) \/ q = k
      <4> DEFINE j == Probe(fresh.n, k, d)
                 V == [fresh EXCEPT !.slot[j] = k]
                 U == [V EXCEPT !.ctrl[j] = Fp[k]]
      <4>1. j \in Slots(fresh.n) /\ Fp[k] \in Nat
        BY <3>1, <1>2, ProbeSlots, FpAssumption
      <4>2. fresh' = U
        BY <3>4
      <4> HIDE DEF j
      <4>3. /\ V \in Tables /\ V.n = fresh.n /\ V.ctrl = fresh.ctrl
            /\ V.slot = [fresh.slot EXCEPT ![j] = k]
        BY <4>1, <3>1, <1>2, TableEdit
      <4> HIDE DEF V
      <4>4. /\ U \in Tables /\ U.n = V.n /\ U.slot = V.slot
            /\ U.ctrl = [V.ctrl EXCEPT ![j] = Fp[k]]
        BY <4>1, <4>3, TableEdit
      <4> HIDE DEF U
      <4>5. /\ U.n = fresh.n /\ U.slot = [fresh.slot EXCEPT ![j] = k]
            /\ U.ctrl = [fresh.ctrl EXCEPT ![j] = Fp[k]]
        BY <4>3, <4>4
      <4>6. /\ UniqueKey(U) /\ Unbroken(U) /\ WordsMatch(U) /\ WordsSet(U)
            /\ \A q \in Key : InTable(U, q) <=> InTable(fresh, q) \/ q = k
        BY <4>4, <4>5, <3>1, <3>2, <3>4, <2>1, <1>2, CloneSound DEF j
      <4>7. QED
        BY <4>2, <4>4, <4>6
    <3>6. QED
      BY <3>1, <3>5 DEF k
  <2>3. CASE ~Kept(next)
    <3>1. fresh' = fresh
      BY <2>3 DEF Copy
    <3>2. \A q \in Key : ~(Current.slot[next] = q /\ q \notin tombs)
      BY <2>3, KeysAssumption DEF Kept
    <3>3. QED
      BY <3>1, <3>2, <2>1, <1>2
  <2>4. QED
    BY <2>2, <2>3
<1>7. Copying(t)'
  <2>1. next' \in 0..Current.n
    BY <1>1, <1>2
  <2>2. ASSUME NEW q \in Key
        PROVE  InTable(fresh', q) <=>
                   q \notin tombs /\ \E i \in 0..(next' - 1) : Current.slot[i] = q
    <3>1. (\E i \in 0..(next' - 1) : Current.slot[i] = q) <=>
              (\E i \in 0..(next - 1) : Current.slot[i] = q) \/ Current.slot[next] = q
      <4>1. \A i : i \in 0..(next' - 1) <=> i \in 0..(next - 1) \/ i = next
        BY <1>1, <1>5
      <4>2. QED
        BY <4>1, Zenon
    <3>2. QED
      BY <3>1, <1>3, <1>6
  <2>3. QED
    BY <2>1, <2>2, <1>1, <1>2, <1>3 DEF Copying
<1>8. Located(t)' /\ Gated(t)' /\ ~At(t, "publish")'
  BY <1>1 DEF Local, Located, Gated, Inside, At
<1>9. Chained(t)' /\ Placed(t)' /\ Holding(t)'
  BY <1>1 DEF Chained, Placed, Holding, At
<1>10. Witnessed(t)'
  <2>1. th[t].op # "lookup"
    BY <1>1 DEF Local, Located, At, Labels
  <2>2. QED
    BY <2>1, <1>1 DEF Witnessed
<1>11. Local(t)'
  BY <1>7, <1>8, <1>9, <1>10 DEF Local
<1>12. next' \in Nat
  BY <1>1, <1>2
<1>13. QED
  BY <1>1, <1>2, <1>6, <1>8, <1>11, <1>12, RebuildStep DEF At

\* A rebuild keeps as many slots as the table has keys with a value.
LEMMA KeptKeys ==
    ASSUME Current \in Tables, UniqueKey(Current)
    PROVE  LET K == {k \in Key : k \notin tombs /\ InTable(Current, k)} IN
           IsFiniteSet(K) /\ Cardinality(K) = Live /\ Live \in Nat
<1> DEFINE K == {k \in Key : k \notin tombs /\ InTable(Current, k)}
           S == {i \in Slots(Current.n) : Kept(i)}
           f == [i \in S |-> Current.slot[i]]
<1>1. Current.n \in Nat /\ Current.slot \in [Slots(Current.n) -> Key \cup {Nil}]
  BY TableFields
<1>2. IsFiniteSet(Slots(Current.n))
  BY <1>1, FS_Interval DEF Slots
<1>3. IsFiniteSet(S)
  BY <1>2, FS_Subset
<1>4. f \in [S -> K]
  BY <1>1 DEF Kept, InTable
<1>5. \A i, j \in S : f[i] = f[j] => i = j
  BY DEF UniqueKey, Kept
<1>6. \A k \in K : \E i \in S : f[i] = k
  BY KeysAssumption DEF Kept, InTable
<1> HIDE DEF f, S, K
<1>7. f \in Bijection(S, K)
  BY <1>4, <1>5, <1>6 DEF Bijection, Injection, Surjection, IsInjective
<1>8. IsFiniteSet(K) /\ Cardinality(K) = Cardinality(S)
  BY <1>3, <1>7, FS_Bijection DEF ExistsBijection
<1>9. Live = Cardinality(S) /\ Cardinality(S) \in Nat
  BY <1>3, FS_CardinalityType DEF Live, S
<1>10. QED
  BY <1>8, <1>9 DEF K

\* table.Store of the new table, and its counters.
LEMMA StepReplace ==
    ASSUME ProbeInv, NEW t \in Thread, Replace(t) PROVE ProbeInv'
<1>1. /\ TypeOK /\ Local(t) /\ Watch /\ Step(t) /\ At(t, "copy") /\ next = Current.n
      /\ tabs' = Append(tabs, fresh) /\ tombs' = {} /\ Goto(t, "release")
      /\ UNCHANGED <<gate, fresh, next>> /\ TablesSound /\ Words
  BY DEF ProbeInv, Replace, Step
<1>2. /\ gate.owner = t /\ gate.writers = {} /\ fresh \in Tables /\ tabs \in Seq(Tables)
      /\ Len(tabs) \in Nat /\ Len(tabs) \in 1..Len(tabs)
      /\ Current \in Tables /\ UniqueKey(Current)
  <2>1. gate.owner = t /\ gate.writers = {} /\ fresh \in Tables /\ tabs \in Seq(Tables)
    BY <1>1 DEF Local, Gated, At, TypeOK
  <2>2. Len(tabs) \in Nat /\ Len(tabs) \in 1..Len(tabs) /\ Current \in Tables
    BY <1>1, CurrentTable
  <2>3. QED
    BY <2>1, <2>2, <1>1 DEF TablesSound, Current
<1>3. /\ tabs' \in Seq(Tables) /\ Len(tabs') = Len(tabs) + 1 /\ Current' = fresh
      /\ \A g \in 1..Len(tabs) : tabs'[g] = tabs[g]
  BY <1>1, <1>2 DEF Current
<1>4. /\ th' \in [Thread -> Locals] /\ \A u \in Thread \ {t} : th'[u] = th[u]
      /\ GateStep(t)
  BY <1>1, Moves, GateSteps
<1>5. /\ th'[t].pc = "release" /\ th'[t].op = th[t].op /\ th'[t].key = th[t].key
      /\ th'[t].gen = th[t].gen /\ th'[t].again = th[t].again
  BY <1>1, GotoFields DEF PC
<1>6. TabsGrow
  BY <1>2, <1>3 DEF TabsGrow, Grows
<1>7. ASSUME NEW u \in Thread PROVE Local(u)' /\ ~At(u, "publish")'
  <2>1. CASE u = t
    <3>1. th[t].op \in {"insert", "delete", "cleanup", "clear"}
      BY <1>1 DEF Local, Located, At, Labels, TypeOK, Locals, Op, KeyOp
    <3>2. Located(t)'
      <4>1. th'[t].pc \in Labels(th'[t].op)
        BY <3>1, <1>5 DEF Labels
      <4>2. QED
        BY <4>1, <1>1, <1>2, <1>3, <1>5 DEF Local, Located
    <3>3. Gated(t)' /\ Witnessed(t)' /\ ~At(t, "publish")'
      BY <3>1, <1>1, <1>2, <1>5 DEF Gated, Inside, Witnessed, At
    <3>4. QED
      BY <2>1, <3>2, <3>3, <1>5, PlainLabel DEF Local, Plain
  <2>2. CASE u # t
    <3>1. /\ Located(u) /\ Gated(u) /\ Witnessed(u) /\ th'[u] = th[u]
      BY <2>2, <1>4 DEF ProbeInv, Local
    <3>2. /\ ~Inside(u) /\ th[u].pc \notin {"drain", "copy", "release"}
      BY <2>2, <3>1, <1>2 DEF Gated
    <3>3. Located(u)' /\ Witnessed(u)'
      BY <3>1, <1>1, <1>6, OthersLocated
    <3>4. /\ Gated(u)' /\ Chained(u)' /\ Placed(u)' /\ Holding(u)' /\ Copying(u)'
          /\ ~At(u, "publish")'
      BY <3>1, <3>2 DEF Gated, Inside, Chained, Placed, Holding, Copying, At
    <3>5. QED
      BY <3>3, <3>4 DEF Local
  <2>3. QED
    BY <2>1, <2>2
<1>8. OnePublisher'
  BY <1>7 DEF OnePublisher
<1>9. /\ UniqueKey(fresh) /\ Unbroken(fresh) /\ WordsMatch(fresh) /\ WordsSet(fresh)
  BY <1>1 DEF TablesSound, Words
<1>10. ASSUME NEW g \in 1..Len(tabs')
       PROVE  UniqueKey(tabs'[g]) /\ Unbroken(tabs'[g]) /\ WordsMatch(tabs'[g])
  <2>1. CASE g \in 1..Len(tabs)
    BY <2>1, <1>1, <1>3 DEF TablesSound, Words
  <2>2. CASE g = Len(tabs')
    BY <2>2, <1>3, <1>9 DEF Current
  <2>3. QED
    BY <2>1, <2>2, <1>2, <1>3
<1>11. TablesSound' /\ Words'
  BY <1>1, <1>3, <1>9, <1>10 DEF TablesSound, Words, WordsSet
<1>12. \A k \in Key : Published(Current, k)' <=> InTable(fresh, k)
  BY <1>3, <1>9, KeysAssumption DEF Published, InTable, WordsSet
<1>13. PublishedKeys' = {k \in Key : InTable(fresh, k)}
  BY <1>12 DEF PublishedKeys
<1>14. PICK n \in Nat : /\ cnt' = [live |-> n, used |-> n, tomb |-> 0]
                        /\ IsFiniteSet(PublishedKeys') /\ Cardinality(PublishedKeys') = n
  <2>1. CASE th[t].op = "clear"
    <3>1. PublishedKeys' = {}
      BY <2>1, <1>1, <1>13 DEF Local, Copying
    <3>2. cnt' = [live |-> 0, used |-> 0, tomb |-> 0]
      BY <2>1 DEF Replace
    <3>3. QED
      BY <3>1, <3>2, FS_EmptySet
  <2>2. CASE th[t].op # "clear"
    <3>1. \A k \in Key : InTable(fresh, k) <=> k \notin tombs /\ InTable(Current, k)
      <4>1. \A k \in Key : InTable(fresh, k) <=>
                k \notin tombs /\ \E i \in 0..(Current.n - 1) : Current.slot[i] = k
        BY <2>2, <1>1 DEF Local, Copying
      <4>2. QED
        BY <4>1 DEF InTable, Slots
    <3>2. PublishedKeys' = {k \in Key : k \notin tombs /\ InTable(Current, k)}
      BY <3>1, <1>13
    <3>3. cnt' = [live |-> Live, used |-> Live, tomb |-> 0]
      BY <2>2 DEF Replace
    <3>4. IsFiniteSet(PublishedKeys') /\ Cardinality(PublishedKeys') = Live /\ Live \in Nat
      BY <3>2, <1>2, KeptKeys
    <3>5. QED
      BY <3>3, <3>4
  <2>3. QED
    BY <2>1, <2>2
<1>15. Counted' /\ cnt' \in [live : Int, used : Int, tomb : Int]
  <2>1. /\ cnt'.live = n /\ cnt'.used = n /\ cnt'.tomb = 0
        /\ cnt' \in [live : Int, used : Int, tomb : Int]
    BY <1>14
  <2>2. cnt'.live = cnt'.used - cnt'.tomb
    BY <2>1
  <2>3. Cardinality(tombs') = 0
    BY <1>1, FS_EmptySet
  <2>4. QED
    BY <2>1, <2>2, <2>3, <1>1, <1>14 DEF Counted
<1>16. TypeOK'
  BY <1>1, <1>2, <1>3, <1>4, <1>15 DEF TypeOK
<1>17. QED
  BY <1>7, <1>8, <1>11, <1>15, <1>16 DEF ProbeInv
-------------------------------------------------------------------------------
\* Every initial state satisfies the invariant.
LEMMA ProbeInit == ASSUME Init PROVE ProbeInv
<1>1. MinTableSlots \in Sizes
  BY SizesAssumption
<1> DEFINE T == NewTable(MinTableSlots)
<1>2. /\ T \in Tables /\ UniqueKey(T) /\ Unbroken(T) /\ WordsMatch(T) /\ WordsSet(T)
      /\ \A k \in Key : ~InTable(T, k)
  BY <1>1, NewTableSound
<1> HIDE DEF T
<1>3. /\ tabs = <<T>> /\ tombs = {} /\ cnt = [live |-> 0, used |-> 0, tomb |-> 0]
      /\ gate = [writers |-> {}, owner |-> Nil] /\ fresh = T /\ next = 0
      /\ th = [t \in Thread |-> Idle]
  BY DEF Init, T
<1>4. /\ tabs \in Seq(Tables) /\ Len(tabs) = 1 /\ Current = T
      /\ \A g \in 1..Len(tabs) : tabs[g] = T
  BY <1>2, <1>3 DEF Current
<1>5. TypeOK
  <2>1. th \in [Thread -> Locals]
    BY <1>3, IdleTyped
  <2>2. QED
    BY <2>1, <1>2, <1>3, <1>4 DEF TypeOK
<1>6. ASSUME NEW t \in Thread PROVE Local(t) /\ ~At(t, "publish")
  <2>1. /\ th[t].pc = "idle" /\ th[t].op = "" /\ th[t].gen = 1 /\ th[t].again = FALSE
    BY <1>3 DEF Idle
  <2>2. Located(t)
    <3>1. 1 \in 1..Len(tabs)
      BY <1>4
    <3>2. QED
      BY <2>1, <3>1 DEF Located, Labels, KeyOp
  <2>3. Gated(t) /\ Chained(t) /\ Placed(t) /\ Holding(t) /\ Copying(t) /\ Witnessed(t)
    BY <2>1 DEF Gated, Inside, Chained, Placed, Holding, Copying, Witnessed, At
  <2>4. QED
    BY <2>1, <2>2, <2>3 DEF Local, At
<1>7. OnePublisher /\ Words /\ TablesSound
  BY <1>2, <1>3, <1>4, <1>6 DEF OnePublisher, Words, TablesSound, WordsSet
<1>8. Counted
  <2>1. PublishedKeys = {}
    BY <1>2, <1>4 DEF PublishedKeys, Published, InTable
  <2>2. QED
    BY <2>1, <1>3, FS_EmptySet DEF Counted
<1>9. QED
  BY <1>5, <1>6, <1>7, <1>8 DEF ProbeInv

\* Every step keeps it.
LEMMA ProbeStep == ASSUME ProbeInv, [Next]_vars PROVE ProbeInv'
<1>1. ASSUME NEW t \in Thread, Step(t) PROVE ProbeInv'
  BY <1>1, StepStart, StepBegin, StepProbeSlot, StepInsert, StepLeave, StepPublish,
     StepFindEntry, StepFoundDelete, StepEndLookup, StepResizeTry, StepDrained, StepCopy,
     StepReplace, StepRelease DEF Step
<1>2. CASE UNCHANGED vars
  <2>1. ASSUME NEW t \in Thread PROVE Local(t)'
    BY <1>2 DEF vars, ProbeInv, Local, Located, Gated, Inside, Chained, Placed, Holding,
       Copying, Witnessed, At, Here, Current, Published, InTable
  <2>2. TypeOK' /\ OnePublisher' /\ Words' /\ TablesSound' /\ Counted'
    BY <1>2 DEF vars, ProbeInv, TypeOK, OnePublisher, Words, TablesSound, Counted,
       PublishedKeys, Published, Current, At, Here, WordsMatch, WordsSet, UniqueKey, Unbroken
  <2>3. QED
    BY <2>1, <2>2 DEF ProbeInv
<1>3. QED
  BY <1>1, <1>2 DEF Next

\* The invariant gives the three properties; CountersExact because, with every
\* thread idle, no insertion is in progress and every entry is published.
LEMMA ProbeImplies == ASSUME ProbeInv PROVE TablesSound /\ LookupNeedsExcuse /\ CountersExact
<1>1. TablesSound
  BY DEF ProbeInv
<1>2. ASSUME NEW t \in Thread, At(t, "missed") PROVE exc[t] # {}
  <2>1. TypeOK /\ Located(t) /\ Witnessed(t)
    BY DEF ProbeInv, Local
  <2>2. th[t].op = "lookup"
    BY <1>2, <2>1 DEF Located, At, Labels, TypeOK, Locals, Op, KeyOp
  <2>3. QED
    BY <1>2, <2>1, <2>2 DEF Witnessed
<1>3. ASSUME \A t \in Thread : At(t, "idle")
      PROVE  LET keys == {k \in Key : InTable(Current, k)} IN
             /\ tombs \subseteq keys
             /\ cnt = [live |-> Cardinality(keys \ tombs), used |-> Cardinality(keys),
                       tomb |-> Cardinality(tombs)]
  <2> DEFINE keys == {k \in Key : InTable(Current, k)}
  <2>1. \A t \in Thread : ~At(t, "publish")
    BY <1>3 DEF At
  <2>2. \A i \in Slots(Current.n) : Current.slot[i] # Nil => Current.ctrl[i] # 0
    BY <2>1 DEF ProbeInv, Words
  <2>3. keys = PublishedKeys
    BY <2>2, KeysAssumption DEF PublishedKeys, Published, InTable
  <2>4. /\ IsFiniteSet(keys) /\ tombs \subseteq keys
        /\ cnt.used = Cardinality(keys) /\ cnt.tomb = Cardinality(tombs)
        /\ cnt.live = cnt.used - cnt.tomb /\ cnt \in [live : Int, used : Int, tomb : Int]
    BY <2>3 DEF ProbeInv, Counted, TypeOK
  <2> HIDE DEF keys
  <2>5. keys \cap tombs = tombs
    BY <2>4
  <2>6. Cardinality(keys \ tombs) = Cardinality(keys) - Cardinality(keys \cap tombs)
    BY <2>4, FS_Difference
  <2>7. cnt.live = Cardinality(keys \ tombs)
    BY <2>4, <2>5, <2>6
  <2>8. cnt = [live |-> cnt.live, used |-> cnt.used, tomb |-> cnt.tomb]
    BY <2>4
  <2>9. QED
    BY <2>4, <2>7, <2>8 DEF keys
<1>4. QED
  BY <1>1, <1>2, <1>3 DEF LookupNeedsExcuse, CountersExact

\* The inductive invariant holds throughout.
LEMMA ProbeAlways == Spec => []ProbeInv
<1>1. Init => ProbeInv
  BY ProbeInit
<1>2. ProbeInv /\ [Next]_vars => ProbeInv'
  BY ProbeStep
<1>3. QED
  BY <1>1, <1>2, PTL DEF Spec

\* However insertions, deletions, rebuilds and clears interleave, no key gets
\* two entries in one table and no probe chain is broken.
THEOREM ProbeTablesSound == Spec => []TablesSound
<1>1. ProbeInv => TablesSound
  BY ProbeImplies
<1>2. QED
  BY <1>1, ProbeAlways, PTL

\* findEntry, on a table that may be replaced under it, misses a key only if
\* the key was absent, or an insertion of any thread was between its slot and
\* its control word, at some moment of the lookup.
THEOREM LookupsFind == Spec => []LookupNeedsExcuse
<1>1. ProbeInv => LookupNeedsExcuse
  BY ProbeImplies
<1>2. QED
  BY <1>1, ProbeAlways, PTL

\* live, used and tombstones are exact whenever no call is in progress.
THEOREM CountersAreExact == Spec => []CountersExact
<1>1. ProbeInv => CountersExact
  BY ProbeImplies
<1>2. QED
  BY <1>1, ProbeAlways, PTL
===============================================================================
