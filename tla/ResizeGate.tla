------------------------------ MODULE ResizeGate ------------------------------
(***************************************************************************)
(* The state word of a shard (map.go: shard.state) and the four procedures *)
(* that use it: beginWrite with beginWriteSlow, endWrite, the acquisition  *)
(* and release in resizeAt, and the acquisition loop of clear.             *)
(*                                                                         *)
(* One int64 carries both a count and a flag: every writer adds 1 to it,   *)
(* and the thread that rebuilds the table adds shardResizing (bit 62) and  *)
(* then waits until the word is exactly shardResizing.  Each action below  *)
(* is one atomic operation on the word.                                    *)
(***************************************************************************)
EXTENDS Integers, FiniteSets

CONSTANTS
    Thread,         \* the goroutines that use the shard
    ShardResizing   \* 1 << 62 in the code: larger than any count of writers

ASSUME ThreadsAssumption == IsFiniteSet(Thread)
ASSUME ResizingAssumption ==
    ShardResizing \in Nat /\ ShardResizing > Cardinality(Thread)

VARIABLES
    state,  \* the state word
    pc,     \* where each thread is
    old     \* the word a resizer loaded before its CompareAndSwap

vars == <<state, pc, old>>

PC == {"idle", "add", "backoff", "spin", "writing",
       "load", "cas", "clearLoad", "clearCas", "drain", "rebuild"}

\* v & shardResizing != 0, for a word below 2 * shardResizing.
Resizing(v) == v >= ShardResizing

Init ==
    /\ state = 0
    /\ pc = [t \in Thread |-> "idle"]
    /\ old = [t \in Thread |-> 0]

Goto(t, l) == pc' = [pc EXCEPT ![t] = l]

-------------------------------------------------------------------------------
\* A goroutine starts a write, a resize (after a write of its own, from a
\* read that cleared an entry, or from the cleaner), or a Clear.
Call(t) ==
    /\ pc[t] = "idle"
    /\ \E l \in {"add", "load", "clearLoad"} : Goto(t, l)
    /\ UNCHANGED <<state, old>>

\* Mutant: beginWrite that does not look at the resize bit.
BeginWriteBlind(t) ==
    /\ pc[t] = "add"
    /\ state' = state + 1
    /\ Goto(t, "writing")
    /\ UNCHANGED old

\* v := s.state.Add(1), in beginWrite and again in beginWriteSlow.
BeginWrite(t) ==
    /\ pc[t] = "add"
    /\ state' = state + 1
    /\ Goto(t, IF Resizing(state + 1) THEN "backoff" ELSE "writing")
    /\ UNCHANGED old

\* Mutant: beginWriteSlow that adds again at once instead of spinning.
BackOffNoSpin(t) ==
    /\ pc[t] = "backoff"
    /\ state' = state - 1
    /\ Goto(t, "add")
    /\ UNCHANGED old

\* The writer met the resize bit: take the count back, then spin.
BackOff(t) ==
    /\ pc[t] = "backoff"
    /\ state' = state - 1
    /\ Goto(t, "spin")
    /\ UNCHANGED old

\* Mutant: beginWriteSlow that waits for the whole word to be zero.
SpinUntilZero(t) ==
    /\ pc[t] = "spin"
    /\ state = 0
    /\ Goto(t, "add")
    /\ UNCHANGED <<state, old>>

\* The spin of beginWriteSlow ends when the resize bit is seen clear.
SpinEnds(t) ==
    /\ pc[t] = "spin"
    /\ ~Resizing(state)
    /\ Goto(t, "add")
    /\ UNCHANGED <<state, old>>

\* endWrite; a write that filled the table goes on to resize.
EndWrite(t) ==
    /\ pc[t] = "writing"
    /\ state' = state - 1
    /\ \E l \in {"idle", "load"} : Goto(t, l)
    /\ UNCHANGED old

\* resizeAt gives up when another thread is already resizing.
ResizeLoad(t) ==
    /\ pc[t] = "load"
    /\ old' = [old EXCEPT ![t] = state]
    /\ Goto(t, IF Resizing(state) THEN "idle" ELSE "cas")
    /\ UNCHANGED state

\* resizeAt also gives up when the word moved since it was loaded.
ResizeCAS(t) ==
    /\ pc[t] = "cas"
    /\ IF state = old[t]
       THEN state' = state + ShardResizing /\ Goto(t, "drain")
       ELSE state' = state /\ Goto(t, "idle")
    /\ UNCHANGED old

\* clear, unlike resizeAt, retries until the bit is its own.
ClearLoad(t) ==
    /\ pc[t] = "clearLoad"
    /\ ~Resizing(state)
    /\ old' = [old EXCEPT ![t] = state]
    /\ Goto(t, "clearCas")
    /\ UNCHANGED state

ClearCAS(t) ==
    /\ pc[t] = "clearCas"
    /\ IF state = old[t]
       THEN state' = state + ShardResizing /\ Goto(t, "drain")
       ELSE state' = state /\ Goto(t, "clearLoad")
    /\ UNCHANGED old

\* Mutant: a wait that tests only that the bit is set.
DrainAtOnce(t) ==
    /\ pc[t] = "drain"
    /\ state >= ShardResizing
    /\ Goto(t, "rebuild")
    /\ UNCHANGED <<state, old>>

\* The wait for every writer to leave: state.Load() == shardResizing.
Drain(t) ==
    /\ pc[t] = "drain"
    /\ state = ShardResizing
    /\ Goto(t, "rebuild")
    /\ UNCHANGED <<state, old>>

\* The deferred state.Add(-shardResizing).
Release(t) ==
    /\ pc[t] = "rebuild"
    /\ state' = state - ShardResizing
    /\ Goto(t, "idle")
    /\ UNCHANGED old

Step(t) ==
    \/ BeginWrite(t) \/ BackOff(t) \/ SpinEnds(t) \/ EndWrite(t)
    \/ ResizeLoad(t) \/ ResizeCAS(t) \/ ClearLoad(t) \/ ClearCAS(t)
    \/ Drain(t) \/ Release(t)

Next == \E t \in Thread : Call(t) \/ Step(t)

Spec == Init /\ [][Next]_vars

\* A goroutine that is inside a call keeps running: Go's scheduler is
\* preemptive and every spin loop calls Gosched.  None need start a call.
Fairness == \A t \in Thread : WF_vars(Step(t))

FairSpec == Spec /\ Fairness
-------------------------------------------------------------------------------
\* The threads that have added 1 to the word, and the owner of the bit.
Counted == {t \in Thread : pc[t] \in {"writing", "backoff"}}
Owners == {t \in Thread : pc[t] \in {"drain", "rebuild"}}

TypeOK ==
    /\ state \in Nat
    /\ pc \in [Thread -> PC]
    /\ old \in [Thread -> Nat]

\* The word is the number of threads that have added 1 to it, plus
\* shardResizing while some thread owns the resize bit.
StateWord ==
    state = Cardinality(Counted) + IF Owners = {} THEN 0 ELSE ShardResizing

\* A word that passed the test in resizeAt or clear had the bit clear.
LoadedWordIsClear ==
    \A t \in Thread : pc[t] \in {"cas", "clearCas"} => ~Resizing(old[t])

\* Two threads never own the resize bit together (resizeAt and clear).
OneOwner == \A t, u \in Owners : t = u

\* While resizeAt or clear reads the slots and publishes the new table, no
\* thread is between beginWrite and endWrite: a write cannot land in a table
\* that is being replaced.
RebuildExcludesWriters ==
    \A t \in Thread : pc[t] = "rebuild" => \A u \in Thread : pc[u] # "writing"

\* The inductive invariant of the gate.
GateInv ==
    /\ TypeOK
    /\ StateWord
    /\ LoadedWordIsClear
    /\ OneOwner
    /\ RebuildExcludesWriters

\* The state word implements WriteGate: a thread counts as a writer only
\* once beginWrite has returned, so the increments that BackOff takes back
\* are invisible, and every other step is one step of WriteGate or none.
Gate == INSTANCE WriteGate WITH
    writers <- {t \in Thread : pc[t] = "writing"},
    owner <- Owners,
    rebuilding <- \E t \in Thread : pc[t] = "rebuild"

ImplementsWriteGate == Gate!Spec

\* A thread that has set the resize bit gets to rebuild: the writers drain,
\* and the writers that keep arriving cannot hold the word away from
\* shardResizing forever (the wait loops of resizeAt and clear).
DrainEnds == \A t \in Thread : pc[t] = "drain" ~> pc[t] = "rebuild"

\* A writer that meets a resize gets in once resizes stop: it can wait
\* forever in beginWriteSlow only if the bit is set again and again.
WriterEnters ==
    \A t \in Thread :
        \/ []<>(Owners # {})
        \/ pc[t] = "spin" ~> pc[t] = "writing"
===============================================================================
