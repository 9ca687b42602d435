------------------------------- MODULE WriteGate -------------------------------
(***************************************************************************)
(* What the shard's state word promises to the rest of map.go: any number  *)
(* of writers may be inside a write section at once, at most one thread    *)
(* owns the resize bit, no writer enters while it is owned, and the table  *)
(* is rebuilt (or replaced by Clear) only after every writer has left.     *)
(*                                                                         *)
(* ResizeGate shows that beginWrite, endWrite, resizeAt and clear          *)
(* implement this; ShardKey and ProbeTable are written on top of it.       *)
(***************************************************************************)
CONSTANT Thread

VARIABLES
    writers,    \* threads between beginWrite and endWrite
    owner,      \* the thread that set shardResizing: {} or a singleton
    rebuilding  \* the owner has seen the writers drain

vars == <<writers, owner, rebuilding>>

Init == writers = {} /\ owner = {} /\ rebuilding = FALSE

Enter(t) ==
    /\ owner = {} /\ t \notin writers
    /\ writers' = writers \cup {t}
    /\ UNCHANGED <<owner, rebuilding>>

Leave(t) ==
    /\ t \in writers
    /\ writers' = writers \ {t}
    /\ UNCHANGED <<owner, rebuilding>>

Acquire(t) ==
    /\ owner = {} /\ t \notin writers
    /\ owner' = {t}
    /\ UNCHANGED <<writers, rebuilding>>

Drained(t) ==
    /\ owner = {t} /\ writers = {} /\ ~rebuilding
    /\ rebuilding' = TRUE
    /\ UNCHANGED <<writers, owner>>

Release(t) ==
    /\ owner = {t} /\ rebuilding
    /\ owner' = {} /\ rebuilding' = FALSE
    /\ UNCHANGED writers

Next == \E t \in Thread :
    Enter(t) \/ Leave(t) \/ Acquire(t) \/ Drained(t) \/ Release(t)

Spec == Init /\ [][Next]_vars
================================================================================
