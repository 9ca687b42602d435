--------------------------- MODULE MCRangePipeline ---------------------------
(***************************************************************************)
(* Two traversals, of one map or of two, that may follow one another or    *)
(* overlap.  The maps have one shard, too few entries for workers, as many *)
(* workers as shards, and more shards than workers, so that the chunks are *)
(* unequal and buffers too small for the next call.                        *)
(***************************************************************************)
EXTENDS RangePipeline

Job(k, m) == [kind |-> k, map |-> m]
Small == <<1, 2>>       \* one worker
Large == <<2, 0, 2>>    \* two workers, the first with two shards

\* Two traversals through the pools, and every traversal on its own.
OneOrTwoCalls ==
    {<<Job("Range", Small), Job("Range", Small)>>, <<Job("Range", Large), Job("Range", Small)>>,
     <<Job("Range", Small), Job("Snapshot", Large)>>}
    \cup {<<Job(k, m)>> : k \in {"Range", "Snapshot", "RangePar", "TypedRangePar"},
                          m \in {<<2>>, <<1, 1>>, Large, <<2, 2, 1>>}}
===============================================================================
