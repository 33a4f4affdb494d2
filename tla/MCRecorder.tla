---------------------------- MODULE MCRecorder ----------------------------
(* A small instance of RecorderStore: two kinds, one short and one long.    *)
EXTENDS RecorderStore
CONSTANTS detail, event
MCKeep == [k \in {detail, event} |-> IF k = detail THEN 1 ELSE 2]
\* The names of each second, by their place in the order.  Two incidents of
\* second 1 may sort either way; at time 3 local time goes back by two seconds.
MCNames ==
    [t \in 0..MaxTime |->
        CASE t = 0 -> {0} [] t \in {1, 3} -> {1, 2} [] t \in {2, 4} -> {3} [] t = 5 -> {4}]
============================================================================
