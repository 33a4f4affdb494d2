------------------------------ MODULE MCBatch ------------------------------
(* Every single departure from the audited table, one entry more or one     *)
(* less, and the audited table in each room around the exact fit.  A table  *)
(* with one more and one less at once is left to the theorems: it is where  *)
(* CountTells may be false.                                                 *)
EXTENDS BatchRewrite

Plain == [more |-> 0, less |-> 0, supported |-> TRUE, spare |-> 100, entries |-> 20, short |-> 0]

MCFrames ==
    {Plain, [Plain EXCEPT !.more = 1], [Plain EXCEPT !.less = 1],
     [Plain EXCEPT !.supported = FALSE], [Plain EXCEPT !.short = 1]}
    \union {[Plain EXCEPT !.spare = n] : n \in {-1, 0}}
    \union {[Plain EXCEPT !.entries = n] : n \in 4..10}
============================================================================
