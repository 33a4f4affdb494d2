--------------------------- MODULE MCHevcRecovery ---------------------------
(* Small instances of the HEVC owner.                                       *)
EXTENDS HevcOwnership, TLC

CONSTANTS t1, t2, w1, c1, c2, s1, s2, sysmem, foreign, buffer, x1, x2, p1, p2

MCNone == {}
MCOneThread == {t1}
MCTwoThreads == {t1, t2}
MCOneWorker == {w1}
MCOneContext == {c1}
MCTwoContexts == {c1, c2}
MCOneSlot == {s1}
MCTwoSlots == {s1, s2}
MCSysmem == {sysmem}
MCAllKinds == {sysmem, foreign, buffer}
MCTwoScratch == {x1, x2}
MCOnePage == {p1}
MCTwoPages == {p1, p2}
MCWhole == {{p1}}
\* Two pages given back one after the other fill the deferred table of one.
MCParts == {{p1}, {p2}, {p1, p2}}

\* sysmem spans all pages; foreign has a backing the catalog cannot read;
\* buffer belongs to the context c1.
MCMemory == [r \in Resources |-> IF r = buffer THEN {} ELSE IF r = sysmem THEN Pages ELSE {p1}]
MCBuffers == [io \in Contexts |-> IF io = c1 THEN Resources \cap {buffer} ELSE {}]

\* The second scratch is the larger one: both do not fit the budget of 3.
MCSize == [x \in Resources \cup Scratch |-> IF x = x2 THEN 3 ELSE 1]

\* c1 and c2 are interchangeable only where no data buffer is.
MCSymmetry == Permutations(Threads) \cup Permutations(Slots) \cup Permutations(Contexts)
MCThreadSymmetry == Permutations(Threads)
=============================================================================
