------------------------------- MODULE MCFlip -------------------------------
(* Small instances of the primary plane.                                     *)
EXTENDS FlipSafety, TLC

CONSTANTS r1, r2, r3, b1, b2, b3

MCTwoResources == {r1, r2}
MCThreeResources == {r1, r2, r3}
MCTwoBases == {b1, b2}
MCThreeBases == {b1, b2, b3}
MCNoTiled == {}
MCOneTiled == {r1}
MCAllSymmetry == Permutations(Resources) \cup Permutations(Bases)
=============================================================================
