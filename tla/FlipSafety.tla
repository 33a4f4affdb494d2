----------------------------- MODULE FlipSafety -----------------------------
(* What must hold of the primary plane.                                      *)
EXTENDS FlipEngine

Regs == [r : Resources \cup {NoResource}, base : Bases \cup {NoBase, BootBase}]
Proofs == [r : Resources \cup {NoResource}, valid : BOOLEAN, base : Bases \cup {NoBase}]

\* Every variable keeps its range.

TypeOK ==
    /\ surf \in Regs /\ live \in Regs
    /\ dptDisabled \in BOOLEAN /\ foreignTiled \in BOOLEAN /\ optimizeScanout \in BOOLEAN
    /\ newFrame \in BOOLEAN /\ unseen \in BOOLEAN /\ crossed \in BOOLEAN
    /\ ready \in BOOLEAN /\ changedDPT \in BOOLEAN /\ savedDPT \in BOOLEAN
    /\ native \in SUBSET Resources
    /\ mapping \in [Resources -> Mappings \cup {Unmapped}]
    /\ pins \in [Resources -> Nat]
    /\ front \in Resources \cup {NoResource} /\ pending \in Resources \cup {NoResource}
    /\ proofs \in [Entries -> Proofs]
    /\ flip \in {"none", "armed", "latched", "completed"}
    /\ base \in Bases \cup {NoBase}
    /\ pc \in {"idle", "write"}
    /\ detach \in {"running", "disable", "wait", "clear", "stopped"}
    /\ frames \in 0..2

\* What the pipe scans, and what it will scan after the next blank, is mapped
\* at the programmed address with the pages that were inspected, however the
\* accelerator prepares and completes its resources (intel_framebuffer.cpp
\* 142-160: a retain alone cannot preserve GPU mapping preparation).
ScanoutMapped ==
    \A reg \in {surf, live} :
        reg.r # NoResource => mapping[reg.r] = [base |-> reg.base, sound |-> TRUE]

Holds(r) == (IF front = r THEN 1 ELSE 0) + (IF pending = r THEN 1 ELSE 0)
            + CachePins(Entries, r)

\* Every prepare of the driver is owed to exactly one holder, so that none is
\* completed twice and none is forgotten on an error path (147-159, 669-671).
PinsBalance == \A r \in Resources : pins[r] = Holds(r)

\* A proof in the cache speaks of the mapping that is there now: the address
\* was not given up and taken again with other pages (75-90).
ProofsCurrent ==
    \A e \in Entries : proofs[e].valid =>
        mapping[proofs[e].r] = [base |-> proofs[e].base, sound |-> TRUE]

\* The surface called front is the one on screen: a completion is reported,
\* and the old surface released, only after the new one is live (187-196).
FrontIsOnScreen ==
    Attached => CASE ~Pending -> live.r = front
                  [] flip = "latched" -> live.r = pending
                  [] OTHER -> live.r \in {front, pending}

\* A tiled surface is never scanned through the display page table (199-216,
\* and its restoration by stop, 386).
TiledRouted == \A reg \in {surf, live} : reg.r \in Tiled => dptDisabled

\* An update counts as latched only if a vertical blank passed since it was
\* armed, also when it shows the address already on screen (flip_state.hpp 17).
LatchNeedsBlank ==
    [][(flip = "armed" /\ flip' \in {"latched", "completed"}) => crossed]_vars

ASSUME NothingAssumption == "nothing" \notin Resources \cup {NoResource}

\* The plane implements a double buffer.
Buffer == INSTANCE DoubleBuffer WITH
    Surfaces <- Resources,
    Blank <- NoResource,
    Nothing <- "nothing",
    onScreen <- live.r,
    next <- IF Pending /\ detach \notin {"clear", "stopped"} THEN pending
            ELSE "nothing",
    held <- {front, pending} \ {NoResource},
    attached <- Attached

BufferSpec == Buffer!Spec

\* Every armed update is reported complete while the native queue polls.
FlipCompletes == Pending ~> (~Pending \/ ~Attached)
=============================================================================
